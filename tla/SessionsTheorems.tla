-------------------------- MODULE SessionsTheorems --------------------------
(***************************************************************************)
(* Theorems about Sessions, for every number of browsers, requests, tokens *)
(* and faults: what a browser can use is on the user's list, and what was  *)
(* exchanged or revoked leaves the whitelist, but for one key per fault.   *)
(***************************************************************************)
EXTENDS Sessions, FiniteSetTheorems, TLAPS

\* A refresh that has blacklisted its token and not yet deleted its session.
Exchanging(q) ==
    q.kind = "refresh" /\ q.at \in {"read", "store", "unindex", "index", "drop"}

Revoking(q) == q.at \in {"revoke", "unlist", "delete"}

\* Where a request may be, and what is true of its sessions there.
InPlace(q) ==
    /\ q.at \in {"validate", "recheck", "exchange", "read", "unindex", "drop"}
           => q.kind = "refresh"
    /\ q.at \in {"store", "index"} => q.kind \in {"signin", "refresh"}
    /\ q.at \in {"read", "store", "unindex", "index"} => q.new \in minted
    /\ q.at \in {"list", "get"} => q.kind \in {"one", "others", "page"}
    /\ Revoking(q) => q.kind \in {"logout", "one", "others", "page", "admin"}
    /\ q.kind \in {"refresh", "logout"} => q.jti \in minted
    /\ q.at \in {"unlist", "delete"} => q.victim \in revoked
    /\ Exchanging(q) => q.jti \in blacklisted
    /\ q.orphans \cap live = {}
    /\ q.kind = "logout" /\ Revoking(q) => q.jti \in q.found \/ q.jti \notin live

AllInPlace == \A r \in Requests : InPlace(req[r])

\* A jti that was drawn and not stored yet ...
Fresh(q) == q.at \in {"read", "store"}

\* ... is one that nothing and no other request knows of.
Unmentioned(q, j) ==
    /\ j \notin q.todo \cup q.found \cup q.orphans
    /\ q.kind \in {"refresh", "logout"} => j # q.jti

Unknown(j) ==
    /\ j \in minted
    /\ j \notin live \cup index \cup blacklisted \cup revoked \cup Held
    /\ \A r \in Requests : Unmentioned(req[r], j)

FreshIsUnknown ==
    \A r \in Requests : Fresh(req[r]) =>
        /\ Unknown(req[r].new)
        /\ \A q \in Requests \ {r} : req[q].new # req[r].new

\* A session that can be used is on the list.
Listed(j) == j \in live \ (blacklisted \cup revoked) => j \in index

\* A request whose answer will bring a session.
Announcing(q) == q.kind \in {"signin", "refresh"} /\ q.at \in {"drop", "answer"}

AllListed ==
    /\ \A j \in Held : Listed(j)
    /\ \A r \in Requests : Announcing(req[r]) => Listed(req[r].new)

\* The keys of exchanged tokens that nobody is on the way to delete ...
Left == {j \in blacklisted \cap live : ~\E r \in Requests : Exchanging(req[r]) /\ req[r].jti = j}

\* ... and those of revoked sessions.
Spared ==
    {j \in revoked \cap live :
        ~\E r \in Requests : req[r].at \in {"unlist", "delete"} /\ req[r].victim = j}

LeftBounded == IsFiniteSet(Left) /\ Cardinality(Left) <= faults
SparedBounded == IsFiniteSet(Spared) /\ Cardinality(Spared) <= faults

SessionsInv == TypeOK /\ AllInPlace /\ FreshIsUnknown /\ AllListed

-----------------------------------------------------------------------------
(* Rows of requests.                                                       *)

Kinds == {"none", "signin", "refresh", "logout", "one", "others", "page", "admin"}

\* The rows a request may have once the jtis in M were drawn.
Rows(M) ==
    [kind : Kinds, at : Places, browser : Browsers \cup {NoBrowser},
     jti : M \cup {NoJti}, new : M \cup {NoJti}, victim : M \cup {NoJti},
     todo : SUBSET M, found : SUBSET M, orphans : SUBSET M]

\* More jtis, more rows.
LEMMA RowsGrow == \A L, M : L \subseteq M => Rows(L) \subseteq Rows(M)
BY DEF Rows

\* No request, no session.
LEMMA IdleRow ==
    /\ \A M : Idle \in Rows(M)
    /\ Idle.kind = "none" /\ Idle.at = "idle" /\ Idle.jti = NoJti /\ Idle.new = NoJti
    /\ Idle.victim = NoJti /\ Idle.todo = {} /\ Idle.found = {} /\ Idle.orphans = {}
    /\ Idle.browser = NoBrowser
BY DEF Idle, Rows, Kinds, Places

\* One request gets another row, the others keep theirs.
LEMMA NewRow ==
    ASSUME TypeOK, NEW r \in Requests, NEW M, minted \subseteq M, NEW row \in Rows(M),
           req' = [req EXCEPT ![r] = row]
    PROVE  /\ req' \in [Requests -> Rows(M)] /\ req'[r] = row
           /\ \A q \in Requests \ {r} : req'[q] = req[q]
<1>1. req \in [Requests -> Rows(minted)]
  BY DEF TypeOK, Rows, Kinds
<1>2. req \in [Requests -> Rows(M)]
  BY <1>1, RowsGrow
<1> QED BY <1>2

\* What a row says of sessions, all but its place.
SameButAt(p, q) ==
    /\ p.kind = q.kind /\ p.jti = q.jti /\ p.new = q.new /\ p.victim = q.victim
    /\ p.todo = q.todo /\ p.found = q.found /\ p.orphans = q.orphans

\* The request goes on, and remembers what it did.
LEMMA GotoRow ==
    ASSUME TypeOK, NEW r \in Requests, NEW place \in Places, Goto(r, place)
    PROVE  /\ req' \in [Requests -> Rows(minted)] /\ req'[r].at = place
           /\ SameButAt(req'[r], req[r])
           /\ \A q \in Requests \ {r} : req'[q] = req[q]
<1> DEFINE row == [req[r] EXCEPT !.at = place]
<1>1. req[r] \in Rows(minted)
  BY DEF TypeOK, Rows, Kinds
<1>2. row \in Rows(minted) /\ row.at = place /\ SameButAt(row, req[r])
  BY <1>1 DEF Rows, SameButAt
<1>3. req' = [req EXCEPT ![r] = row]
  BY DEF Goto
<1> HIDE DEF row
<1> QED BY <1>2, <1>3, NewRow

\* The request is over.
LEMMA FinishRow ==
    ASSUME TypeOK, NEW r \in Requests, Finish(r)
    PROVE  /\ req' \in [Requests -> Rows(minted)] /\ req'[r] = Idle
           /\ \A q \in Requests \ {r} : req'[q] = req[q]
BY IdleRow, NewRow DEF Finish

\* The row of a request.
LEMMA RowOf ==
    ASSUME TypeOK, NEW r \in Requests
    PROVE  /\ req[r] \in Rows(minted)
           /\ req[r].kind \in Kinds /\ req[r].at \in Places
           /\ req[r].browser \in Browsers \cup {NoBrowser}
           /\ req[r].jti \in minted \cup {NoJti} /\ req[r].new \in minted \cup {NoJti}
           /\ req[r].victim \in minted \cup {NoJti} /\ req[r].todo \subseteq minted
           /\ req[r].found \subseteq minted /\ req[r].orphans \subseteq minted
<1>1. req[r] \in Rows(minted)
  BY DEF TypeOK, Rows, Kinds
<1> QED BY <1>1 DEF Rows

-----------------------------------------------------------------------------
(* What a step of a request can do to the sessions of the others.          *)

\* The tables after a step.
Tables(r) ==
    /\ minted \subseteq minted' /\ blacklisted \subseteq blacklisted' /\ revoked \subseteq revoked'
    /\ \A j \in live' : j \in live \/ (req[r].at = "store" /\ j = req[r].new)
    /\ \A j \in index' : j \in index \/ j = req[r].new
    /\ \A j \in blacklisted' :
          j \in blacklisted \/ (req[r].kind \in {"refresh", "logout"} /\ j = req[r].jti)
    /\ \A j \in revoked' : j \in revoked \cup req[r].found
    /\ \A j \in Held' : j \in Held \cup {req[r].new, NoJti}

\* The sessions the row of its request may mention then.
Mentions(r) ==
    /\ \A q \in Requests \ {r} : req'[q] = req[q]
    /\ req'[r].todo \subseteq req[r].todo \cup index
    /\ req'[r].orphans \subseteq req[r].orphans \cup req[r].todo
    /\ \A j \in req'[r].found : \/ j \in req[r].found \cup req[r].todo \cup Held
                                \/ j \in minted /\ \A q \in Requests : req[q].new # j
    /\ req'[r].kind \in {"refresh", "logout"} =>
          \/ req'[r].jti \in Held
          \/ req[r].kind \in {"refresh", "logout"} /\ req'[r].jti = req[r].jti
    /\ req'[r].new \in {req[r].new, NoJti} \cup (Jtis \ minted)

\* A request that will store a session has just drawn it, or waits with it.
Draws(r) ==
    Fresh(req'[r]) =>
        \/ /\ req[r].at = "read" /\ SameButAt(req'[r], req[r])
           /\ UNCHANGED <<redis, tokens, cookie, revoked>>
        \/ req'[r].new \in (Jtis \ minted) \cap minted'

Frame(r) == TypeOK' /\ Tables(r) /\ Mentions(r) /\ Draws(r)

\* A row that is the same but for its place mentions nothing new.
LEMMA SameMentions ==
    ASSUME NEW r \in Requests, SameButAt(req'[r], req[r]),
           \A q \in Requests \ {r} : req'[q] = req[q]
    PROVE  Mentions(r)
BY DEF SameButAt, Mentions

\* A request that is over mentions nothing.
LEMMA FinishFrame ==
    ASSUME TypeOK, NEW r \in Requests, Finish(r)
    PROVE  Mentions(r) /\ Draws(r) /\ req' \in [Requests -> Rows(minted)]
<1>1. req'[r] = Idle /\ \A q \in Requests \ {r} : req'[q] = req[q]
  BY FinishRow
<1>2. Mentions(r)
  BY <1>1, IdleRow DEF Mentions
<1>3. Draws(r)
  BY <1>1, IdleRow DEF Draws, Fresh
<1> QED BY <1>2, <1>3, FinishRow

\* A request that goes on to a place where it has no fresh jti.
LEMMA GotoFrame ==
    ASSUME TypeOK, NEW r \in Requests, NEW place \in Places \ {"read", "store"}, Goto(r, place)
    PROVE  Mentions(r) /\ Draws(r) /\ req' \in [Requests -> Rows(minted)]
BY GotoRow, SameMentions DEF Draws, Fresh

\* The type invariant, with the rows named.
LEMMA TypeOfRows ==
    TypeOK <=> /\ live \subseteq minted /\ index \subseteq minted
               /\ blacklisted \subseteq minted /\ expired \subseteq minted
               /\ revoked \subseteq minted /\ ended \subseteq minted /\ minted \subseteq Jtis
               /\ cookie \in [Browsers -> minted \cup {NoJti}]
               /\ req \in [Requests -> Rows(minted)]
               /\ faults \in 0..MaxFaults
BY DEF TypeOK, Rows, Kinds

\* The same, after a step.
LEMMA TypeOfRowsNext ==
    TypeOK' <=> /\ live' \subseteq minted' /\ index' \subseteq minted'
                /\ blacklisted' \subseteq minted' /\ expired' \subseteq minted'
                /\ revoked' \subseteq minted' /\ ended' \subseteq minted' /\ minted' \subseteq Jtis
                /\ cookie' \in [Browsers -> minted' \cup {NoJti}]
                /\ req' \in [Requests -> Rows(minted')]
                /\ faults' \in 0..MaxFaults
BY DEF TypeOK, Rows, Kinds

\* Steps that only begin a request, in its place.
LEMMA StartFrame ==
    ASSUME TypeOK, AllInPlace, NEW r \in Requests,
           \/ \E b \in Browsers : StartRefresh(r, b) \/ StartLogout(r, b) \/ StartRevoke(r, b)
           \/ AdminList(r) \/ AdminRevoke(r)
    PROVE  Frame(r) /\ InPlace(req[r])' /\ ~Announcing(req'[r])
<1> USE DEF redis, tokens, history
<1>1. \A b \in Browsers : cookie[b] \in minted \cup {NoJti} /\ cookie[b] \in Held
  BY DEF TypeOK, Held
<1>2. ASSUME NEW row \in Rows(minted), req' = [req EXCEPT ![r] = row],
             ~Fresh(row), row.todo = {}, row.orphans = {}, row.new = NoJti,
             \A j \in row.found : j \in Held \/ (j \in minted /\ \A q \in Requests : req[q].new # j),
             row.kind \in {"refresh", "logout"} => row.jti \in Held,
             \/ row.at = "validate" /\ row.kind = "refresh" /\ row.jti \in minted
             \/ row.at = "list" /\ row.kind \in {"one", "others", "page"}
             \/ row.at = "revoke" /\ row.kind \in {"logout", "admin"} /\ row.jti \in row.found,
             UNCHANGED <<live, index, blacklisted, expired, minted, cookie, revoked, ended,
                         faults>>
      PROVE  Frame(r) /\ InPlace(req[r])' /\ ~Announcing(req'[r])
  <2>1. /\ req' \in [Requests -> Rows(minted)] /\ req'[r] = row
        /\ \A q \in Requests \ {r} : req'[q] = req[q]
    BY <1>2, NewRow
  <2>2. TypeOK'
    BY <1>2, <2>1, TypeOfRows, TypeOfRowsNext
  <2>3. Tables(r)
    BY <1>2 DEF Tables, Held
  <2>4. Mentions(r)
    BY <1>2, <2>1 DEF Mentions
  <2>5. Draws(r)
    BY <1>2, <2>1 DEF Draws
  <2>6. row.found \subseteq minted
    BY <1>2 DEF Rows
  <2>7. InPlace(req[r])'
    BY <1>2, <2>1, <2>6 DEF InPlace, Revoking, Exchanging
  <2>8. ~Announcing(req'[r])
    BY <1>2, <2>1 DEF Announcing
  <2> QED BY <2>2, <2>3, <2>4, <2>5, <2>7, <2>8 DEF Frame
<1>3. ASSUME NEW b \in Browsers, StartRefresh(r, b) PROVE Frame(r) /\ InPlace(req[r])' /\ ~Announcing(req'[r])
  <2> DEFINE row == [Idle EXCEPT !.kind = "refresh", !.at = "validate", !.browser = b,
                                 !.jti = cookie[b]]
  <2>1. req' = [req EXCEPT ![r] = row]
    BY <1>3 DEF StartRefresh
  <2>2. /\ row \in Rows(minted) /\ row.at = "validate" /\ row.jti = cookie[b] /\ row.new = NoJti
        /\ row.kind = "refresh"
        /\ row.found = {} /\ row.todo = {} /\ row.orphans = {}
    BY <1>1 DEF Idle, Rows, Kinds, Places
  <2> HIDE DEF row
  <2>3. cookie[b] \in minted
    BY <1>3 DEF StartRefresh, Accepted
  <2> QED BY <1>1, <1>2, <1>3, <2>1, <2>2, <2>3 DEF StartRefresh, Fresh
<1>4. ASSUME NEW b \in Browsers, StartLogout(r, b) PROVE Frame(r) /\ InPlace(req[r])' /\ ~Announcing(req'[r])
  <2>1. CASE Accepted(cookie[b])
    <3> DEFINE row == [Idle EXCEPT !.kind = "logout", !.at = "revoke", !.browser = b,
                                   !.jti = cookie[b], !.found = {cookie[b]}]
    <3>1. req' = [req EXCEPT ![r] = row] /\ cookie[b] \in minted
      BY <1>4, <2>1 DEF StartLogout, Accepted
    <3>2. /\ row \in Rows(minted) /\ row.at = "revoke" /\ row.jti = cookie[b]
          /\ row.kind = "logout" /\ row.new = NoJti /\ row.found = {cookie[b]} /\ row.todo = {} /\ row.orphans = {}
      BY <3>1 DEF Idle, Rows, Kinds, Places
    <3> HIDE DEF row
    <3> QED BY <1>1, <1>2, <1>4, <2>1, <3>1, <3>2 DEF StartLogout, Fresh
  <2>2. CASE ~Accepted(cookie[b])
    <3>1. /\ cookie' = [cookie EXCEPT ![b] = NoJti] /\ req' = req
          /\ UNCHANGED <<live, index, blacklisted, expired, minted, revoked, ended, faults>>
          /\ req[r].at = "idle"
      BY <1>4, <2>2 DEF StartLogout, At
    <3>2. TypeOK'
      BY <3>1, TypeOfRows, TypeOfRowsNext
    <3>3. \A j \in Held' : j \in Held \cup {NoJti}
      BY <3>1 DEF Held, TypeOK
    <3>4. InPlace(req[r])'
      BY <3>1 DEF AllInPlace, InPlace, Revoking, Exchanging
    <3> QED BY <3>1, <3>2, <3>3, <3>4 DEF Frame, Tables, Mentions, Draws, Fresh, Announcing
  <2> QED BY <2>1, <2>2
<1>5. ASSUME NEW b \in Browsers, StartRevoke(r, b) PROVE Frame(r) /\ InPlace(req[r])' /\ ~Announcing(req'[r])
  <2>1. PICK kind \in {"one", "others"}, j \in minted :
           req' = [req EXCEPT ![r] = [Idle EXCEPT !.kind = kind, !.at = "list",
                                                  !.browser = b, !.jti = j]]
    BY <1>5 DEF StartRevoke
  <2> DEFINE row == [Idle EXCEPT !.kind = kind, !.at = "list", !.browser = b, !.jti = j]
  <2>2. req' = [req EXCEPT ![r] = row]
    BY <2>1
  <2>3. /\ row \in Rows(minted) /\ row.kind = kind /\ row.at = "list" /\ row.new = NoJti
        /\ row.found = {} /\ row.todo = {} /\ row.orphans = {}
    BY DEF Idle, Rows, Kinds, Places
  <2> HIDE DEF row
  <2> QED BY <1>2, <1>5, <2>2, <2>3 DEF StartRevoke, Fresh
<1>6. CASE AdminList(r)
  <2> DEFINE row == [Idle EXCEPT !.kind = "page", !.at = "list"]
  <2>1. req' = [req EXCEPT ![r] = row]
    BY <1>6 DEF AdminList
  <2>2. /\ row \in Rows(minted) /\ row.kind = "page" /\ row.at = "list" /\ row.new = NoJti
        /\ row.found = {} /\ row.todo = {} /\ row.orphans = {}
    BY DEF Idle, Rows, Kinds, Places
  <2> HIDE DEF row
  <2> QED BY <1>2, <1>6, <2>1, <2>2 DEF AdminList, Fresh
<1>7. CASE AdminRevoke(r)
  <2>1. PICK j \in minted :
           /\ \A q \in Requests : req[q].new # j
           /\ req' = [req EXCEPT ![r] = [Idle EXCEPT !.kind = "admin", !.at = "revoke",
                                                     !.jti = j, !.found = {j}]]
    BY <1>7 DEF AdminRevoke
  <2> DEFINE row == [Idle EXCEPT !.kind = "admin", !.at = "revoke", !.jti = j, !.found = {j}]
  <2>2. req' = [req EXCEPT ![r] = row]
    BY <2>1
  <2>3. /\ row \in Rows(minted) /\ row.kind = "admin" /\ row.at = "revoke" /\ row.new = NoJti
        /\ row.found = {j} /\ row.todo = {} /\ row.orphans = {} /\ row.jti = j
    BY DEF Idle, Rows, Kinds, Places
  <2> HIDE DEF row
  <2> QED BY <1>2, <1>7, <2>1, <2>2, <2>3 DEF AdminRevoke, Fresh
<1> QED BY <1>3, <1>4, <1>5, <1>6, <1>7

\* Steps that leave what the row says and write one key, or none.
LEMMA CommandFrame ==
    ASSUME TypeOK, AllInPlace, NEW r \in Requests,
           \/ ValidateSession(r) \/ Recheck(r) \/ StoreNew(r) \/ UnindexOld(r) \/ IndexNew(r)
           \/ DropOld(r) \/ UnlistVictim(r) \/ RevokeDone(r) \/ Dies(r)
    PROVE  Frame(r)
<1> USE DEF redis, tokens, history, At
<1>1. ASSUME NEW place \in Places \ {"read", "store"}, Goto(r, place) \/ Finish(r),
             minted' = minted, expired' = expired, cookie' = cookie, revoked' = revoked,
             ended' = ended,
             Tables(r), live' \subseteq minted, index' \subseteq minted,
             blacklisted' \subseteq minted, faults' \in 0..MaxFaults
      PROVE  Frame(r)
  <2>1. Mentions(r) /\ Draws(r) /\ req' \in [Requests -> Rows(minted)]
    BY <1>1, GotoFrame, FinishFrame
  <2>2. TypeOK'
    BY <1>1, <2>1, TypeOfRows, TypeOfRowsNext
  <2> QED BY <1>1, <2>1, <2>2 DEF Frame
<1>2. /\ live \subseteq minted /\ index \subseteq minted /\ blacklisted \subseteq minted
      /\ faults \in 0..MaxFaults
  BY DEF TypeOK
<1>3. CASE ValidateSession(r)
  <2>1. Goto(r, "recheck") \/ Finish(r)
    BY <1>3 DEF ValidateSession
  <2>2. Tables(r)
    BY <1>3 DEF ValidateSession, Tables, Held
  <2> QED BY <1>1, <1>2, <1>3, <2>1, <2>2 DEF ValidateSession, Places
<1>4. CASE Recheck(r)
  <2>1. Goto(r, "exchange") \/ Finish(r)
    BY <1>4 DEF Recheck
  <2>2. Tables(r)
    BY <1>4 DEF Recheck, Tables, Held
  <2> QED BY <1>1, <1>2, <1>4, <2>1, <2>2 DEF Recheck, Places
<1>5. CASE StoreNew(r)
  <2>1. Goto(r, "unindex") \/ Goto(r, "index")
    BY <1>5 DEF StoreNew
  <2>2. Tables(r)
    BY <1>5 DEF StoreNew, Tables, Held
  <2>3. live' \subseteq minted
    BY <1>2, <1>5 DEF StoreNew, AllInPlace, InPlace
  <2> QED BY <1>1, <1>2, <1>5, <2>1, <2>2, <2>3 DEF StoreNew, Places
<1>6. CASE UnindexOld(r)
  <2>1. Tables(r)
    BY <1>6 DEF UnindexOld, Tables, Held
  <2>2. index' \subseteq minted
    BY <1>2, <1>6 DEF UnindexOld
  <2> QED BY <1>1, <1>2, <1>6, <2>1, <2>2 DEF UnindexOld, Places
<1>7. CASE IndexNew(r)
  <2>1. Goto(r, "drop") \/ Goto(r, "answer")
    BY <1>7 DEF IndexNew
  <2>2. Tables(r)
    BY <1>7 DEF IndexNew, Tables, Held
  <2>3. index' \subseteq minted
    BY <1>2, <1>7 DEF IndexNew, AllInPlace, InPlace
  <2> QED BY <1>1, <1>2, <1>7, <2>1, <2>2, <2>3 DEF IndexNew, Places
<1>8. CASE DropOld(r)
  <2>1. Tables(r)
    BY <1>8 DEF DropOld, Tables, Held
  <2>2. live' \subseteq minted
    BY <1>2, <1>8 DEF DropOld
  <2> QED BY <1>1, <1>2, <1>8, <2>1, <2>2 DEF DropOld, Places
<1>9. CASE UnlistVictim(r)
  <2>1. Tables(r)
    BY <1>9 DEF UnlistVictim, Tables, Held
  <2>2. index' \subseteq minted
    BY <1>2, <1>9 DEF UnlistVictim
  <2> QED BY <1>1, <1>2, <1>9, <2>1, <2>2 DEF UnlistVictim, Places
<1>10. CASE RevokeDone(r)
  <2>1. Tables(r)
    BY <1>10 DEF RevokeDone, Tables, Held
  <2>2. req[r].kind = "logout" => req[r].jti \in minted
    BY DEF AllInPlace, InPlace
  <2>3. blacklisted' \subseteq minted
    BY <1>2, <1>10, <2>2 DEF RevokeDone
  <2> QED BY <1>1, <1>2, <1>10, <2>1, <2>3 DEF RevokeDone, Places
<1>11. CASE Dies(r)
  <2>1. Tables(r)
    BY <1>11 DEF Dies, Tables, Held
  <2>2. faults' \in 0..MaxFaults
    BY <1>2, <1>11, FaultsAssumption DEF Dies, Fault
  <2> QED BY <1>1, <1>2, <1>11, <2>1, <2>2 DEF Dies, Places
<1> QED BY <1>3, <1>4, <1>5, <1>6, <1>7, <1>8, <1>9, <1>10, <1>11

\* A session is drawn.
LEMMA DrawFrame ==
    ASSUME TypeOK, AllInPlace, NEW r \in Requests,
           (\E b \in Browsers : SignIn(r, b)) \/ Exchange(r) \/ ReadOld(r)
    PROVE  Frame(r)
<1> USE DEF redis, tokens, history, At
<1>1. ASSUME NEW j \in Jtis \ minted, NEW row \in Rows(minted \cup {j}),
             req' = [req EXCEPT ![r] = row], minted' = minted \cup {j}, row.new = j,
             row.todo \subseteq req[r].todo, row.orphans \subseteq req[r].orphans,
             row.found \subseteq req[r].found,
             row.kind \in {"refresh", "logout"} =>
                 req[r].kind \in {"refresh", "logout"} /\ row.jti = req[r].jti,
             \A x \in blacklisted' :
                x \in blacklisted \/ (req[r].kind \in {"refresh", "logout"} /\ x = req[r].jti),
             blacklisted \subseteq blacklisted', blacklisted' \subseteq minted,
             ended' \subseteq ended \cup {j},
             UNCHANGED <<live, index, expired, cookie, revoked, faults>>
      PROVE  Frame(r)
  <2>1. /\ req' \in [Requests -> Rows(minted')] /\ req'[r] = row
        /\ \A q \in Requests \ {r} : req'[q] = req[q]
    BY <1>1, NewRow
  <2>2. TypeOK'
    <3>1. /\ live' \subseteq minted' /\ index' \subseteq minted' /\ blacklisted' \subseteq minted'
          /\ expired' \subseteq minted' /\ revoked' \subseteq minted' /\ minted' \subseteq Jtis
          /\ ended' \subseteq minted'
          /\ cookie' \in [Browsers -> minted' \cup {NoJti}] /\ faults' \in 0..MaxFaults
      BY <1>1 DEF TypeOK
    <3> QED BY <2>1, <3>1, TypeOfRowsNext
  <2>3. Tables(r)
    BY <1>1 DEF Tables, Held
  <2>4. Mentions(r)
    BY <1>1, <2>1 DEF Mentions
  <2>5. Draws(r)
    BY <1>1, <2>1 DEF Draws
  <2> QED BY <2>2, <2>3, <2>4, <2>5 DEF Frame
<1>2. ASSUME NEW b \in Browsers, SignIn(r, b) PROVE Frame(r)
  <2>1. PICK j \in Jtis \ minted :
           /\ minted' = minted \cup {j}
           /\ req' = [req EXCEPT ![r] = [Idle EXCEPT !.kind = "signin", !.at = "store",
                                                     !.browser = b, !.new = j]]
    BY <1>2 DEF SignIn
  <2> DEFINE row == [Idle EXCEPT !.kind = "signin", !.at = "store", !.browser = b, !.new = j]
  <2>2. /\ row \in Rows(minted \cup {j}) /\ row.kind = "signin" /\ row.new = j
        /\ row.todo = {} /\ row.orphans = {} /\ row.found = {}
    BY DEF Idle, Rows, Kinds, Places
  <2>3. req' = [req EXCEPT ![r] = row]
    BY <2>1
  <2> HIDE DEF row
  <2>4. blacklisted \subseteq minted
    BY DEF TypeOK
  <2> QED BY <1>1, <1>2, <2>1, <2>2, <2>3, <2>4 DEF SignIn
<1>3. CASE Exchange(r)
  <2>1. PICK j \in Jtis \ minted :
           /\ minted' = minted \cup {j}
           /\ req' = [req EXCEPT ![r].new = j, ![r].at = "read"]
           /\ ended' = IF req[r].jti \in ended THEN ended \cup {j} ELSE ended
    BY <1>3 DEF Exchange
  <2> DEFINE row == [req[r] EXCEPT !.new = j, !.at = "read"]
  <2>2. req[r] \in Rows(minted)
    BY RowOf
  <2>3. /\ row \in Rows(minted \cup {j}) /\ row.kind = req[r].kind /\ row.new = j
        /\ row.jti = req[r].jti /\ row.todo = req[r].todo /\ row.orphans = req[r].orphans
        /\ row.found = req[r].found
    BY <2>2 DEF Rows, Places
  <2>4. req' = [req EXCEPT ![r] = row]
    BY <2>1
  <2> HIDE DEF row
  <2>5. req[r].kind = "refresh" /\ req[r].jti \in minted
    BY <1>3 DEF Exchange, AllInPlace, InPlace
  <2>6. blacklisted' = blacklisted \cup {req[r].jti} /\ blacklisted \subseteq minted
    BY <1>3 DEF Exchange, TypeOK
  <2>7. /\ \A x \in blacklisted' : x \in blacklisted \/ x = req[r].jti
        /\ blacklisted \subseteq blacklisted' /\ blacklisted' \subseteq minted
    BY <2>5, <2>6
  <2>8. UNCHANGED <<live, index, expired, cookie, revoked, faults>>
    BY <1>3 DEF Exchange
  <2>9. row.todo \subseteq req[r].todo /\ row.orphans \subseteq req[r].orphans
        /\ row.found \subseteq req[r].found
    BY <2>3
  <2>10. ended' \subseteq ended \cup {j}
    BY <2>1
  <2> QED BY <1>1, <2>1, <2>3, <2>4, <2>5, <2>7, <2>8, <2>9, <2>10
<1>4. CASE ReadOld(r)
  <2>1. PICK place \in {"store", "answer"} : Goto(r, place)
    BY <1>4 DEF ReadOld
  <2>2. /\ req' \in [Requests -> Rows(minted)] /\ SameButAt(req'[r], req[r])
        /\ \A q \in Requests \ {r} : req'[q] = req[q]
    BY <2>1, GotoRow DEF Places
  <2>3. UNCHANGED <<live, index, blacklisted, expired, minted, cookie, revoked, ended, faults>>
    BY <1>4 DEF ReadOld
  <2>4. TypeOK'
    BY <2>2, <2>3, TypeOfRows, TypeOfRowsNext
  <2>5. Tables(r)
    BY <2>3 DEF Tables, Held
  <2>6. Mentions(r)
    BY <2>2, SameMentions
  <2>7. Draws(r)
    BY <1>4, <2>2, <2>3 DEF ReadOld, Draws
  <2> QED BY <2>4, <2>5, <2>6, <2>7 DEF Frame
<1> QED BY <1>2, <1>3, <1>4

\* What the steps of listing and revoking write into the row.
LEMMA ListRow ==
    ASSUME TypeOK, NEW r \in Requests, NEW row \in Rows(minted), req' = [req EXCEPT ![r] = row],
           row.at \in {"get", "revoke", "unlist"},
           row.kind = req[r].kind, row.jti = req[r].jti, row.new = req[r].new,
           row.todo \subseteq req[r].todo \cup index,
           row.orphans \subseteq req[r].orphans \cup req[r].todo,
           row.found \subseteq req[r].found \cup req[r].todo,
           live' \subseteq live, index' \subseteq index,
           revoked \subseteq revoked', revoked' \subseteq revoked \cup req[r].found,
           ended' \subseteq minted, UNCHANGED <<tokens, cookie, faults>>
    PROVE  Frame(r) /\ req'[r] = row
<1>1. /\ req' \in [Requests -> Rows(minted)] /\ req'[r] = row
      /\ \A q \in Requests \ {r} : req'[q] = req[q]
  BY NewRow
<1>2. revoked' \subseteq minted
  BY RowOf DEF TypeOK
<1>3. TypeOK'
  BY <1>1, <1>2, TypeOfRows, TypeOfRowsNext DEF tokens
<1>4. Tables(r)
  BY DEF Tables, Held, tokens
<1>5. Mentions(r)
  BY <1>1 DEF Mentions
<1>6. Draws(r)
  BY <1>1 DEF Draws, Fresh
<1> QED BY <1>1, <1>3, <1>4, <1>5, <1>6 DEF Frame

\* What these steps do to the sessions the request found, revokes, and takes off the
\* list.
Lists(r) ==
    /\ req'[r].kind = req[r].kind /\ req'[r].jti = req[r].jti /\ live' \subseteq live
    /\ \/ req[r].at \in {"list", "get"} /\ req'[r].at \in {"get", "revoke"}
       \/ req[r].at \in {"revoke", "delete"} /\ req'[r].at \in {"revoke", "unlist"}
    /\ req'[r].at = "unlist" => req'[r].victim \in revoked'
    /\ \A j \in req'[r].orphans : j \in req[r].orphans \/ j \notin live'
    /\ Revoking(req[r]) => \A j \in req[r].found \ req'[r].found : j \notin live'
    /\ \A j \in revoked' \ revoked :
          j \notin live' \/ (req'[r].at = "unlist" /\ req'[r].victim = j)
    /\ req[r].at \in {"unlist", "delete"} => req[r].victim \notin live'
    /\ \A j \in index \ index' : j \in req[r].orphans

\* Steps that list sessions, and revoke one after the other.
LEMMA ListFrame ==
    ASSUME TypeOK, AllInPlace, NEW r \in Requests,
           \/ ReadIndex(r) \/ GetListed(r) \/ CleanIndex(r) \/ ReadVictim(r) \/ DeleteVictim(r)
    PROVE  Frame(r) /\ Lists(r)
<1> USE DEF redis, tokens, history, At
<1>1. req[r] \in Rows(minted) /\ req[r].todo \subseteq minted /\ req[r].found \subseteq minted
  BY RowOf
<1>2. ended \subseteq minted
  BY DEF TypeOK
<1>3. At(r, "delete") => req[r].victim \in minted /\ DrawnFor(req[r].victim) \subseteq minted
  <2>1. \A q \in Requests : InPlace(req[q])
    BY DEF AllInPlace
  <2>2. At(r, "delete") => req[r].victim \in revoked /\ revoked \subseteq minted
    BY <2>1 DEF InPlace, TypeOK
  <2>3. DrawnFor(req[r].victim) \subseteq minted
    BY <2>1 DEF DrawnFor, InPlace
  <2> QED BY <2>2, <2>3
<1>4. CASE ReadIndex(r)
  <2> DEFINE row == [req[r] EXCEPT !.todo = index, !.at = "get"]
  <2>1. /\ row \in Rows(minted) /\ row.at = "get" /\ row.todo = index /\ row.kind = req[r].kind
        /\ row.jti = req[r].jti /\ row.new = req[r].new /\ row.orphans = req[r].orphans
        /\ row.found = req[r].found
    BY <1>1 DEF Rows, Places, TypeOK
  <2>2. req' = [req EXCEPT ![r] = row]
    BY <1>4 DEF ReadIndex
  <2> HIDE DEF row
  <2>3. revoked' = revoked /\ live' = live /\ index' = index
        /\ ended' \subseteq minted /\ UNCHANGED <<tokens, cookie, faults>>
    BY <1>4, <1>2 DEF ReadIndex
  <2>4. Frame(r) /\ req'[r] = row
    BY <1>4, <2>1, <2>2, <2>3, ListRow DEF tokens
  <2>5. Lists(r)
    BY <1>4, <2>1, <2>2, <2>4 DEF ReadIndex, Lists, Revoking
  <2> QED BY <2>4, <2>5
<1>5. CASE GetListed(r)
  <2>1. PICK j \in req[r].todo :
           req' = IF j \in live
                  THEN [req EXCEPT ![r].todo = @ \ {j}, ![r].found = @ \cup {j}]
                  ELSE [req EXCEPT ![r].todo = @ \ {j}, ![r].orphans = @ \cup {j}]
    BY <1>5 DEF GetListed
  <2>2. CASE j \in live
    <3> DEFINE row == [req[r] EXCEPT !.todo = req[r].todo \ {j}, !.found = req[r].found \cup {j}]
    <3>1. /\ row \in Rows(minted) /\ row.at = "get" /\ row.todo = req[r].todo \ {j}
          /\ row.kind = req[r].kind /\ row.jti = req[r].jti /\ row.new = req[r].new
          /\ row.orphans = req[r].orphans /\ row.found = req[r].found \cup {j}
      BY <1>1, <1>5 DEF Rows, GetListed
    <3>2. req' = [req EXCEPT ![r] = row]
      BY <2>1, <2>2
    <3> HIDE DEF row
    <3>3. revoked' = revoked /\ live' = live /\ index' = index
          /\ ended' \subseteq minted /\ UNCHANGED <<tokens, cookie, faults>>
      BY <1>5, <1>2 DEF GetListed
    <3>4. /\ row.todo \subseteq req[r].todo \cup index
          /\ row.orphans \subseteq req[r].orphans \cup req[r].todo
          /\ row.found \subseteq req[r].found \cup req[r].todo
      BY <2>1, <3>1
    <3>5. Frame(r) /\ req'[r] = row
      BY <1>5, <3>1, <3>2, <3>4, <3>3, ListRow DEF tokens
    <3>6. Lists(r)
      BY <1>5, <2>2, <3>1, <3>3, <3>5 DEF GetListed, Lists, Revoking
    <3> QED BY <3>5, <3>6
  <2>3. CASE j \notin live
    <3> DEFINE row == [req[r] EXCEPT !.todo = req[r].todo \ {j},
                                     !.orphans = req[r].orphans \cup {j}]
    <3>1. /\ row \in Rows(minted) /\ row.at = "get" /\ row.todo = req[r].todo \ {j}
          /\ row.kind = req[r].kind /\ row.jti = req[r].jti /\ row.new = req[r].new
          /\ row.found = req[r].found /\ row.orphans = req[r].orphans \cup {j}
      BY <1>1, <1>5 DEF Rows, GetListed
    <3>2. req' = [req EXCEPT ![r] = row]
      BY <2>1, <2>3
    <3> HIDE DEF row
    <3>3. revoked' = revoked /\ live' = live /\ index' = index
          /\ ended' \subseteq minted /\ UNCHANGED <<tokens, cookie, faults>>
      BY <1>5, <1>2 DEF GetListed
    <3>4. /\ row.todo \subseteq req[r].todo \cup index
          /\ row.orphans \subseteq req[r].orphans \cup req[r].todo
          /\ row.found \subseteq req[r].found \cup req[r].todo
      BY <2>1, <3>1
    <3>5. Frame(r) /\ req'[r] = row
      BY <1>5, <3>1, <3>2, <3>4, <3>3, ListRow DEF tokens
    <3>6. Lists(r)
      BY <1>5, <2>3, <3>1, <3>3, <3>5 DEF GetListed, Lists, Revoking
    <3> QED BY <3>5, <3>6
  <2> QED BY <2>2, <2>3
<1>6. CASE CleanIndex(r)
  <2> DEFINE row == [req[r] EXCEPT !.found = ToRevoke(r), !.orphans = {}, !.at = "revoke"]
  <2>1. ToRevoke(r) \subseteq req[r].found
    BY DEF ToRevoke
  <2>2. /\ row \in Rows(minted) /\ row.at = "revoke" /\ row.todo = req[r].todo
        /\ row.kind = req[r].kind /\ row.jti = req[r].jti /\ row.new = req[r].new
        /\ row.orphans = {} /\ row.found = ToRevoke(r)
    BY <1>1, <2>1 DEF Rows, Places
  <2>3. req' = [req EXCEPT ![r] = row]
    BY <1>6 DEF CleanIndex
  <2> HIDE DEF row
  <2>4. revoked' = revoked /\ live' = live /\ index' = index \ req[r].orphans
        /\ ended' \subseteq minted /\ UNCHANGED <<tokens, cookie, faults>>
    BY <1>6, <1>2 DEF CleanIndex
  <2>5. Frame(r) /\ req'[r] = row
    BY <1>6, <2>1, <2>2, <2>3, <2>4, ListRow DEF tokens
  <2>6. Lists(r)
    BY <1>6, <2>1, <2>2, <2>3, <2>5 DEF CleanIndex, Lists, Revoking
  <2> QED BY <2>5, <2>6
<1>7. CASE ReadVictim(r)
  <2>1. PICK j \in req[r].found :
           /\ req' = IF j \in live
                     THEN [req EXCEPT ![r].victim = j, ![r].at = "unlist"]
                     ELSE [req EXCEPT ![r].found = @ \ {j}]
           /\ revoked' = revoked \cup {j}
    BY <1>7 DEF ReadVictim
  <2>2. CASE j \in live
    <3> DEFINE row == [req[r] EXCEPT !.victim = j, !.at = "unlist"]
    <3>1. /\ row \in Rows(minted) /\ row.at = "unlist" /\ row.todo = req[r].todo
          /\ row.kind = req[r].kind /\ row.jti = req[r].jti /\ row.new = req[r].new
          /\ row.orphans = req[r].orphans /\ row.found = req[r].found /\ row.victim = j
      BY <1>1, <2>1 DEF Rows, Places
    <3>2. req' = [req EXCEPT ![r] = row]
      BY <2>1, <2>2
    <3> HIDE DEF row
    <3>3. revoked' = revoked \cup {j} /\ live' = live /\ index' = index
          /\ ended' \subseteq minted /\ UNCHANGED <<tokens, cookie, faults>>
      BY <1>7, <2>1, <1>2 DEF ReadVictim
    <3>4. /\ revoked \subseteq revoked' /\ revoked' \subseteq revoked \cup req[r].found
          /\ row.found \subseteq req[r].found \cup req[r].todo
          /\ live' \subseteq live /\ index' \subseteq index
      BY <2>1, <3>1, <3>3
    <3>5. Frame(r) /\ req'[r] = row
      BY <3>1, <3>2, <3>3, <3>4, ListRow
    <3>6. Lists(r)
      BY <1>7, <2>1, <2>2, <3>1, <3>3, <3>5 DEF ReadVictim, Lists, Revoking
    <3> QED BY <3>5, <3>6
  <2>3. CASE j \notin live
    <3> DEFINE row == [req[r] EXCEPT !.found = req[r].found \ {j}]
    <3>1. /\ row \in Rows(minted) /\ row.at = "revoke" /\ row.todo = req[r].todo
          /\ row.kind = req[r].kind /\ row.jti = req[r].jti /\ row.new = req[r].new
          /\ row.orphans = req[r].orphans /\ row.found = req[r].found \ {j}
      BY <1>1, <1>7 DEF Rows, ReadVictim
    <3>2. req' = [req EXCEPT ![r] = row]
      BY <2>1, <2>3
    <3> HIDE DEF row
    <3>3. revoked' = revoked \cup {j} /\ live' = live /\ index' = index
          /\ ended' \subseteq minted /\ UNCHANGED <<tokens, cookie, faults>>
      BY <1>7, <2>1, <1>2 DEF ReadVictim
    <3>4. /\ revoked \subseteq revoked' /\ revoked' \subseteq revoked \cup req[r].found
          /\ row.found \subseteq req[r].found \cup req[r].todo
          /\ live' \subseteq live /\ index' \subseteq index
      BY <2>1, <3>1, <3>3
    <3>5. Frame(r) /\ req'[r] = row
      BY <3>1, <3>2, <3>3, <3>4, ListRow
    <3>6. Lists(r)
      BY <1>7, <2>1, <2>3, <3>1, <3>3, <3>5 DEF ReadVictim, Lists, Revoking
    <3> QED BY <3>5, <3>6
  <2> QED BY <2>2, <2>3
<1>8. CASE DeleteVictim(r)
  <2> DEFINE row == [req[r] EXCEPT !.found = req[r].found \ {req[r].victim}, !.victim = NoJti,
                                   !.at = "revoke"]
  <2>1. /\ row \in Rows(minted) /\ row.at = "revoke" /\ row.todo = req[r].todo
        /\ row.kind = req[r].kind /\ row.jti = req[r].jti /\ row.new = req[r].new
        /\ row.orphans = req[r].orphans /\ row.found = req[r].found \ {req[r].victim}
    BY <1>1 DEF Rows, Places
  <2>2. req' = [req EXCEPT ![r] = row]
    BY <1>8 DEF DeleteVictim
  <2> HIDE DEF row
  <2>3. revoked' = revoked /\ live' = live \ {req[r].victim} /\ index' = index
        /\ ended' \subseteq minted /\ UNCHANGED <<tokens, cookie, faults>>
    BY <1>8, <1>2, <1>3 DEF DeleteVictim
  <2>4. Frame(r) /\ req'[r] = row
    BY <1>8, <2>1, <2>2, <2>3, ListRow DEF tokens
  <2>5. Lists(r)
    BY <1>8, <2>1, <2>2, <2>4 DEF DeleteVictim, Lists, Revoking
  <2> QED BY <2>4, <2>5
<1> QED BY <1>4, <1>5, <1>6, <1>7, <1>8

\* The answer brings the browser its cookie.
LEMMA AnswerFrame ==
    ASSUME TypeOK, NEW r \in Requests, Answer(r)
    PROVE  Frame(r) /\ \A j \in Held' \ Held : j = NoJti \/ (Announcing(req[r]) /\ j = req[r].new)
<1> USE DEF redis, tokens, history, At
<1>1. /\ Mentions(r) /\ Draws(r) /\ req' \in [Requests -> Rows(minted)]
      /\ UNCHANGED <<live, index, blacklisted, expired, minted, revoked, ended, faults>>
      /\ req[r].at = "answer"
  BY FinishFrame DEF Answer
<1>2. req[r].new \in minted \cup {NoJti} /\ cookie \in [Browsers -> minted \cup {NoJti}]
  BY RowOf DEF TypeOK
<1> DEFINE brought == IF req[r].kind = "logout" THEN NoJti ELSE req[r].new
<1>3. \/ cookie' = cookie
      \/ /\ req[r].kind \in {"signin", "refresh", "logout"}
         /\ cookie' = [cookie EXCEPT ![req[r].browser] = brought]
  <2>1. CASE req[r].kind \in {"signin", "refresh"}
    BY <2>1 DEF Answer
  <2>2. CASE req[r].kind = "logout"
    BY <2>2 DEF Answer
  <2>3. CASE req[r].kind \notin {"signin", "refresh", "logout"}
    BY <2>3 DEF Answer
  <2> QED BY <2>1, <2>2, <2>3
<1>4. /\ cookie' \in [Browsers -> minted \cup {NoJti}]
      /\ \A j \in Held' \ Held : /\ req[r].kind \in {"signin", "refresh", "logout"}
                                 /\ j = brought
  <2>1. brought \in minted \cup {NoJti}
    BY <1>2
  <2> HIDE DEF brought
  <2> QED BY <1>2, <1>3, <2>1 DEF Held
<1>5. \A j \in Held' \ Held : j = NoJti \/ (Announcing(req[r]) /\ j = req[r].new)
  BY <1>1, <1>4 DEF Announcing
<1>6. TypeOK'
  BY <1>1, <1>4, TypeOfRows, TypeOfRowsNext
<1>7. Tables(r)
  BY <1>1, <1>5 DEF Tables
<1> QED BY <1>1, <1>5, <1>6, <1>7 DEF Frame

\* The steps of a request.
StepOf(r) ==
    \/ \E b \in Browsers : SignIn(r, b) \/ StartRefresh(r, b)
                           \/ StartLogout(r, b) \/ StartRevoke(r, b)
    \/ AdminList(r) \/ AdminRevoke(r)
    \/ ValidateSession(r) \/ Recheck(r) \/ Exchange(r) \/ ReadOld(r)
    \/ StoreNew(r) \/ UnindexOld(r) \/ IndexNew(r) \/ DropOld(r)
    \/ ReadIndex(r) \/ GetListed(r) \/ CleanIndex(r)
    \/ ReadVictim(r) \/ UnlistVictim(r) \/ DeleteVictim(r) \/ RevokeDone(r)
    \/ Answer(r) \/ Dies(r)

\* The clock only takes keys away, and no request notices.
ClockStep ==
    /\ live' \subseteq live /\ index' \subseteq index /\ faults <= faults'
    /\ UNCHANGED <<blacklisted, minted, cookie, req, revoked, ended>>
    /\ \A j \in index \ index' : j \notin live'

\* Every step is one of a request, or the clock's.
LEMMA StepsOfNext ==
    ASSUME TypeOK, AllInPlace, [Next]_vars
    PROVE  \/ \E r \in Requests : StepOf(r) /\ Frame(r)
           \/ TypeOK' /\ ClockStep
<1> USE DEF redis, tokens, history
<1>1. ASSUME NEW r \in Requests, NEW b \in Browsers,
             SignIn(r, b) \/ StartRefresh(r, b) \/ StartLogout(r, b) \/ StartRevoke(r, b)
      PROVE  StepOf(r) /\ Frame(r)
  <2>1. StepOf(r)
    BY <1>1 DEF StepOf
  <2> QED BY <1>1, <2>1, DrawFrame, StartFrame
<1>2. ASSUME NEW r \in Requests,
             \/ ValidateSession(r) \/ Recheck(r) \/ StoreNew(r) \/ UnindexOld(r) \/ IndexNew(r)
             \/ DropOld(r) \/ UnlistVictim(r) \/ RevokeDone(r) \/ Dies(r)
      PROVE  StepOf(r) /\ Frame(r)
  <2>1. StepOf(r)
    BY <1>2 DEF StepOf
  <2> QED BY <1>2, <2>1, CommandFrame
<1>3. ASSUME NEW r \in Requests,
             \/ ReadIndex(r) \/ GetListed(r) \/ CleanIndex(r) \/ ReadVictim(r)
             \/ DeleteVictim(r) \/ Answer(r)
      PROVE  StepOf(r) /\ Frame(r)
  <2>1. StepOf(r)
    BY <1>3 DEF StepOf
  <2> QED BY <1>3, <2>1, ListFrame, AnswerFrame
<1>4. ASSUME NEW j \in Jtis, Lapse(j) PROVE TypeOK' /\ ClockStep
  <2>1. /\ faults \in Nat /\ faults' = faults + 1 /\ faults' \in 0..MaxFaults
        /\ j \in minted /\ live' = live \ {j} /\ expired' = expired \cup {j}
        /\ UNCHANGED <<index, blacklisted, minted, cookie, req, revoked, ended>>
    BY <1>4, FaultsAssumption DEF Lapse, Fault, TypeOK
  <2>2. TypeOK'
    BY <2>1, TypeOfRows, TypeOfRowsNext
  <2>3. faults <= faults' /\ live' \subseteq live /\ index' \subseteq index
    BY <2>1
  <2> QED BY <2>1, <2>2, <2>3 DEF ClockStep
<1>5. CASE LapseIndex
  <2>1. /\ index' = {} /\ index \cap live = {}
        /\ UNCHANGED <<live, blacklisted, expired, minted, cookie, req, revoked, ended, faults>>
    BY <1>5 DEF LapseIndex
  <2>2. TypeOK'
    BY <2>1, TypeOfRows, TypeOfRowsNext
  <2>3. faults \in Nat
    BY DEF TypeOK
  <2> QED BY <2>1, <2>2, <2>3 DEF ClockStep
<1>6. CASE UNCHANGED vars
  <2>1. UNCHANGED <<live, index, blacklisted, expired, minted, cookie, req, revoked, ended,
                    faults>>
    BY <1>6 DEF vars
  <2>2. TypeOK'
    BY <2>1, TypeOfRows, TypeOfRowsNext
  <2>3. faults \in Nat
    BY DEF TypeOK
  <2> QED BY <2>1, <2>2, <2>3 DEF ClockStep
<1>7. ASSUME NEW r \in Requests, AdminList(r) \/ AdminRevoke(r) PROVE StepOf(r) /\ Frame(r)
  <2>1. StepOf(r)
    BY <1>7 DEF StepOf
  <2> QED BY <1>7, <2>1, StartFrame
<1>8. ASSUME NEW r \in Requests, Exchange(r) \/ ReadOld(r) PROVE StepOf(r) /\ Frame(r)
  <2>1. StepOf(r)
    BY <1>8 DEF StepOf
  <2> QED BY <1>8, <2>1, DrawFrame
<1>9. CASE Next
  <2>1. \/ \E r \in Requests : \E b \in Browsers :
              SignIn(r, b) \/ StartRefresh(r, b) \/ StartLogout(r, b) \/ StartRevoke(r, b)
        \/ \E r \in Requests :
              \/ ValidateSession(r) \/ Recheck(r) \/ StoreNew(r) \/ UnindexOld(r) \/ IndexNew(r)
              \/ DropOld(r) \/ UnlistVictim(r) \/ RevokeDone(r) \/ Dies(r)
        \/ \E r \in Requests : Exchange(r) \/ ReadOld(r)
        \/ \E r \in Requests :
              \/ ReadIndex(r) \/ GetListed(r) \/ CleanIndex(r) \/ ReadVictim(r)
              \/ DeleteVictim(r) \/ Answer(r)
        \/ \E r \in Requests : AdminList(r) \/ AdminRevoke(r)
        \/ \E j \in Jtis : Lapse(j)
        \/ LapseIndex
    BY <1>9, Zenon DEF Next
  <2> QED BY <1>1, <1>2, <1>3, <1>4, <1>5, <1>7, <1>8, <2>1
<1> QED BY <1>6, <1>9

-----------------------------------------------------------------------------
(* Nothing knows a session that is not stored yet.                         *)

\* A jti that is in no table and that no request is about.
Outside(j) ==
    /\ j \notin live \cup index \cup blacklisted \cup revoked \cup Held
    /\ \A r \in Requests : Unmentioned(req[r], j)

\* The same, after a step.
OutsideNext(j) ==
    /\ j \notin live' \cup index' \cup blacklisted' \cup revoked' \cup Held'
    /\ \A r \in Requests : Unmentioned(req'[r], j)

\* A jti that was never drawn is outside.
LEMMA NeverDrawn == ASSUME TypeOK, NEW j \in Jtis \ minted PROVE Outside(j)
<1>1. j # NoJti
  BY NoAssumption
<1>2. j \notin live \cup index \cup blacklisted \cup revoked \cup Held
  BY <1>1 DEF TypeOK, Held
<1>3. \A r \in Requests : Unmentioned(req[r], j)
  BY <1>1, RowOf DEF Unmentioned
<1> QED BY <1>2, <1>3 DEF Outside

\* What is outside stays outside, unless it is the session of the request that moves.
LEMMA StaysOutside ==
    ASSUME TypeOK, NEW r \in Requests, Frame(r), NEW j \in Jtis, Outside(j), j # req[r].new,
           j \notin minted \/ \E q \in Requests : req[q].new = j
    PROVE  OutsideNext(j)
<1>1. j # NoJti
  BY NoAssumption
<1>2. j \notin live' \cup index' \cup blacklisted' \cup revoked' \cup Held'
  <2>1. /\ j \notin live \cup index \cup blacklisted \cup revoked \cup Held
        /\ Unmentioned(req[r], j)
    BY DEF Outside
  <2> QED BY <1>1, <2>1 DEF Frame, Tables, Unmentioned
<1>3. Unmentioned(req'[r], j)
  <2>1. j \notin live \cup index \cup Held /\ Unmentioned(req[r], j)
    BY DEF Outside
  <2>2. j \notin req'[r].todo \cup req'[r].found \cup req'[r].orphans
    BY <2>1 DEF Frame, Mentions, Unmentioned
  <2>3. req'[r].kind \in {"refresh", "logout"} => j # req'[r].jti
    BY <2>1 DEF Frame, Mentions, Unmentioned
  <2> QED BY <2>2, <2>3 DEF Unmentioned
<1>4. \A q \in Requests : Unmentioned(req'[q], j)
  BY <1>3 DEF Outside, Frame, Mentions
<1> QED BY <1>2, <1>4 DEF OutsideNext

\* Every step keeps fresh sessions unknown, and different.
LEMMA FreshStep ==
    ASSUME TypeOK, AllInPlace, FreshIsUnknown, NEW r \in Requests, StepOf(r), Frame(r)
    PROVE  FreshIsUnknown'
<1> SUFFICES ASSUME NEW q \in Requests, Fresh(req'[q])
             PROVE  /\ req'[q].new \in minted' /\ OutsideNext(req'[q].new)
                    /\ \A p \in Requests \ {q} : req'[p].new # req'[q].new
  BY DEF FreshIsUnknown, Unknown, OutsideNext, Fresh, Unmentioned
<1>1. \A p \in Requests \ {r} : req'[p] = req[p]
  BY DEF Frame, Mentions
<1>2. req'[r].new \in {req[r].new, NoJti} \cup (Jtis \ minted) /\ minted \subseteq minted'
  BY DEF Frame, Mentions, Tables
<1>3. CASE q # r
  <2> DEFINE j == req[q].new
  <2>1. Fresh(req[q]) /\ req'[q].new = j
    BY <1>1, <1>3
  <2>2. /\ j \in minted /\ Outside(j) /\ \A p \in Requests \ {q} : req[p].new # j
    BY <2>1 DEF FreshIsUnknown, Unknown, Outside
  <2>3. j \in Jtis /\ j # NoJti /\ j # req[r].new
    BY <1>3, <2>2, NoAssumption DEF TypeOK
  <2>4. OutsideNext(j)
    <3> HIDE DEF j
    <3>1. \E p \in Requests : req[p].new = j
      BY DEF j
    <3>2. \A x \in Jtis : Outside(x) /\ x # req[r].new /\ (\E p \in Requests : req[p].new = x)
                              => OutsideNext(x)
      BY StaysOutside
    <3> QED BY <2>2, <2>3, <3>1, <3>2
  <2>5. \A p \in Requests \ {q} : req'[p].new # j
    BY <1>1, <1>2, <1>3, <2>2, <2>3
  <2> QED BY <1>2, <2>1, <2>2, <2>4, <2>5
<1>4. CASE q = r /\ req[r].at = "read" /\ SameButAt(req'[r], req[r])
           /\ UNCHANGED <<redis, tokens, cookie, revoked>>
  <2> DEFINE j == req[r].new
  <2>1. /\ j \in minted /\ Outside(j) /\ \A p \in Requests \ {r} : req[p].new # j
    BY <1>4 DEF FreshIsUnknown, Fresh, Unknown, Outside
  <2>2. req'[r].new = j /\ Unmentioned(req'[r], j)
    BY <1>4, <2>1 DEF SameButAt, Outside, Unmentioned
  <2>3. \A p \in Requests : Unmentioned(req'[p], j)
    BY <1>1, <2>1, <2>2 DEF Outside
  <2>4. j \notin live' \cup index' \cup blacklisted' \cup revoked' \cup Held'
    BY <1>4, <2>1 DEF Outside, Held, redis, tokens
  <2> QED BY <1>1, <1>2, <1>4, <2>1, <2>2, <2>3, <2>4 DEF OutsideNext
<1>5. CASE q = r /\ req'[r].new \in (Jtis \ minted) \cap minted'
  <2>1. PICK j \in Jtis \ minted : j = req'[r].new
    BY <1>5
  <2>2. j # NoJti /\ \A p \in Requests : req[p].new # j
    BY NoAssumption, RowOf
  <2>3. OutsideNext(j)
    BY <2>1, <2>2, NeverDrawn, StaysOutside
  <2> QED BY <1>1, <1>5, <2>1, <2>2, <2>3
<1> QED BY <1>3, <1>4, <1>5 DEF Frame, Draws

-----------------------------------------------------------------------------
(* Where requests are.                                                     *)

\* What is stored was outside before.
LEMMA StoredWasOutside ==
    ASSUME FreshIsUnknown, NEW r \in Requests, Frame(r), NEW j \in live' \ live
    PROVE  req[r].at = "store" /\ j = req[r].new /\ Outside(j)
BY DEF Frame, Tables, FreshIsUnknown, Fresh, Unknown, Outside

\* The other requests stay in place.
LEMMA OthersInPlace ==
    ASSUME TypeOK, AllInPlace, FreshIsUnknown, NEW r \in Requests, Frame(r),
           NEW q \in Requests \ {r}
    PROVE  InPlace(req[q])'
<1>1. InPlace(req[q]) /\ req'[q] = req[q]
  BY DEF AllInPlace, Frame, Mentions
<1>2. minted \subseteq minted' /\ blacklisted \subseteq blacklisted' /\ revoked \subseteq revoked'
  BY DEF Frame, Tables
<1>3. \A j \in live' \ live : Unmentioned(req[q], j)
  BY StoredWasOutside DEF Outside
<1>4. req[q].orphans \cap live' = {}
  BY <1>1, <1>3 DEF InPlace, Unmentioned
<1>5. req[q].kind = "logout" /\ Revoking(req[q]) => req[q].jti \in req[q].found \/ req[q].jti \notin live'
  BY <1>1, <1>3 DEF InPlace, Unmentioned
<1> QED BY <1>1, <1>2, <1>4, <1>5 DEF InPlace, Revoking, Exchanging

\* A request that goes on is in place where it arrives.
LEMMA MovedInPlace ==
    ASSUME TypeOK, AllInPlace, FreshIsUnknown, NEW r \in Requests, Frame(r),
           \/ ValidateSession(r) \/ Recheck(r) \/ ReadOld(r) \/ StoreNew(r) \/ UnindexOld(r)
           \/ IndexNew(r) \/ DropOld(r) \/ UnlistVictim(r) \/ RevokeDone(r)
    PROVE  InPlace(req[r])'
<1> USE DEF redis, tokens, history, At
<1>1. InPlace(req[r])
  BY DEF AllInPlace
<1>2. minted \subseteq minted' /\ blacklisted \subseteq blacklisted' /\ revoked \subseteq revoked'
  BY DEF Frame, Tables
<1>3. \A j \in live' \ live : Unmentioned(req[r], j)
  BY StoredWasOutside DEF Outside
<1>4. req[r].orphans \cap live' = {}
  BY <1>1, <1>3 DEF InPlace, Unmentioned
<1>5. ASSUME NEW place \in Places, Goto(r, place) \/ Finish(r),
             place \in {"recheck", "exchange", "unindex", "drop"} => req[r].kind = "refresh",
             place \in {"store", "index"} => req[r].kind \in {"signin", "refresh"},
             place \in {"store", "unindex", "index"} => req[r].new \in minted,
             place = "delete" =>
                 req[r].kind \in {"logout", "one", "others", "page", "admin"} /\
                 req[r].victim \in revoked /\
                 (req[r].kind = "logout" => req[r].jti \in req[r].found \/ req[r].jti \notin live'),
             req[r].kind = "refresh" /\ place \in {"store", "unindex", "index", "drop"}
                 => req[r].jti \in blacklisted,
             place \in {"recheck", "exchange", "store", "unindex", "index", "drop", "delete",
                        "answer"}
      PROVE  InPlace(req[r])'
  <2>1. CASE Goto(r, place)
    <3>1. SameButAt(req'[r], req[r]) /\ req'[r].at = place
      BY <2>1, GotoRow
    <3> QED BY <1>1, <1>2, <1>4, <1>5, <3>1 DEF InPlace, Revoking, Exchanging, SameButAt
  <2>2. CASE Finish(r)
    <3>1. req'[r] = Idle
      BY <2>2, FinishRow
    <3> QED BY <3>1, IdleRow DEF InPlace, Revoking, Exchanging
  <2> QED BY <1>5, <2>1, <2>2
<1>6. CASE ValidateSession(r)
  <2>1. Goto(r, "recheck") \/ Finish(r)
    BY <1>6 DEF ValidateSession
  <2>2. req[r].kind = "refresh"
    BY <1>1, <1>6 DEF ValidateSession, InPlace
  <2> QED BY <1>5, <2>1, <2>2 DEF Places
<1>7. CASE Recheck(r)
  <2>1. Goto(r, "exchange") \/ Finish(r)
    BY <1>7 DEF Recheck
  <2>2. req[r].kind = "refresh"
    BY <1>1, <1>7 DEF Recheck, InPlace
  <2> QED BY <1>5, <2>1, <2>2 DEF Places
<1>8. CASE ReadOld(r)
  <2>1. Goto(r, "store") \/ Goto(r, "answer")
    BY <1>8 DEF ReadOld
  <2>2. req[r].kind = "refresh" /\ req[r].jti \in blacklisted /\ req[r].new \in minted
    BY <1>1, <1>8 DEF ReadOld, InPlace, Exchanging
  <2> QED BY <1>5, <2>1, <2>2 DEF Places
<1>9. CASE StoreNew(r)
  <2>1. \/ Goto(r, "unindex") /\ req[r].kind = "refresh"
        \/ Goto(r, "index") /\ req[r].kind = "signin"
    BY <1>1, <1>9 DEF StoreNew, InPlace
  <2>2. req[r].kind = "refresh" => req[r].jti \in blacklisted
    BY <1>1, <1>9 DEF StoreNew, InPlace, Exchanging
  <2>3. req[r].new \in minted
    BY <1>1, <1>9 DEF StoreNew, InPlace
  <2> QED BY <1>5, <2>1, <2>2, <2>3 DEF Places
<1>10. CASE UnindexOld(r)
  <2>1. Goto(r, "index")
    BY <1>10 DEF UnindexOld
  <2>2. req[r].kind = "refresh" /\ req[r].jti \in blacklisted /\ req[r].new \in minted
    BY <1>1, <1>10 DEF UnindexOld, InPlace, Exchanging
  <2> QED BY <1>5, <2>1, <2>2 DEF Places
<1>11. CASE IndexNew(r)
  <2>1. \/ Goto(r, "drop") /\ req[r].kind = "refresh"
        \/ Goto(r, "answer")
    BY <1>11 DEF IndexNew
  <2>2. req[r].kind = "refresh" => req[r].jti \in blacklisted
    BY <1>1, <1>11 DEF IndexNew, InPlace, Exchanging
  <2> QED BY <1>5, <2>1, <2>2 DEF Places
<1>12. CASE DropOld(r)
  <2>1. Goto(r, "answer")
    BY <1>12 DEF DropOld
  <2> QED BY <1>5, <2>1 DEF Places
<1>13. CASE UnlistVictim(r)
  <2>1. Goto(r, "delete") /\ live' = live
    BY <1>13 DEF UnlistVictim
  <2>2. /\ req[r].kind \in {"logout", "one", "others", "page", "admin"}
        /\ req[r].victim \in revoked
        /\ req[r].kind = "logout" => req[r].jti \in req[r].found \/ req[r].jti \notin live
    BY <1>1, <1>13 DEF UnlistVictim, InPlace, Revoking
  <2> QED BY <1>5, <2>1, <2>2 DEF Places
<1>14. CASE RevokeDone(r)
  <2>1. Goto(r, "answer")
    BY <1>14 DEF RevokeDone
  <2> QED BY <1>5, <2>1 DEF Places
<1> QED BY <1>6, <1>7, <1>8, <1>9, <1>10, <1>11, <1>12, <1>13, <1>14

\* A request that has drawn a session is in place.
LEMMA DrawnInPlace ==
    ASSUME TypeOK, AllInPlace, NEW r \in Requests,
           (\E b \in Browsers : SignIn(r, b)) \/ Exchange(r)
    PROVE  InPlace(req[r])' /\ ~Announcing(req'[r])
<1> USE DEF redis, tokens, history, At
<1>1. InPlace(req[r]) /\ req[r] \in Rows(minted) /\ req \in [Requests -> Rows(minted)]
  BY RowOf, TypeOfRows DEF AllInPlace
<1>2. ASSUME NEW b \in Browsers, SignIn(r, b) PROVE InPlace(req[r])' /\ ~Announcing(req'[r])
  <2>1. PICK j \in Jtis \ minted :
           /\ minted' = minted \cup {j}
           /\ req' = [req EXCEPT ![r] = [Idle EXCEPT !.kind = "signin", !.at = "store",
                                                     !.browser = b, !.new = j]]
    BY <1>2 DEF SignIn
  <2>2. req'[r] = [Idle EXCEPT !.kind = "signin", !.at = "store", !.browser = b, !.new = j]
    BY <1>1, <2>1
  <2>3. /\ req'[r].kind = "signin" /\ req'[r].at = "store" /\ req'[r].new = j
        /\ req'[r].orphans = {}
    BY <2>2 DEF Idle
  <2> QED BY <2>1, <2>3 DEF InPlace, Revoking, Exchanging, Announcing
<1>3. CASE Exchange(r)
  <2>1. PICK j \in Jtis \ minted : /\ minted' = minted \cup {j}
                                   /\ req' = [req EXCEPT ![r].new = j, ![r].at = "read"]
    BY <1>3 DEF Exchange
  <2>2. req' = [req EXCEPT ![r] = [req[r] EXCEPT !.new = j, !.at = "read"]]
    BY <2>1
  <2>3. req'[r] = [req[r] EXCEPT !.new = j, !.at = "read"]
    BY <1>1, <2>2
  <2>4. /\ req'[r].kind = req[r].kind /\ req'[r].at = "read" /\ req'[r].new = j
        /\ req'[r].jti = req[r].jti /\ req'[r].orphans = req[r].orphans
    BY <1>1, <2>3 DEF Rows
  <2>5. /\ req[r].kind = "refresh" /\ req[r].jti \in minted /\ req[r].orphans \cap live = {}
        /\ live' = live /\ req[r].jti \in blacklisted'
    BY <1>1, <1>3 DEF Exchange, InPlace
  <2>6. req'[r].jti \in minted' /\ req'[r].new \in minted'
    BY <2>1, <2>4, <2>5
  <2>7. req'[r].kind = "refresh" /\ req'[r].jti \in blacklisted'
    BY <2>4, <2>5
  <2>8. req'[r].orphans \cap live' = {}
    BY <2>4, <2>5
  <2> QED BY <2>4, <2>6, <2>7, <2>8 DEF InPlace, Revoking, Exchanging, Announcing
<1> QED BY <1>2, <1>3

\* A request that lists and revokes is in place.
LEMMA ListerInPlace ==
    ASSUME AllInPlace, NEW r \in Requests, Frame(r), Lists(r)
    PROVE  InPlace(req[r])'
<1>1. InPlace(req[r])
  BY DEF AllInPlace
<1>2. minted \subseteq minted'
  BY DEF Frame, Tables
<1>3. req'[r].orphans \cap live' = {}
  BY <1>1 DEF InPlace, Lists
<1>4. req'[r].at \in {"get", "revoke", "unlist"}
  BY DEF Lists
<1>5. req'[r].at = "get" => req'[r].kind \in {"one", "others", "page"}
  BY <1>1 DEF Lists, InPlace
<1>6. req'[r].at # "get" => req'[r].kind \in {"logout", "one", "others", "page", "admin"}
  BY <1>1 DEF Lists, InPlace, Revoking
<1>7. req'[r].kind = "logout" /\ Revoking(req'[r]) =>
          req'[r].jti \in req'[r].found \/ req'[r].jti \notin live'
  <2>1. SUFFICES ASSUME req'[r].kind = "logout", Revoking(req'[r]), req'[r].jti \in live'
                 PROVE  req'[r].jti \in req'[r].found
    OBVIOUS
  <2>2. req[r].kind = "logout" /\ req[r].jti = req'[r].jti /\ req[r].jti \in live
    BY <2>1 DEF Lists
  <2>3. Revoking(req[r])
    BY <1>1, <2>1, <2>2 DEF Lists, InPlace, Revoking
  <2>4. req[r].jti \in req[r].found
    BY <1>1, <2>2, <2>3 DEF InPlace
  <2> QED BY <2>1, <2>2, <2>3, <2>4 DEF Lists
<1>8. req'[r].kind \in {"refresh", "logout"} => req'[r].jti \in minted'
  BY <1>1, <1>2 DEF Lists, InPlace
<1>9. req'[r].at = "unlist" => req'[r].victim \in revoked'
  BY DEF Lists
<1> QED BY <1>3, <1>4, <1>5, <1>6, <1>7, <1>8, <1>9 DEF InPlace, Revoking, Exchanging

\* Every step leaves every request in place.
LEMMA InPlaceStep ==
    ASSUME TypeOK, AllInPlace, FreshIsUnknown, NEW r \in Requests, StepOf(r), Frame(r)
    PROVE  AllInPlace'
<1>1. ASSUME Finish(r) PROVE InPlace(req[r])'
  <2>1. req'[r] = Idle
    BY <1>1, FinishRow
  <2> QED BY <2>1, IdleRow DEF InPlace, Revoking, Exchanging
<1>2. InPlace(req[r])'
  <2>1. CASE \/ \E b \in Browsers : StartRefresh(r, b) \/ StartLogout(r, b) \/ StartRevoke(r, b)
             \/ AdminList(r) \/ AdminRevoke(r)
    BY <2>1, StartFrame
  <2>2. CASE (\E b \in Browsers : SignIn(r, b)) \/ Exchange(r)
    BY <2>2, DrawnInPlace
  <2>3. CASE \/ ReadIndex(r) \/ GetListed(r) \/ CleanIndex(r) \/ ReadVictim(r) \/ DeleteVictim(r)
    BY <2>3, ListFrame, ListerInPlace
  <2>4. CASE \/ ValidateSession(r) \/ Recheck(r) \/ ReadOld(r) \/ StoreNew(r) \/ UnindexOld(r)
             \/ IndexNew(r) \/ DropOld(r) \/ UnlistVictim(r) \/ RevokeDone(r)
    BY <2>4, MovedInPlace
  <2>5. CASE Answer(r) \/ Dies(r)
    BY <1>1, <2>5 DEF Answer, Dies
  <2> QED BY <2>1, <2>2, <2>3, <2>4, <2>5 DEF StepOf
<1>3. \A q \in Requests \ {r} : InPlace(req[q])'
  BY OthersInPlace
<1> QED BY <1>2, <1>3 DEF AllInPlace

\* The clock changes nothing of this.
LEMMA ClockKeeps ==
    ASSUME AllInPlace, FreshIsUnknown, AllListed, ClockStep
    PROVE  AllInPlace' /\ FreshIsUnknown' /\ AllListed'
<1> USE DEF ClockStep
<1>1. AllInPlace'
  BY DEF AllInPlace, InPlace, Revoking, Exchanging
<1>2. FreshIsUnknown'
  BY DEF FreshIsUnknown, Fresh, Unknown, Unmentioned, Held
<1>3. \A j : Listed(j) => (j \in live' \ (blacklisted' \cup revoked') => j \in index')
  BY DEF Listed
<1>4. AllListed'
  BY <1>3 DEF AllListed, Listed, Announcing, Held
<1> QED BY <1>1, <1>2, <1>4

-----------------------------------------------------------------------------
(* What can be used is on the list.                                        *)

\* A session of the table is on the list after the step.
ListedNext(j) == j \in live' \ (blacklisted' \cup revoked') => j \in index'

\* What leaves the list has no key, is exchanged, or is being revoked.
LEMMA Unlisting ==
    ASSUME TypeOK, AllInPlace, NEW r \in Requests, StepOf(r), Frame(r), NEW j \in index \ index'
    PROVE  j \in blacklisted' \cup revoked' \/ j \notin live'
<1> USE DEF redis, tokens, history, At
<1>1. InPlace(req[r]) /\ blacklisted \subseteq blacklisted' /\ revoked \subseteq revoked'
  BY DEF AllInPlace, Frame, Tables
<1>2. CASE UnindexOld(r)
  BY <1>1, <1>2 DEF UnindexOld, InPlace, Exchanging
<1>3. CASE UnlistVictim(r)
  BY <1>1, <1>3 DEF UnlistVictim, InPlace
<1>4. CASE \/ ReadIndex(r) \/ GetListed(r) \/ CleanIndex(r) \/ ReadVictim(r) \/ DeleteVictim(r)
  <2>1. Lists(r)
    BY <1>4, ListFrame
  <2> QED BY <1>1, <2>1 DEF Lists, InPlace
<1>5. CASE \/ \E b \in Browsers : SignIn(r, b) \/ StartRefresh(r, b)
                                  \/ StartLogout(r, b) \/ StartRevoke(r, b)
           \/ AdminList(r) \/ AdminRevoke(r)
  BY <1>5 DEF SignIn, StartRefresh, StartLogout, StartRevoke, AdminList, AdminRevoke
<1>6. CASE \/ ValidateSession(r) \/ Recheck(r) \/ Exchange(r) \/ ReadOld(r) \/ StoreNew(r)
           \/ IndexNew(r) \/ DropOld(r) \/ RevokeDone(r) \/ Answer(r) \/ Dies(r)
  BY <1>6 DEF ValidateSession, Recheck, Exchange, ReadOld, StoreNew, IndexNew, DropOld,
              RevokeDone, Answer, Dies
<1> QED BY <1>2, <1>3, <1>4, <1>5, <1>6 DEF StepOf

\* What was on the list and is not stored just now, stays on it.
LEMMA StaysListed ==
    ASSUME TypeOK, AllInPlace, NEW r \in Requests, StepOf(r), Frame(r),
           NEW j, Listed(j), j \notin live' \ live
    PROVE  ListedNext(j)
<1>1. SUFFICES ASSUME j \in live', j \notin blacklisted' \cup revoked' PROVE j \in index'
  BY DEF ListedNext
<1>2. blacklisted \subseteq blacklisted' /\ revoked \subseteq revoked'
  BY DEF Frame, Tables
<1>3. j \in index
  BY <1>1, <1>2 DEF Listed
<1> QED BY <1>1, <1>3, Unlisting

\* Only an answer brings a browser a session.
LEMMA Brought ==
    ASSUME TypeOK, NEW r \in Requests, StepOf(r), NEW j \in Held' \ Held
    PROVE  j = NoJti \/ (Announcing(req[r]) /\ j = req[r].new)
<1> USE DEF redis, tokens, history
<1>1. CASE Answer(r)
  BY <1>1, AnswerFrame
<1>2. ASSUME NEW b \in Browsers, StartLogout(r, b) PROVE j = NoJti
  <2>1. cookie' = cookie \/ cookie' = [cookie EXCEPT ![b] = NoJti]
    BY <1>2 DEF StartLogout
  <2> QED BY <2>1 DEF Held, TypeOK
<1>3. CASE cookie' = cookie
  BY <1>3 DEF Held
<1>4. CASE \/ \E b \in Browsers : SignIn(r, b) \/ StartRefresh(r, b) \/ StartRevoke(r, b)
           \/ AdminList(r) \/ AdminRevoke(r)
  BY <1>3, <1>4 DEF SignIn, StartRefresh, StartRevoke, AdminList, AdminRevoke
<1>5. CASE \/ ReadIndex(r) \/ GetListed(r) \/ CleanIndex(r) \/ ReadVictim(r) \/ UnlistVictim(r)
           \/ DeleteVictim(r) \/ RevokeDone(r) \/ Dies(r)
  BY <1>3, <1>5 DEF ReadIndex, GetListed, CleanIndex, ReadVictim, UnlistVictim, DeleteVictim,
                    RevokeDone, Dies
<1>6. CASE \/ ValidateSession(r) \/ Recheck(r) \/ Exchange(r) \/ ReadOld(r) \/ StoreNew(r)
           \/ UnindexOld(r) \/ IndexNew(r) \/ DropOld(r)
  BY <1>3, <1>6 DEF ValidateSession, Recheck, Exchange, ReadOld, StoreNew, UnindexOld,
                    IndexNew, DropOld
<1> QED BY <1>1, <1>2, <1>4, <1>5, <1>6 DEF StepOf

\* The session an answer will bring is on the list by then.
LEMMA AnnouncedListed ==
    ASSUME TypeOK, AllInPlace, FreshIsUnknown, AllListed, NEW r \in Requests,
           StepOf(r), Frame(r), Announcing(req'[r])
    PROVE  ListedNext(req'[r].new)
<1> USE DEF redis, tokens, history, At
<1>1. InPlace(req[r])
  BY DEF AllInPlace
<1>2. ASSUME Finish(r) PROVE FALSE
  BY <1>2, FinishRow, IdleRow DEF Announcing
<1>3. ASSUME NEW place \in Places, Goto(r, place)
      PROVE  place \in {"drop", "answer"} /\ SameButAt(req'[r], req[r])
  BY <1>3, GotoRow DEF Announcing
<1>4. CASE ReadOld(r)
  <2>1. Goto(r, "answer") /\ live' = live
    BY <1>3, <1>4 DEF ReadOld, Places
  <2>2. req'[r].new = req[r].new
    BY <1>3, <2>1 DEF SameButAt, Places
  <2>3. req[r].new \notin live
    BY <1>4 DEF ReadOld, FreshIsUnknown, Fresh, Unknown
  <2> QED BY <2>1, <2>2, <2>3 DEF ListedNext
<1>5. CASE IndexNew(r)
  <2>1. (Goto(r, "drop") \/ Goto(r, "answer")) /\ req[r].new \in index'
    BY <1>5 DEF IndexNew
  <2>2. req'[r].new = req[r].new
    BY <1>3, <2>1 DEF SameButAt, Places
  <2> QED BY <2>1, <2>2 DEF ListedNext
<1>6. CASE DropOld(r)
  <2>1. Goto(r, "answer") /\ live' \subseteq live
    BY <1>6 DEF DropOld
  <2>2. req'[r].new = req[r].new /\ req'[r].kind = req[r].kind
    BY <1>3, <2>1 DEF SameButAt, Places
  <2>3. Announcing(req[r])
    BY <1>6, <2>2 DEF DropOld, Announcing
  <2>4. Listed(req[r].new)
    BY <2>3 DEF AllListed
  <2>5. PICK j \in minted \cup {NoJti} : j = req[r].new
    BY RowOf
  <2>6. ListedNext(j)
    BY <2>1, <2>4, <2>5, StaysListed
  <2> QED BY <2>2, <2>5, <2>6
<1>7. CASE RevokeDone(r)
  <2>1. Goto(r, "answer") /\ Revoking(req[r])
    BY <1>7 DEF RevokeDone, Revoking
  <2>2. req'[r].kind = req[r].kind
    BY <1>3, <2>1 DEF SameButAt, Places
  <2>3. req[r].kind \notin {"signin", "refresh"}
    BY <1>1, <2>1 DEF InPlace
  <2> QED BY <2>2, <2>3 DEF Announcing
<1>8. CASE \/ \E b \in Browsers : SignIn(r, b) \/ StartRefresh(r, b)
                                  \/ StartLogout(r, b) \/ StartRevoke(r, b)
           \/ AdminList(r) \/ AdminRevoke(r) \/ Exchange(r)
  BY <1>8, StartFrame, DrawnInPlace
<1>9. CASE \/ ReadIndex(r) \/ GetListed(r) \/ CleanIndex(r) \/ ReadVictim(r) \/ DeleteVictim(r)
  BY <1>9, ListFrame DEF Lists, Announcing
<1>10. CASE \/ ValidateSession(r) \/ Recheck(r) \/ StoreNew(r) \/ UnindexOld(r)
            \/ UnlistVictim(r) \/ Answer(r) \/ Dies(r)
  <2>1. \/ Finish(r)
        \/ \E place \in {"recheck", "exchange", "unindex", "index", "delete"} : Goto(r, place)
    BY <1>10 DEF ValidateSession, Recheck, StoreNew, UnindexOld, UnlistVictim, Answer, Dies
  <2> QED BY <1>2, <1>3, <2>1 DEF Places
<1> QED BY <1>4, <1>5, <1>6, <1>7, <1>8, <1>9, <1>10 DEF StepOf

\* Every step keeps what a browser can use, or soon will, on the list.
LEMMA ListedStep ==
    ASSUME TypeOK, AllInPlace, FreshIsUnknown, AllListed, NEW r \in Requests, StepOf(r), Frame(r)
    PROVE  AllListed'
<1>1. TypeOK' /\ \A q \in Requests \ {r} : req'[q] = req[q]
  BY DEF Frame, Mentions
<1>2. ASSUME NEW j \in Held' PROVE ListedNext(j)
  <2>1. CASE j = NoJti
    <3>1. j \notin live'
      BY <1>1, <2>1, NoAssumption, TypeOfRowsNext
    <3> QED BY <3>1 DEF ListedNext
  <2>2. CASE j \in Held
    <3>1. j \notin live' \ live
      BY <2>2, StoredWasOutside DEF Outside
    <3> QED BY <2>2, <3>1, StaysListed DEF AllListed
  <2>3. CASE Announcing(req[r]) /\ j = req[r].new
    <3>1. j \notin live' \ live
      BY <2>3, StoredWasOutside DEF Announcing
    <3> QED BY <2>3, <3>1, StaysListed DEF AllListed
  <2> QED BY <2>1, <2>2, <2>3, Brought
<1>3. ASSUME NEW q \in Requests, Announcing(req'[q]) PROVE ListedNext(req'[q].new)
  <2>1. CASE q = r
    BY <1>3, <2>1, AnnouncedListed
  <2>2. CASE q # r
    <3>1. PICK j \in minted \cup {NoJti} : j = req[q].new
      BY RowOf
    <3>2. Listed(j) /\ req'[q] = req[q]
      BY <1>1, <1>3, <2>2, <3>1 DEF AllListed
    <3>3. j \notin live' \ live
      BY <2>2, <3>1 DEF Frame, Tables, FreshIsUnknown, Fresh
    <3> QED BY <3>1, <3>2, <3>3, StaysListed
  <2> QED BY <2>1, <2>2
<1> QED BY <1>2, <1>3 DEF AllListed, Listed, ListedNext, Announcing, Held

\* The invariant that every step keeps.
LEMMA SessionsInvInductive ==
    /\ Init => SessionsInv
    /\ SessionsInv /\ [Next]_vars => SessionsInv'
<1>1. ASSUME Init PROVE SessionsInv
  <2>1. \A r \in Requests : req[r] = Idle
    BY <1>1 DEF Init
  <2>2. TypeOK
    <3>1. req \in [Requests -> Rows(minted)] /\ faults \in 0..MaxFaults
      BY <1>1, IdleRow, FaultsAssumption DEF Init
    <3> QED BY <1>1, <3>1, TypeOfRows DEF Init
  <2>3. AllInPlace
    BY <2>1, IdleRow DEF AllInPlace, InPlace, Revoking, Exchanging
  <2>4. FreshIsUnknown
    BY <2>1, IdleRow DEF FreshIsUnknown, Fresh
  <2>5. AllListed
    BY <1>1, <2>1, IdleRow DEF Init, AllListed, Listed, Announcing
  <2> QED BY <2>2, <2>3, <2>4, <2>5 DEF SessionsInv
<1>2. ASSUME SessionsInv, [Next]_vars PROVE SessionsInv'
  <2>1. TypeOK /\ AllInPlace /\ FreshIsUnknown /\ AllListed
    BY <1>2 DEF SessionsInv
  <2>2. ASSUME NEW r \in Requests, StepOf(r), Frame(r) PROVE SessionsInv'
    <3>1. TypeOK'
      BY <2>2 DEF Frame
    <3> QED BY <2>1, <2>2, <3>1, InPlaceStep, FreshStep, ListedStep DEF SessionsInv
  <2>3. ASSUME TypeOK', ClockStep PROVE SessionsInv'
    BY <2>1, <2>3, ClockKeeps DEF SessionsInv
  <2> QED BY <1>2, <2>1, <2>2, <2>3, StepsOfNext
<1> QED BY <1>1, <1>2

\* The state of every session is what the fields say it is, and requests are about
\* sessions that were drawn: the invariant holds in every state.
THEOREM SessionsHold == Spec => []SessionsInv
BY SessionsInvInductive, PTL DEF Spec

\* What a browser holds and can use is on the user's list, whatever requests, of the user
\* or of an administrator, run or die meanwhile (create_session, rotate_session,
\* revoke_session and list_sessions of session_service.py).
THEOREM UsableSessionsAreListed == Spec => []UsableIsListed
<1>1. SessionsInv => UsableIsListed
  BY DEF SessionsInv, AllListed, Listed, UsableIsListed
<1> QED BY <1>1, SessionsHold, PTL

-----------------------------------------------------------------------------
(* What was exchanged or revoked is gone, but for one key per fault.       *)

\* The steps of a request from a place on.
LEMMA StepsFrom ==
    ASSUME NEW r \in Requests, StepOf(r)
    PROVE  /\ req[r].at \in {"read", "store", "unindex", "index", "drop"} =>
                 \/ ReadOld(r) \/ StoreNew(r) \/ UnindexOld(r) \/ IndexNew(r) \/ DropOld(r)
                 \/ Dies(r)
           /\ req[r].at \in {"unlist", "delete"} =>
                 UnlistVictim(r) \/ DeleteVictim(r) \/ Dies(r)
<1> USE DEF At
<1>1. CASE \/ \E b \in Browsers : SignIn(r, b) \/ StartRefresh(r, b)
                                  \/ StartLogout(r, b) \/ StartRevoke(r, b)
           \/ AdminList(r) \/ AdminRevoke(r)
  BY <1>1 DEF SignIn, StartRefresh, StartLogout, StartRevoke, AdminList, AdminRevoke
<1>2. CASE \/ ValidateSession(r) \/ Recheck(r) \/ Exchange(r) \/ ReadIndex(r) \/ GetListed(r)
           \/ CleanIndex(r) \/ ReadVictim(r) \/ RevokeDone(r) \/ Answer(r)
  BY <1>2 DEF ValidateSession, Recheck, Exchange, ReadIndex, GetListed, CleanIndex, ReadVictim,
              RevokeDone, Answer
<1>3. CASE \/ ReadOld(r) \/ StoreNew(r) \/ UnindexOld(r) \/ IndexNew(r) \/ DropOld(r)
           \/ Dies(r)
  BY <1>3 DEF ReadOld, StoreNew, UnindexOld, IndexNew, DropOld
<1>4. CASE UnlistVictim(r) \/ DeleteVictim(r)
  BY <1>4 DEF UnlistVictim, DeleteVictim
<1> QED BY <1>1, <1>2, <1>3, <1>4 DEF StepOf

\* A request that has exchanged its token goes on to delete the session, unless it dies.
LEMMA ExchangeGoesOn ==
    ASSUME TypeOK, AllInPlace, NEW r \in Requests, StepOf(r), Exchanging(req[r])
    PROVE  \/ Dies(r) \/ req[r].jti \notin live'
           \/ Exchanging(req'[r]) /\ req'[r].jti = req[r].jti
<1> USE DEF At, redis
<1>1. req[r].kind = "refresh"
  BY DEF Exchanging
<1>2. ASSUME NEW place \in {"store", "unindex", "index", "drop"}, Goto(r, place)
      PROVE  Exchanging(req'[r]) /\ req'[r].jti = req[r].jti
  BY <1>1, <1>2, GotoRow DEF Places, SameButAt, Exchanging
<1>3. CASE ReadOld(r)
  <2>1. Goto(r, "store") \/ (req[r].jti \notin live /\ live' = live)
    BY <1>3 DEF ReadOld
  <2> QED BY <1>2, <2>1
<1>4. CASE StoreNew(r) \/ UnindexOld(r) \/ IndexNew(r)
  <2>1. Goto(r, "unindex") \/ Goto(r, "index") \/ Goto(r, "drop")
    BY <1>1, <1>4 DEF StoreNew, UnindexOld, IndexNew
  <2> QED BY <1>2, <2>1
<1>5. CASE DropOld(r)
  BY <1>5 DEF DropOld
<1> QED BY <1>3, <1>4, <1>5, StepsFrom DEF Exchanging

\* Who blacklists a token that has a session is on the way to delete the session.
LEMMA Blacklisting ==
    ASSUME TypeOK, AllInPlace, NEW r \in Requests, StepOf(r), Frame(r),
           NEW j \in blacklisted' \ blacklisted, j \in live
    PROVE  Exchanging(req'[r]) /\ req'[r].jti = j
<1> USE DEF At, redis, tokens
<1>1. InPlace(req[r])
  BY DEF AllInPlace
<1>2. CASE Exchange(r)
  <2>1. j = req[r].jti /\ req[r].kind = "refresh"
    BY <1>1, <1>2 DEF Exchange, InPlace
  <2>2. PICK x \in Jtis \ minted : req' = [req EXCEPT ![r].new = x, ![r].at = "read"]
    BY <1>2 DEF Exchange
  <2>3. req' = [req EXCEPT ![r] = [req[r] EXCEPT !.new = x, !.at = "read"]]
    BY <2>2
  <2>4. req'[r] = [req[r] EXCEPT !.new = x, !.at = "read"] /\ req[r] \in Rows(minted)
    BY <2>3, RowOf, TypeOfRows
  <2>5. req'[r].jti = req[r].jti /\ req'[r].kind = req[r].kind /\ req'[r].at = "read"
    BY <2>4 DEF Rows
  <2> QED BY <2>1, <2>5 DEF Exchanging
<1>3. CASE RevokeDone(r)
  <2>1. req[r].kind = "logout" /\ j = req[r].jti /\ req[r].found = {} /\ Revoking(req[r])
    BY <1>3 DEF RevokeDone, Revoking
  <2> QED BY <1>1, <2>1 DEF InPlace
<1>4. CASE \/ \E b \in Browsers : SignIn(r, b) \/ StartRefresh(r, b)
                                  \/ StartLogout(r, b) \/ StartRevoke(r, b)
           \/ AdminList(r) \/ AdminRevoke(r)
  BY <1>4 DEF SignIn, StartRefresh, StartLogout, StartRevoke, AdminList, AdminRevoke
<1>5. CASE \/ ReadIndex(r) \/ GetListed(r) \/ CleanIndex(r) \/ ReadVictim(r) \/ UnlistVictim(r)
           \/ DeleteVictim(r) \/ Answer(r) \/ Dies(r)
  BY <1>5 DEF ReadIndex, GetListed, CleanIndex, ReadVictim, UnlistVictim, DeleteVictim,
              Answer, Dies
<1>6. CASE \/ ValidateSession(r) \/ Recheck(r) \/ ReadOld(r) \/ StoreNew(r) \/ UnindexOld(r)
           \/ IndexNew(r) \/ DropOld(r)
  BY <1>6 DEF ValidateSession, Recheck, ReadOld, StoreNew, UnindexOld, IndexNew, DropOld
<1> QED BY <1>2, <1>3, <1>4, <1>5, <1>6 DEF StepOf

\* What has a key after a step, and is exchanged or being revoked, had it before.
LEMMA OldKeys ==
    ASSUME FreshIsUnknown, NEW r \in Requests, Frame(r),
           NEW j \in live' \cap (blacklisted' \cup revoked')
    PROVE  j \in live
<1> SUFFICES ASSUME j \notin live PROVE FALSE
  OBVIOUS
<1>1. j \notin blacklisted \cup revoked /\ Unmentioned(req[r], j)
  BY StoredWasOutside DEF Outside
<1>2. /\ j \in blacklisted => j \in blacklisted'
      /\ j \in blacklisted' => j \in blacklisted \/ (req[r].kind \in {"refresh", "logout"} /\ j = req[r].jti)
      /\ j \in revoked' => j \in revoked \cup req[r].found
  BY DEF Frame, Tables
<1> QED BY <1>1, <1>2 DEF Unmentioned

\* Only a request that dies leaves the key of an exchanged token behind.
LEMMA LeftStep ==
    ASSUME TypeOK, AllInPlace, FreshIsUnknown, NEW r \in Requests, StepOf(r), Frame(r),
           NEW j \in Left' \ Left
    PROVE  Dies(r) /\ j = req[r].jti
<1>1. /\ j \in blacklisted' /\ j \in live'
      /\ \A q \in Requests : ~(Exchanging(req'[q]) /\ req'[q].jti = j)
  BY DEF Left, Exchanging
<1>2. j \in live
  BY <1>1, OldKeys
<1>3. j \in blacklisted
  BY <1>1, <1>2, Blacklisting
<1>4. PICK q \in Requests : Exchanging(req[q]) /\ req[q].jti = j
  BY <1>2, <1>3 DEF Left
<1>5. q = r
  BY <1>1, <1>4 DEF Frame, Mentions
<1> QED BY <1>1, <1>4, <1>5, ExchangeGoesOn

\* Only a request that dies leaves the key of a revoked session behind.
LEMMA SparedStep ==
    ASSUME TypeOK, AllInPlace, FreshIsUnknown, NEW r \in Requests, StepOf(r), Frame(r),
           NEW j \in Spared' \ Spared
    PROVE  Dies(r) /\ j = req[r].victim
<1> USE DEF redis, tokens, history, At
<1>1. /\ j \in revoked' /\ j \in live'
      /\ \A q \in Requests : ~(req'[q].at \in {"unlist", "delete"} /\ req'[q].victim = j)
  BY DEF Spared
<1>2. j \in live
  BY <1>1, OldKeys
<1>3. j \in revoked
  <2>1. SUFFICES ASSUME j \notin revoked PROVE FALSE
    OBVIOUS
  <2>2. CASE ReadVictim(r)
    <3>1. Lists(r)
      BY <2>2, ListFrame
    <3> QED BY <1>1, <2>1, <3>1 DEF Lists
  <2>3. CASE \/ \E b \in Browsers : SignIn(r, b) \/ StartRefresh(r, b)
                                    \/ StartLogout(r, b) \/ StartRevoke(r, b)
             \/ AdminList(r) \/ AdminRevoke(r)
    BY <1>1, <2>1, <2>3 DEF SignIn, StartRefresh, StartLogout, StartRevoke, AdminList, AdminRevoke
  <2>4. CASE \/ ReadIndex(r) \/ GetListed(r) \/ CleanIndex(r) \/ UnlistVictim(r)
             \/ DeleteVictim(r) \/ RevokeDone(r) \/ Answer(r) \/ Dies(r)
    BY <1>1, <2>1, <2>4 DEF ReadIndex, GetListed, CleanIndex, UnlistVictim, DeleteVictim,
                            RevokeDone, Answer, Dies
  <2>5. CASE \/ ValidateSession(r) \/ Recheck(r) \/ Exchange(r) \/ ReadOld(r) \/ StoreNew(r)
             \/ UnindexOld(r) \/ IndexNew(r) \/ DropOld(r)
    BY <1>1, <2>1, <2>5 DEF ValidateSession, Recheck, Exchange, ReadOld, StoreNew, UnindexOld,
                            IndexNew, DropOld
  <2> QED BY <2>2, <2>3, <2>4, <2>5 DEF StepOf
<1>4. PICK q \in Requests : req[q].at \in {"unlist", "delete"} /\ req[q].victim = j
  BY <1>2, <1>3 DEF Spared
<1>5. q = r
  BY <1>1, <1>4 DEF Frame, Mentions
<1>6. CASE UnlistVictim(r)
  <2>1. Goto(r, "delete")
    BY <1>6 DEF UnlistVictim
  <2>2. req'[r].at = "delete" /\ req'[r].victim = j
    BY <1>4, <1>5, <2>1, GotoRow DEF Places, SameButAt
  <2> QED BY <1>1, <2>2
<1>7. CASE DeleteVictim(r)
  BY <1>1, <1>4, <1>5, <1>7, ListFrame DEF Lists
<1> QED BY <1>4, <1>5, <1>6, <1>7, StepsFrom

\* Faults are counted.
LEMMA FaultsStep ==
    ASSUME TypeOK, NEW r \in Requests, StepOf(r)
    PROVE  /\ faults \in Nat /\ faults' \in Nat /\ faults <= faults'
           /\ Dies(r) => faults' = faults + 1
<1> USE DEF redis, tokens, history
<1>1. faults \in Nat
  BY DEF TypeOK
<1>2. CASE Dies(r)
  BY <1>1, <1>2 DEF Dies, Fault
<1>3. CASE ~Dies(r)
  <2>1. CASE \/ \E b \in Browsers : SignIn(r, b) \/ StartRefresh(r, b)
                                    \/ StartLogout(r, b) \/ StartRevoke(r, b)
             \/ AdminList(r) \/ AdminRevoke(r)
    <3>1. faults' = faults
      BY <2>1 DEF SignIn, StartRefresh, StartLogout, StartRevoke, AdminList, AdminRevoke
    <3> QED BY <1>1, <1>3, <3>1
  <2>2. CASE \/ ReadIndex(r) \/ GetListed(r) \/ CleanIndex(r) \/ ReadVictim(r)
             \/ UnlistVictim(r) \/ DeleteVictim(r) \/ RevokeDone(r) \/ Answer(r)
    BY <1>1, <1>3, <2>2 DEF ReadIndex, GetListed, CleanIndex, ReadVictim, UnlistVictim,
                            DeleteVictim, RevokeDone, Answer
  <2>3. CASE \/ ValidateSession(r) \/ Recheck(r) \/ Exchange(r) \/ ReadOld(r) \/ StoreNew(r)
             \/ UnindexOld(r) \/ IndexNew(r) \/ DropOld(r)
    BY <1>1, <1>3, <2>3 DEF ValidateSession, Recheck, Exchange, ReadOld, StoreNew, UnindexOld,
                            IndexNew, DropOld
  <2> QED BY <1>3, <2>1, <2>2, <2>3 DEF StepOf
<1> QED BY <1>2, <1>3

\* A set that gains one element at most gains one in number at most.
LEMMA OneMore ==
    ASSUME NEW S, IsFiniteSet(S), NEW x, NEW T, T \subseteq S \cup {x}
    PROVE  IsFiniteSet(T) /\ Cardinality(T) <= Cardinality(S) + 1 /\ Cardinality(T) \in Nat
<1>1. IsFiniteSet(S \cup {x}) /\ Cardinality(S \cup {x}) <= Cardinality(S) + 1
  <2>1. Cardinality(S) \in Nat
    BY FS_CardinalityType
  <2>2. CASE x \in S
    <3>1. S \cup {x} = S
      BY <2>2
    <3> QED BY <2>1, <3>1
  <2>3. CASE x \notin S
    <3>1. IsFiniteSet(S \cup {x}) /\ Cardinality(S \cup {x}) = Cardinality(S) + 1
      BY <2>3, FS_AddElement, Zenon
    <3> QED BY <2>1, <3>1
  <2> QED BY <2>2, <2>3
<1>2. IsFiniteSet(T) /\ Cardinality(T) <= Cardinality(S \cup {x})
  BY <1>1, FS_Subset
<1>3. Cardinality(S) \in Nat /\ Cardinality(S \cup {x}) \in Nat /\ Cardinality(T) \in Nat
  BY <1>1, <1>2, FS_CardinalityType
<1> QED BY <1>1, <1>2, <1>3

\* The new set is no larger, or has one element more and n one more.
Grows(S, T, n, m) ==
    \/ T \subseteq S /\ n <= m
    \/ (\E x : T \subseteq S \cup {x}) /\ m = n + 1

\* A set that grows by one element for every fault has as many as there were faults.
LEMMA Counted ==
    ASSUME NEW S, NEW T, NEW n \in Nat, NEW m \in Nat,
           IsFiniteSet(S), Cardinality(S) <= n, Grows(S, T, n, m)
    PROVE  IsFiniteSet(T) /\ Cardinality(T) <= m
<1>1. Cardinality(S) \in Nat
  BY FS_CardinalityType
<1>2. CASE T \subseteq S /\ n <= m
  <2>1. IsFiniteSet(T) /\ Cardinality(T) <= Cardinality(S)
    BY <1>2, FS_Subset
  <2> QED BY <1>1, <1>2, <2>1, FS_CardinalityType
<1>3. ASSUME NEW x, T \subseteq S \cup {x}, m = n + 1 PROVE IsFiniteSet(T) /\ Cardinality(T) <= m
  BY <1>1, <1>3, OneMore
<1> QED BY <1>2, <1>3 DEF Grows

\* Every step keeps the keys left behind within the number of faults.
LEMMA KeysCounted ==
    ASSUME SessionsInv, LeftBounded, SparedBounded, [Next]_vars
    PROVE  LeftBounded' /\ SparedBounded'
<1>1. TypeOK /\ AllInPlace /\ FreshIsUnknown
  BY DEF SessionsInv
<1>2. ASSUME NEW r \in Requests, StepOf(r), Frame(r)
      PROVE  /\ faults \in Nat /\ faults' \in Nat
             /\ Grows(Left, Left', faults, faults') /\ Grows(Spared, Spared', faults, faults')
  <2>1. /\ faults \in Nat /\ faults' \in Nat /\ faults <= faults'
        /\ Dies(r) => faults' = faults + 1
    BY <1>1, <1>2, FaultsStep
  <2>2. Left' \subseteq Left \/ (Dies(r) /\ Left' \subseteq Left \cup {req[r].jti})
    BY <1>1, <1>2, LeftStep
  <2>3. Spared' \subseteq Spared \/ (Dies(r) /\ Spared' \subseteq Spared \cup {req[r].victim})
    BY <1>1, <1>2, SparedStep
  <2>4. Grows(Left, Left', faults, faults')
    BY <2>1, <2>2, Zenon DEF Grows
  <2>5. Grows(Spared, Spared', faults, faults')
    BY <2>1, <2>3, Zenon DEF Grows
  <2> QED BY <2>1, <2>4, <2>5
<1>3. ASSUME TypeOK', ClockStep
      PROVE  /\ faults \in Nat /\ faults' \in Nat
             /\ Grows(Left, Left', faults, faults') /\ Grows(Spared, Spared', faults, faults')
  <2>1. Left' \subseteq Left /\ Spared' \subseteq Spared
    BY <1>3 DEF ClockStep, Left, Spared, Exchanging
  <2>2. faults \in Nat /\ faults' \in Nat /\ faults <= faults'
    BY <1>1, <1>3 DEF TypeOK, ClockStep
  <2>3. Grows(Left, Left', faults, faults') /\ Grows(Spared, Spared', faults, faults')
    BY <2>1, <2>2, Zenon DEF Grows
  <2> QED BY <2>2, <2>3
<1>4. /\ faults \in Nat /\ faults' \in Nat
      /\ Grows(Left, Left', faults, faults') /\ Grows(Spared, Spared', faults, faults')
  BY <1>1, <1>2, <1>3, StepsOfNext
<1>5. PICK n \in Nat : n = faults
  BY <1>4
<1>6. PICK m \in Nat : m = faults'
  BY <1>4
<1>7. LeftBounded'
  <2>1. PICK S : S = Left
    OBVIOUS
  <2>2. PICK T : T = Left'
    OBVIOUS
  <2>3. IsFiniteSet(S) /\ Cardinality(S) <= n /\ Grows(S, T, n, m)
    BY <1>4, <1>5, <1>6, <2>1, <2>2 DEF LeftBounded
  <2>4. IsFiniteSet(T) /\ Cardinality(T) <= m
    BY <2>3, Counted
  <2> QED BY <1>6, <2>2, <2>4 DEF LeftBounded
<1>8. SparedBounded'
  <2>1. PICK S : S = Spared
    OBVIOUS
  <2>2. PICK T : T = Spared'
    OBVIOUS
  <2>3. IsFiniteSet(S) /\ Cardinality(S) <= n /\ Grows(S, T, n, m)
    BY <1>4, <1>5, <1>6, <2>1, <2>2 DEF SparedBounded
  <2>4. IsFiniteSet(T) /\ Cardinality(T) <= m
    BY <2>3, Counted
  <2> QED BY <1>6, <2>2, <2>4 DEF SparedBounded
<1> QED BY <1>7, <1>8

\* At every moment there are at most as many such keys as there were faults.
LEMMA KeysBounded == Spec => [](LeftBounded /\ SparedBounded)
<1>1. Init => LeftBounded /\ SparedBounded
  <2> SUFFICES ASSUME Init PROVE LeftBounded /\ SparedBounded
    OBVIOUS
  <2>1. Left = {} /\ Spared = {} /\ faults = 0
    BY DEF Init, Left, Spared
  <2> QED BY <2>1, FS_EmptySet DEF LeftBounded, SparedBounded
<1>2. SessionsInv /\ LeftBounded /\ SparedBounded /\ [Next]_vars
          => LeftBounded' /\ SparedBounded'
  BY KeysCounted
<1> QED BY <1>1, <1>2, SessionsHold, PTL DEF Spec

-----------------------------------------------------------------------------
(* A sign-in that is over stays over.                                      *)

\* A sign-in that is over has no session, and no refresh is about to store one for
\* it: it has its session to read yet, which is one that is over.
EndedInOrder ==
    /\ ended \cap live = {}
    /\ \A r \in Requests : Fresh(req[r]) /\ req[r].new \in ended =>
                               req[r].at = "read" /\ req[r].jti \in ended

\* Sessions that stay over when no more are: nobody stores one.
LEMMA NoneRevived ==
    ASSUME FreshIsUnknown, EndedInOrder, NEW r \in Requests, Frame(r), ended' = ended
    PROVE  ended' \cap live' = {}
<1>1. \A j \in live' : j \in live \/ (Fresh(req[r]) /\ req[r].at = "store" /\ j = req[r].new)
  BY DEF Frame, Tables, Fresh
<1> QED BY <1>1 DEF EndedInOrder

\* Every step of a request keeps the order.
LEMMA EndedStep ==
    ASSUME TypeOK, AllInPlace, FreshIsUnknown, EndedInOrder, NEW r \in Requests,
           StepOf(r), Frame(r)
    PROVE  EndedInOrder'
<1> USE DEF redis, tokens, history, At
<1>1. \A q \in Requests \ {r} : req'[q] = req[q]
  BY DEF Frame, Mentions
<1>2. \A q \in Requests : Fresh(req[q]) =>
          /\ req[q].new \in minted \ (live \cup revoked)
          /\ \A p \in Requests \ {q} : req[p].new # req[q].new
  BY DEF FreshIsUnknown, Unknown
<1>3. /\ ended \cap live = {}
      /\ \A q \in Requests : Fresh(req[q]) /\ req[q].new \in ended =>
                                 req[q].at = "read" /\ req[q].jti \in ended
  BY DEF EndedInOrder
<1>4. live \subseteq minted /\ ended \subseteq minted
  BY DEF TypeOK
<1>5. CASE Exchange(r)
  <2>1. PICK x \in Jtis \ minted :
           /\ minted' = minted \cup {x}
           /\ req' = [req EXCEPT ![r].new = x, ![r].at = "read"]
           /\ ended' = IF req[r].jti \in ended THEN ended \cup {x} ELSE ended
    BY <1>5 DEF Exchange
  <2>2. req' = [req EXCEPT ![r] = [req[r] EXCEPT !.new = x, !.at = "read"]]
    BY <2>1
  <2>3. req'[r] = [req[r] EXCEPT !.new = x, !.at = "read"] /\ req[r] \in Rows(minted)
    BY <2>2, RowOf, TypeOfRows
  <2>4. req'[r].new = x /\ req'[r].at = "read" /\ req'[r].jti = req[r].jti
    BY <2>3 DEF Rows
  <2>5. live' = live
    BY <1>5 DEF Exchange
  <2>6. ended' \cap live' = {}
    BY <1>3, <1>4, <2>1, <2>5
  <2>7. ASSUME NEW q \in Requests, Fresh(req'[q]), req'[q].new \in ended'
        PROVE  req'[q].at = "read" /\ req'[q].jti \in ended'
    <3>1. CASE q = r
      BY <1>4, <2>1, <2>4, <2>7, <3>1
    <3>2. CASE q # r
      <4>1. req'[q] = req[q] /\ Fresh(req[q])
        BY <1>1, <2>7, <3>2
      <4>2. req[q].new \in minted /\ x \notin minted
        BY <1>2, <4>1
      <4>3. ended \subseteq ended' /\ ended' \subseteq ended \cup {x}
        BY <2>1
      <4>4. req[q].new \in ended
        BY <2>7, <4>1, <4>2, <4>3
      <4>5. req[q].at = "read" /\ req[q].jti \in ended
        BY <1>3, <4>1, <4>4
      <4> QED BY <4>1, <4>3, <4>5
    <3> QED BY <3>1, <3>2
  <2> QED BY <2>6, <2>7 DEF EndedInOrder, Fresh
<1>6. CASE DeleteVictim(r)
  <2>1. PICK j : j = req[r].victim
    OBVIOUS
  <2>2. live' = live \ {j} /\ ended' = ended \cup {j} \cup DrawnFor(j)
    BY <1>6, <2>1 DEF DeleteVictim
  <2>3. j \in revoked
    BY <1>6, <2>1 DEF DeleteVictim, AllInPlace, InPlace
  <2>4. \A x \in DrawnFor(j) : \E p \in Requests :
            req[p].at = "read" /\ Fresh(req[p]) /\ req[p].jti = j /\ req[p].new = x
    BY DEF DrawnFor, Fresh
  <2>5. ended' \cap live' = {}
    BY <1>2, <1>3, <2>2, <2>4
  <2>6. ~Fresh(req'[r])
    BY <1>6, ListFrame DEF Lists, DeleteVictim, Fresh
  <2>7. ASSUME NEW q \in Requests, Fresh(req'[q]), req'[q].new \in ended'
        PROVE  req'[q].at = "read" /\ req'[q].jti \in ended'
    <3>1. q # r /\ req'[q] = req[q] /\ Fresh(req[q])
      BY <1>1, <2>6, <2>7
    <3>2. req[q].new # j
      BY <1>2, <2>3, <3>1
    <3>3. CASE req[q].new \in ended
      BY <1>3, <2>2, <3>1, <3>3
    <3>4. CASE req[q].new \in DrawnFor(j)
      <4>1. PICK p \in Requests : /\ req[p].at = "read" /\ Fresh(req[p]) /\ req[p].jti = j
                                  /\ req[p].new = req[q].new
        BY <2>4, <3>4
      <4>2. p = q
        BY <1>2, <4>1
      <4> QED BY <2>2, <3>1, <4>1, <4>2
    <3> QED BY <2>2, <2>7, <3>1, <3>2, <3>3, <3>4
  <2> QED BY <2>5, <2>7 DEF EndedInOrder, Fresh
<1>7. CASE ~Exchange(r) /\ ~DeleteVictim(r)
  <2>1. ended' = ended
    <3>1. CASE \/ \E b \in Browsers : SignIn(r, b) \/ StartRefresh(r, b)
                                      \/ StartLogout(r, b) \/ StartRevoke(r, b)
               \/ AdminList(r) \/ AdminRevoke(r)
      BY <3>1 DEF SignIn, StartRefresh, StartLogout, StartRevoke, AdminList, AdminRevoke
    <3>2. CASE \/ ReadIndex(r) \/ GetListed(r) \/ CleanIndex(r) \/ ReadVictim(r)
               \/ UnlistVictim(r) \/ RevokeDone(r) \/ Answer(r) \/ Dies(r)
      BY <3>2 DEF ReadIndex, GetListed, CleanIndex, ReadVictim, UnlistVictim, RevokeDone,
                  Answer, Dies
    <3>3. CASE \/ ValidateSession(r) \/ Recheck(r) \/ ReadOld(r) \/ StoreNew(r)
               \/ UnindexOld(r) \/ IndexNew(r) \/ DropOld(r)
      BY <3>3 DEF ValidateSession, Recheck, ReadOld, StoreNew, UnindexOld, IndexNew, DropOld
    <3> QED BY <1>7, <3>1, <3>2, <3>3 DEF StepOf
  <2>2. ended' \cap live' = {}
    BY <2>1, NoneRevived
  <2>3. Fresh(req'[r]) => req'[r].new \notin ended
    <3> SUFFICES ASSUME Fresh(req'[r]), req'[r].new \in ended PROVE FALSE
      OBVIOUS
    <3>1. req[r].at = "read" /\ SameButAt(req'[r], req[r])
      BY <1>4 DEF Frame, Draws
    <3>2. req[r].jti \in ended
      BY <1>3, <3>1 DEF SameButAt, Fresh
    <3>3. CASE ReadOld(r)
      <4>1. Goto(r, "answer")
        BY <1>3, <3>2, <3>3 DEF ReadOld
      <4>2. req'[r].at = "answer"
        BY <4>1, GotoRow DEF Places
      <4> QED BY <4>2 DEF Fresh
    <3>4. CASE Dies(r)
      BY <3>4, FinishRow, IdleRow DEF Dies, Fresh
    <3>5. CASE StoreNew(r) \/ UnindexOld(r) \/ IndexNew(r) \/ DropOld(r)
      BY <3>1, <3>5 DEF StoreNew, UnindexOld, IndexNew, DropOld
    <3> QED BY <3>1, <3>3, <3>4, <3>5, StepsFrom
  <2>4. ASSUME NEW q \in Requests, Fresh(req'[q]), req'[q].new \in ended'
        PROVE  req'[q].at = "read" /\ req'[q].jti \in ended'
    BY <1>1, <1>3, <2>1, <2>3, <2>4
  <2> QED BY <2>2, <2>4 DEF EndedInOrder, Fresh
<1> QED BY <1>5, <1>6, <1>7

\* In every state, what is over is over.
LEMMA EndedHolds == Spec => []EndedInOrder
<1>1. Init => EndedInOrder
  BY IdleRow DEF Init, EndedInOrder, Fresh
<1>2. SessionsInv /\ EndedInOrder /\ [Next]_vars => EndedInOrder'
  <2> SUFFICES ASSUME SessionsInv, EndedInOrder, [Next]_vars PROVE EndedInOrder'
    OBVIOUS
  <2>1. TypeOK /\ AllInPlace /\ FreshIsUnknown
    BY DEF SessionsInv
  <2>2. ASSUME NEW r \in Requests, StepOf(r), Frame(r) PROVE EndedInOrder'
    BY <2>1, <2>2, EndedStep
  <2>3. CASE ClockStep
    BY <2>3 DEF ClockStep, EndedInOrder, Fresh
  <2> QED BY <2>1, <2>2, <2>3, StepsOfNext
<1> QED BY <1>1, <1>2, SessionsHold, PTL DEF Spec

-----------------------------------------------------------------------------
(* The theorems.                                                           *)

\* A token that was exchanged keeps a key in the whitelist only while its request is on
\* the way to delete it, or because that request died: rotate_session of
\* session_service.py deletes the old session last.
THEOREM ExchangedSessionsAreGone == Spec => []ExchangedIsGone
<1>1. SessionsInv /\ LeftBounded => ExchangedIsGone
  <2> SUFFICES ASSUME SessionsInv, LeftBounded PROVE ExchangedIsGone
    OBVIOUS
  <2> DEFINE S == {j \in blacklisted \cap live :
                      ~\E r \in Requests : req[r].kind = "refresh" /\ req[r].jti = j}
  <2>1. S \subseteq Left
    BY DEF Left, Exchanging
  <2>2. IsFiniteSet(Left) /\ Cardinality(Left) <= faults /\ faults \in Nat
    BY DEF LeftBounded, SessionsInv, TypeOK
  <2> HIDE DEF S
  <2>3. IsFiniteSet(S) /\ Cardinality(S) <= Cardinality(Left)
    BY <2>1, <2>2, FS_Subset
  <2>4. Cardinality(S) \in Nat /\ Cardinality(Left) \in Nat
    BY <2>2, <2>3, FS_CardinalityType
  <2>5. Cardinality(S) <= faults
    BY <2>2, <2>3, <2>4
  <2> QED BY <2>5 DEF S, ExchangedIsGone
<1> QED BY <1>1, KeysBounded, SessionsHold, PTL

\* A revoked sign-in is over, also for a refresh that had passed every check before and
\* rotates the session afterwards, unless it had read the old session already
\* (rotate_session of session_service.py); and a session that was to be revoked keeps
\* its key only while a request is at it, or because that request died on the way
\* (revoke_session).
THEOREM RevokedSessionsAreGone == Spec => []RevokedIsGone
<1>1. SessionsInv /\ SparedBounded /\ EndedInOrder => RevokedIsGone
  <2> SUFFICES ASSUME SessionsInv, SparedBounded, EndedInOrder PROVE RevokedIsGone
    OBVIOUS
  <2> DEFINE S == {j \in revoked \cap live :
                      \A r \in Requests : j \notin req[r].found \cup {req[r].victim}}
  <2>1. S \subseteq Spared
    BY DEF Spared
  <2>2. IsFiniteSet(Spared) /\ Cardinality(Spared) <= faults /\ faults \in Nat
    BY DEF SparedBounded, SessionsInv, TypeOK
  <2> HIDE DEF S
  <2>3. IsFiniteSet(S) /\ Cardinality(S) <= Cardinality(Spared)
    BY <2>1, <2>2, FS_Subset
  <2>4. Cardinality(S) \in Nat /\ Cardinality(Spared) \in Nat
    BY <2>2, <2>3, FS_CardinalityType
  <2>5. Cardinality(S) <= faults
    BY <2>2, <2>3, <2>4
  <2> QED BY <2>5 DEF S, RevokedIsGone, EndedInOrder
<1> QED BY <1>1, KeysBounded, EndedHolds, SessionsHold, PTL
=============================================================================
