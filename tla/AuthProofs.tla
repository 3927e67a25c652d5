----------------------------- MODULE AuthProofs -----------------------------
(***************************************************************************)
(* Proofs about Auth for every number of users, tokens and requests, every *)
(* TTL and every length of flight: who a request is served as, and for how *)
(* long a credential that was withdrawn still works.                       *)
(***************************************************************************)
EXTENDS Auth, TLAPS

Stages == {"idle", "bearer", "check", "owner", "ownerPut", "cookie", "subject", "subjectPut",
           "header", "provision", "reread", "issue", "done"}

Answers == {"none", "ok", "anonymous", "conflict", "revoked", "unauthorized", "signed_in"}

RequestRecord ==
  [at : Stages, cred : Credentials \cup {None}, session : Session \cup {None},
   row : TokenRow \cup {None}, fresh : UserRow \cup {None}, since : Nat,
   id : UserId \cup {None}, tokenAt : Nat, sessionAt : Nat, answer : Answers]

-----------------------------------------------------------------------------
(* The inductive invariant.                                                *)

AuthTypeOK ==
  /\ now \in Nat
  /\ users \in [UserId -> UserRow \cup {None}]
  /\ tokens \in [TokenId -> TokenRow \cup {None}]
  /\ sessions \subseteq Session
  /\ tokenCache \in [TokenId -> [val : TokenRow, exp : Nat] \cup {None}]
  /\ userCache \in [UserId -> [val : UserRow, exp : Nat] \cup {None}]
  /\ req \in [Request -> RequestRecord]

\* The unique index users_email_ci.
EmailsUnique ==
  \A u, v \in UserId :
    (Known(u) /\ Known(v) /\ Fold(users[u].email) = Fold(users[v].email)) => u = v

\* Tokens and sessions belong to users, and nothing happened in the future.
RowsInOrder ==
  /\ \A u \in UserId : Known(u) => users[u].bumped <= now
  /\ \A t \in TokenId : tokens[t] # None =>
       Known(tokens[t].user) /\ (tokens[t].revoked # None => tokens[t].revoked <= now)
  /\ \A s \in sessions : Known(s.user)

\* Something judged good at time a: not long after the token was revoked.
TokenInTime(t, a) ==
  a <= now /\ (tokens[t].revoked # None => a < tokens[t].revoked + CacheTTL + MaxFlight)

\* The same of a session with version tv of user u.
VersionInTime(u, tv, a) ==
  a <= now /\ (tv # users[u].tv => a < users[u].bumped + CacheTTL + MaxFlight)

\* A cached token is a good one, and goes soon after its row is revoked.
TokenCacheOK ==
  \A t \in TokenId : tokenCache[t] # None =>
    /\ tokens[t] # None /\ tokenCache[t].val.user = tokens[t].user
    /\ tokenCache[t].val.revoked = None
    /\ tokenCache[t].exp <= now + CacheTTL
    /\ tokens[t].revoked # None => tokenCache[t].exp <= tokens[t].revoked + CacheTTL + MaxFlight

\* A cached user goes soon after its token_version was incremented.
UserCacheOK ==
  \A u \in UserId : userCache[u] # None =>
    /\ Known(u)
    /\ userCache[u].exp <= now + CacheTTL
    /\ userCache[u].val.tv # users[u].tv => userCache[u].exp <= users[u].bumped + CacheTTL + MaxFlight

\* What a request at each step has established, x being its record.
Underway(x) == x.at \notin {"idle", "done", "issue"} \/ (x.at = "done" /\ x.answer = "ok")

PastBearer(x) == Underway(x) /\ x.at \notin {"bearer", "check", "owner", "ownerPut"}

PastCookie(x) == PastBearer(x) /\ x.at \notin {"cookie", "subject", "subjectPut"}

HeldSince(x) == x.since <= now /\ now - x.since <= MaxFlight

ArrivedOK(x) ==
  Underway(x) => /\ x.cred \in Credentials
                 /\ x.cred.cookie => x.session \in sessions

BearerOK(x) ==
  x.at \in {"bearer", "check", "owner", "ownerPut"} =>
    LET t == x.cred.bearer IN
    /\ t \in TokenId /\ x.id = None
    /\ x.at # "bearer" => /\ x.row \in TokenRow /\ tokens[t] # None
                          /\ x.row.user = tokens[t].user
    /\ x.at = "check" =>
         (x.row.revoked = None /\ tokens[t].revoked # None => x.since <= tokens[t].revoked)
    /\ x.at \in {"owner", "ownerPut"} => TokenInTime(t, x.tokenAt)

TokenOK(x) ==
  (PastBearer(x) /\ x.cred.bearer # None) =>
    LET t == x.cred.bearer IN
    tokens[t] # None /\ tokens[t].user = x.id /\ TokenInTime(t, x.tokenAt)

SubjectOf(x) == IF x.at \in {"owner", "ownerPut"} THEN x.row.user ELSE x.session.user

HoldingOK(x) ==
  /\ x.at \in Holding => HeldSince(x)
  /\ x.at \in {"cookie", "subject", "subjectPut"} => x.cred.cookie
  /\ x.at \in {"ownerPut", "subjectPut"} =>
       /\ x.fresh \in UserRow
       /\ x.fresh.tv # users[SubjectOf(x)].tv => x.since <= users[SubjectOf(x)].bumped
  /\ x.at = "issue" => x.id \in UserId /\ Known(x.id) /\ x.fresh \in UserRow

SessionOK(x) ==
  (PastCookie(x) /\ x.cred.cookie) =>
    x.session.user = x.id /\ VersionInTime(x.session.user, x.session.tv, x.sessionAt)

HeaderOK(x) ==
  /\ x.at \in {"provision", "reread"} => x.cred.trusted /\ x.cred.header = "one"
  /\ (x.at = "done" /\ x.answer = "ok" /\ x.cred.trusted /\ x.cred.header = "one") =>
       x.id \in GetUserByEmail(x.cred.email)

RequestOK(x) ==
  ArrivedOK(x) /\ BearerOK(x) /\ TokenOK(x) /\ HoldingOK(x) /\ SessionOK(x) /\ HeaderOK(x)

AuthInv ==
  /\ AuthTypeOK
  /\ EmailsUnique
  /\ RowsInOrder
  /\ TokenCacheOK
  /\ UserCacheOK
  /\ \A r \in Request : RequestOK(req[r])

-----------------------------------------------------------------------------
(* Steps of one request that leave the tables and the clock alone.         *)

\* An idle request satisfies its part of the invariant.
LEMMA IdleOK == Idle \in RequestRecord /\ RequestOK(Idle)
  BY DEF Idle, RequestRecord, Stages, Answers, RequestOK, ArrivedOK, BearerOK, TokenOK,
         HoldingOK, SessionOK, HeaderOK, Underway, PastBearer, PastCookie, Holding

\* Before the first request nothing is cached and only the admin exists.
LEMMA InitOK == AuthInit => AuthInv
<1> SUFFICES ASSUME AuthInit PROVE AuthInv
  OBVIOUS
<1>1. AuthTypeOK
  <2>1. NewUser(AdminEmail) \in UserRow /\ [NewUser(AdminEmail) EXCEPT !.password = TRUE] \in UserRow
    BY AuthAssumption DEF NewUser, UserRow
  <2> QED BY <2>1, IdleOK DEF AuthInit, AuthTypeOK
<1>2. EmailsUnique
  BY DEF AuthInit, EmailsUnique, Known
<1>3. RowsInOrder
  BY DEF AuthInit, RowsInOrder, Known, NewUser
<1>4. TokenCacheOK /\ UserCacheOK
  BY DEF AuthInit, TokenCacheOK, UserCacheOK
<1>5. \A r \in Request : RequestOK(req[r])
  BY IdleOK DEF AuthInit
<1> QED BY <1>1, <1>2, <1>3, <1>4, <1>5 DEF AuthInv

\* A step that changes one request's record, and perhaps the caches, but
\* neither the tables nor the clock.
LEMMA OneRequestAndCaches ==
  ASSUME AuthInv, NEW r \in Request, NEW x \in RequestRecord, RequestOK(x), Set(r, x),
         UNCHANGED <<now, users, tokens, sessions>>,
         tokenCache' \in [TokenId -> [val : TokenRow, exp : Nat] \cup {None}],
         userCache' \in [UserId -> [val : UserRow, exp : Nat] \cup {None}],
         TokenCacheOK', UserCacheOK'
  PROVE  AuthInv'
<1>1. AuthTypeOK'
  BY DEF AuthInv, AuthTypeOK, Set
<1>2. EmailsUnique' /\ RowsInOrder'
  BY DEF AuthInv, EmailsUnique, RowsInOrder, Known
<1>3. ASSUME NEW q \in Request PROVE RequestOK(req[q])'
  <2>1. req'[q] = IF q = r THEN x ELSE req[q]
    BY DEF Set, AuthInv, AuthTypeOK
  <2>2. RequestOK(req[q]) /\ RequestOK(x)
    BY DEF AuthInv
  <2> QED
    BY <2>1, <2>2 DEF RequestOK, ArrivedOK, BearerOK, TokenOK,
      HoldingOK, SessionOK, HeaderOK, Underway, PastBearer, PastCookie, HeldSince,
      TokenInTime, VersionInTime, SubjectOf, GetUserByEmail, Known
<1> QED BY <1>1, <1>2, <1>3 DEF AuthInv

\* A step that changes one request's record and nothing else.
LEMMA OneRequest ==
  ASSUME AuthInv, NEW r \in Request, NEW x \in RequestRecord, RequestOK(x), Set(r, x),
         UNCHANGED <<now, users, tokens, sessions, tokenCache, userCache>>
  PROVE  AuthInv'
<1>1. TokenCacheOK' /\ UserCacheOK'
  BY DEF AuthInv, TokenCacheOK, UserCacheOK, Known
<1> QED BY <1>1, OneRequestAndCaches DEF AuthInv, AuthTypeOK

\* A refusal keeps nothing of the request.
LEMMA RejectKeeps ==
  ASSUME AuthInv, NEW r \in Request, NEW why \in Answers \ {"ok"}, Reject(r, why),
         UNCHANGED <<now, users, tokens, sessions, tokenCache, userCache>>
  PROVE  AuthInv'
<1> DEFINE x == [Idle EXCEPT !.at = "done", !.answer = why]
<1>1. x \in RequestRecord
  BY DEF Idle, RequestRecord, Stages, Answers
<1>2. RequestOK(x)
  BY DEF Idle, RequestOK, ArrivedOK, BearerOK, TokenOK, HoldingOK, SessionOK, HeaderOK,
         Underway, PastBearer, PastCookie, Holding
<1> QED BY <1>1, <1>2, OneRequest DEF Reject

\* A request arrives with its credentials, and a cookie that was issued.
LEMMA ArriveKeeps == ASSUME AuthInv, NEW r \in Request, Arrive(r) PROVE AuthInv'
<1>1. PICK c \in Presented : \E s \in IF c.cookie THEN sessions ELSE {None} :
         Set(r, [Idle EXCEPT !.cred = c, !.session = s,
                   !.at = IF c.bearer # None THEN "bearer" ELSE AfterBearer(c)])
  BY DEF Arrive
<1>2. PICK s \in IF c.cookie THEN sessions ELSE {None} :
         Set(r, [Idle EXCEPT !.cred = c, !.session = s,
                   !.at = IF c.bearer # None THEN "bearer" ELSE AfterBearer(c)])
  BY <1>1
<1> DEFINE x == [Idle EXCEPT !.cred = c, !.session = s,
                   !.at = IF c.bearer # None THEN "bearer" ELSE AfterBearer(c)]
<1>3. c \in Credentials /\ sessions \subseteq Session
  BY AuthAssumption DEF AuthInv, AuthTypeOK
<1>4. x \in RequestRecord
  BY <1>3 DEF Idle, RequestRecord, Stages, Answers, AfterBearer
<1>5. RequestOK(x)
  BY <1>3 DEF Idle, RequestOK, ArrivedOK, BearerOK, TokenOK, HoldingOK, SessionOK, HeaderOK,
         Underway, PastBearer, PastCookie, Holding, AfterBearer, Credentials
<1> QED BY <1>2, <1>4, <1>5, OneRequest DEF Arrive

\* A token that is judged now, from a row of its owner that is not known to be
\* stale for longer than the caches allow, is in time.
LEMMA VerdictOK ==
  ASSUME AuthInv, NEW r \in Request, NEW t \in TokenRow,
         req[r].at \in {"bearer", "check"}, Verdict(r, t),
         t.revoked = None => /\ tokens[req[r].cred.bearer] # None
                             /\ t.user = tokens[req[r].cred.bearer].user
                             /\ TokenInTime(req[r].cred.bearer, now)
  PROVE  \E x \in RequestRecord : RequestOK(x) /\ Set(r, x)
<1>0. req[r] \in RequestRecord /\ RequestOK(req[r]) /\ now \in Nat
  BY DEF AuthInv, AuthTypeOK
<1>1. CASE t.revoked # None \/ Expired(t)
  <2>1. PICK why \in Answers \ {"ok"} : Reject(r, why)
    BY <1>1 DEF Verdict, Answers
  <2> DEFINE x == [Idle EXCEPT !.at = "done", !.answer = why]
  <2>2. x \in RequestRecord
    BY DEF Idle, RequestRecord, Stages, Answers
  <2>3. RequestOK(x)
    BY DEF Idle, RequestOK, ArrivedOK, BearerOK, TokenOK, HoldingOK, SessionOK, HeaderOK,
           Underway, PastBearer, PastCookie, Holding
  <2> QED BY <2>1, <2>2, <2>3 DEF Reject
<1>2. CASE t.revoked = None /\ ~Expired(t)
  <2> DEFINE x == [req[r] EXCEPT !.at = "owner", !.row = t, !.tokenAt = now]
  <2>1. Set(r, x)
    BY <1>2 DEF Verdict
  <2>2. x \in RequestRecord
    BY <1>0 DEF RequestRecord, Stages
  <2>3. /\ x.at = "owner" /\ x.row = t /\ x.tokenAt = now /\ x.cred = req[r].cred
        /\ x.session = req[r].session /\ x.id = req[r].id
    BY <1>0 DEF RequestRecord
  <2>4. ArrivedOK(x) /\ BearerOK(x)
    BY <1>0, <1>2, <2>3 DEF RequestOK, ArrivedOK, BearerOK, Underway
  <2>5. TokenOK(x) /\ HoldingOK(x) /\ SessionOK(x) /\ HeaderOK(x)
    BY <2>3 DEF TokenOK, HoldingOK, SessionOK, HeaderOK, PastBearer, PastCookie, Holding
  <2> QED BY <2>1, <2>2, <2>4, <2>5 DEF RequestOK
<1> QED BY <1>1, <1>2

\* A cache hit is not long after a revocation.
LEMMA TokenFromCacheKeeps ==
  ASSUME AuthInv, NEW r \in Request, TokenFromCache(r) PROVE AuthInv'
<1> DEFINE t == req[r].cred.bearer
<1>1. t \in TokenId
  BY DEF AuthInv, TokenFromCache, RequestOK, BearerOK
<1>2. tokenCache[t].val \in TokenRow /\ tokenCache[t].exp \in Nat /\ tokenCache[t] # None
  BY <1>1 DEF AuthInv, AuthTypeOK, TokenFromCache, Hit
<1>3. now < tokenCache[t].exp
  BY DEF TokenFromCache, Hit
<1>4. /\ tokens[t] # None /\ tokenCache[t].val.user = tokens[t].user
      /\ TokenInTime(t, now)
  <2>1. tokens[t] \in TokenRow /\ now \in Nat
    BY <1>1, <1>2 DEF AuthInv, AuthTypeOK, TokenCacheOK
  <2> QED
    BY <1>1, <1>2, <1>3, <2>1, AuthAssumption DEF AuthInv, TokenCacheOK, TokenInTime, TokenRow
<1>5. PICK x \in RequestRecord : RequestOK(x) /\ Set(r, x)
  BY <1>2, <1>4, VerdictOK DEF TokenFromCache
<1> QED BY <1>5, OneRequest DEF TokenFromCache

\* The row a request reads is the current one.
LEMMA TokenFromStoreKeeps ==
  ASSUME AuthInv, NEW r \in Request, TokenFromStore(r) PROVE AuthInv'
<1> DEFINE t == req[r].cred.bearer
           x == [req[r] EXCEPT !.at = "check", !.row = tokens[t], !.since = now]
<1>1. t \in TokenId /\ req[r] \in RequestRecord /\ RequestOK(req[r])
  BY DEF AuthInv, AuthTypeOK, TokenFromStore, RequestOK, BearerOK
<1>2. CASE tokens[t] = None
  BY <1>2, RejectKeeps DEF TokenFromStore, Answers
<1>3. CASE tokens[t] # None
  <2>1. Set(r, x)
    BY <1>3 DEF TokenFromStore
  <2>2. tokens[t] \in TokenRow /\ now \in Nat
    BY <1>1, <1>3 DEF AuthInv, AuthTypeOK
  <2>3. x \in RequestRecord
    BY <1>1, <2>2 DEF RequestRecord, Stages
  <2>4. /\ x.at = "check" /\ x.row = tokens[t] /\ x.since = now /\ x.cred = req[r].cred
        /\ x.session = req[r].session /\ x.id = req[r].id
    BY <1>1 DEF RequestRecord
  <2>5. ArrivedOK(x) /\ BearerOK(x)
    BY <1>1, <1>3, <2>2, <2>4 DEF RequestOK, ArrivedOK, BearerOK, Underway, TokenFromStore
  <2>6. TokenOK(x) /\ HoldingOK(x) /\ SessionOK(x) /\ HeaderOK(x)
    BY <2>2, <2>4, AuthAssumption DEF TokenOK, HoldingOK, SessionOK, HeaderOK, PastBearer, PastCookie,
       HeldSince
  <2> QED BY <2>1, <2>3, <2>5, <2>6, OneRequest DEF RequestOK, TokenFromStore
<1> QED BY <1>2, <1>3

\* A row is cached as soon as it is judged: for no longer than CacheTTL and the
\* time the request held it.
LEMMA TokenCheckedKeeps ==
  ASSUME AuthInv, NEW r \in Request, TokenChecked(r) PROVE AuthInv'
<1> DEFINE id == req[r].cred.bearer
           t  == req[r].row
<1>1. /\ id \in TokenId /\ t \in TokenRow /\ tokens[id] # None /\ t.user = tokens[id].user
      /\ t.revoked = None /\ tokens[id].revoked # None => req[r].since <= tokens[id].revoked
      /\ HeldSince(req[r])
  BY DEF AuthInv, TokenChecked, RequestOK, BearerOK, HoldingOK, Holding
<1>2. tokens[id] \in TokenRow /\ now \in Nat /\ req[r].since \in Nat
  BY <1>1 DEF AuthInv, AuthTypeOK, RequestRecord
<1>3. t.revoked = None => TokenInTime(id, now)
  BY <1>1, <1>2, AuthAssumption DEF TokenInTime, HeldSince, TokenRow
<1>4. PICK x \in RequestRecord : RequestOK(x) /\ Set(r, x)
  BY <1>1, <1>3, VerdictOK DEF TokenChecked
<1>5. tokenCache' \in [TokenId -> [val : TokenRow, exp : Nat] \cup {None}]
  BY <1>1, <1>2, AuthAssumption DEF AuthInv, AuthTypeOK, TokenChecked, Put
<1>6. TokenCacheOK'
  <2> SUFFICES ASSUME NEW k \in TokenId, tokenCache'[k] # None
               PROVE  /\ tokens[k] # None /\ tokenCache'[k].val.user = tokens[k].user
                      /\ tokenCache'[k].val.revoked = None
                      /\ tokenCache'[k].exp <= now + CacheTTL
                      /\ tokens[k].revoked # None =>
                           tokenCache'[k].exp <= tokens[k].revoked + CacheTTL + MaxFlight
    BY DEF TokenCacheOK, TokenChecked
  <2>1. CASE k = id /\ t.revoked = None /\ ~Expired(t)
    <3>1. tokenCache'[k] = [val |-> t, exp |-> now + CacheTTL]
      BY <1>1, <2>1 DEF TokenChecked, Put, AuthInv, AuthTypeOK
    <3>2. tokens[k].revoked # None => tokens[k].revoked \in Nat /\ now <= tokens[k].revoked + MaxFlight
      BY <1>1, <1>2, <2>1, AuthAssumption DEF HeldSince, TokenRow
    <3> QED BY <1>1, <1>2, <2>1, <3>1, <3>2, AuthAssumption
  <2>2. CASE ~(k = id /\ t.revoked = None /\ ~Expired(t))
    <3>1. tokenCache'[k] = tokenCache[k]
      BY <1>1, <2>2 DEF TokenChecked, Put, AuthInv, AuthTypeOK
    <3> QED BY <3>1 DEF AuthInv, TokenCacheOK
  <2> QED BY <2>1, <2>2
<1>7. UserCacheOK' /\ userCache' \in [UserId -> [val : UserRow, exp : Nat] \cup {None}]
  BY DEF AuthInv, AuthTypeOK, UserCacheOK, TokenChecked, Known
<1> QED BY <1>4, <1>5, <1>6, <1>7, OneRequestAndCaches DEF TokenChecked

-----------------------------------------------------------------------------
(* userByID.                                                               *)

\* The subject of a request is a stored user.
LEMMA SubjectKnown ==
  ASSUME AuthInv, NEW r \in Request, req[r].at \in {"owner", "ownerPut", "subject", "subjectPut"}
  PROVE  /\ Subject(r) \in UserId /\ Known(Subject(r)) /\ users[Subject(r)] \in UserRow
         /\ Subject(r) = SubjectOf(req[r])
<1>1. Subject(r) = SubjectOf(req[r])
  BY DEF Subject, SubjectOf
<1>2. CASE req[r].at \in {"owner", "ownerPut"}
  <2>1. /\ req[r].cred.bearer \in TokenId /\ tokens[req[r].cred.bearer] # None
        /\ req[r].row.user = tokens[req[r].cred.bearer].user
    BY <1>2 DEF AuthInv, RequestOK, BearerOK
  <2>2. tokens[req[r].cred.bearer] \in TokenRow /\ Known(req[r].row.user)
    BY <2>1 DEF AuthInv, AuthTypeOK, RowsInOrder
  <2> QED BY <1>1, <1>2, <2>1, <2>2 DEF Subject, AuthInv, AuthTypeOK, Known, TokenRow
<1>3. CASE req[r].at \in {"subject", "subjectPut"}
  <2>1. req[r].session \in sessions
    BY <1>3 DEF AuthInv, RequestOK, HoldingOK, ArrivedOK, Underway
  <2>2. req[r].session \in Session /\ Known(req[r].session.user)
    BY <2>1 DEF AuthInv, AuthTypeOK, RowsInOrder
  <2> QED BY <1>1, <1>3, <2>2 DEF Subject, AuthInv, AuthTypeOK, Known, Session
<1> QED BY <1>2, <1>3

\* A user row that is not stale for longer than the caches allow takes the
\* request on, as the user its earlier credentials named, or refuses it.
LEMMA ResolvedOK ==
  ASSUME AuthInv, NEW r \in Request, NEW u \in UserId, u = Subject(r), NEW row \in UserRow,
         req[r].at \in {"owner", "ownerPut", "subject", "subjectPut"},
         row.tv # users[u].tv => now < users[u].bumped + CacheTTL + MaxFlight,
         Resolved(r, u, row)
  PROVE  \E x \in RequestRecord : RequestOK(x) /\ Set(r, x)
<1>0. /\ req[r] \in RequestRecord /\ RequestOK(req[r]) /\ now \in Nat /\ u # None
      /\ req[r].cred \in Credentials
  BY AuthAssumption DEF AuthInv, AuthTypeOK, RequestOK, ArrivedOK, Underway
<1>1. ASSUME NEW why \in Answers \ {"ok"}, Reject(r, why)
      PROVE  \E x \in RequestRecord : RequestOK(x) /\ Set(r, x)
  <2> DEFINE x == [Idle EXCEPT !.at = "done", !.answer = why]
  <2>1. x \in RequestRecord
    BY DEF Idle, RequestRecord, Stages, Answers
  <2>2. RequestOK(x)
    BY DEF Idle, RequestOK, ArrivedOK, BearerOK, TokenOK, HoldingOK, SessionOK, HeaderOK,
           Underway, PastBearer, PastCookie, Holding
  <2> QED BY <1>1, <2>1, <2>2 DEF Reject
<1>2. CASE req[r].at \in {"owner", "ownerPut"}
  <2> DEFINE y == [req[r] EXCEPT !.at = AfterBearer(req[r].cred)]
             x == [y EXCEPT !.id = IF @ = None THEN u ELSE @, !.row = None, !.fresh = None, !.since = 0]
  <2>1. Accept(r, u, y)
    BY <1>2 DEF Resolved
  <2>2. req[r].id = None
    BY <1>0, <1>2 DEF RequestOK, BearerOK
  <2>3. Set(r, x)
    BY <2>1, <2>2 DEF Accept, Agrees
  <2>4. x \in RequestRecord
    <3>1. AfterBearer(req[r].cred) \in Stages
      BY DEF AfterBearer, Stages
    <3> QED BY <1>0, <2>2, <3>1 DEF RequestRecord
  <2>5. /\ x.at = AfterBearer(req[r].cred) /\ x.cred = req[r].cred /\ x.id = u
        /\ x.session = req[r].session /\ x.tokenAt = req[r].tokenAt
    BY <1>0, <2>2 DEF RequestRecord
  <2>6. u = tokens[req[r].cred.bearer].user /\ tokens[req[r].cred.bearer] # None
        /\ TokenInTime(req[r].cred.bearer, req[r].tokenAt)
    BY <1>0, <1>2 DEF RequestOK, BearerOK, Subject
  <2>7. ArrivedOK(x) /\ BearerOK(x) /\ TokenOK(x)
    <3>1. x.at \in {"cookie", "header"}
      BY <2>5 DEF AfterBearer
    <3>2. ArrivedOK(x)
      BY <1>0, <1>2, <2>5 DEF RequestOK, ArrivedOK, Underway
    <3>3. BearerOK(x)
      BY <3>1 DEF BearerOK
    <3>4. TokenOK(x)
      BY <2>5, <2>6 DEF TokenOK
    <3> QED BY <3>2, <3>3, <3>4
  <2>8. HoldingOK(x) /\ HeaderOK(x)
    BY <2>5 DEF HoldingOK, HeaderOK, AfterBearer, Holding
  <2>9. SessionOK(x)
    BY <2>5 DEF SessionOK, PastCookie, AfterBearer
  <2> QED BY <2>3, <2>4, <2>7, <2>8, <2>9 DEF RequestOK
<1>3. CASE req[r].at \in {"subject", "subjectPut"}
  <2> DEFINE y == [req[r] EXCEPT !.at = "header", !.sessionAt = now]
             x == [y EXCEPT !.id = IF @ = None THEN u ELSE @, !.row = None, !.fresh = None, !.since = 0]
  <2>1. CASE row.tv # req[r].session.tv \/ ~Agrees(r, u)
    BY <1>1, <1>3, <2>1 DEF Resolved, Accept, Answers
  <2>2. CASE row.tv = req[r].session.tv /\ Agrees(r, u)
    <3>1. Set(r, x)
      BY <1>3, <2>2 DEF Resolved, Accept
    <3>2. x \in RequestRecord
      BY <1>0 DEF RequestRecord, Stages
    <3>3. /\ x.at = "header" /\ x.cred = req[r].cred /\ x.id = u /\ x.sessionAt = now
          /\ x.session = req[r].session /\ x.tokenAt = req[r].tokenAt
      BY <1>0, <2>2 DEF RequestRecord, Agrees
    <3>4. ArrivedOK(x) /\ BearerOK(x)
      BY <1>0, <1>3, <3>3 DEF RequestOK, ArrivedOK, BearerOK, Underway
    <3>5. TokenOK(x)
      <4>1. x.cred.bearer # None => req[r].id = tokens[req[r].cred.bearer].user /\ tokens[req[r].cred.bearer] # None
                                    /\ TokenInTime(req[r].cred.bearer, req[r].tokenAt)
        BY <1>0, <1>3, <3>3 DEF RequestOK, TokenOK, PastBearer, Underway
      <4>2. x.cred.bearer # None => req[r].id # None
        BY <1>0, <3>3, <4>1, AuthAssumption DEF AuthInv, AuthTypeOK, TokenRow, Credentials
      <4> QED BY <2>2, <3>3, <4>1, <4>2 DEF TokenOK, Agrees
    <3>6. HoldingOK(x) /\ HeaderOK(x)
      BY <3>3 DEF HoldingOK, HeaderOK, Holding
    <3>7. SessionOK(x)
      <4>1. x.session.user = u
        BY <1>3, <3>3 DEF Subject
      <4>2. VersionInTime(u, x.session.tv, now)
        BY <1>0, <2>2, <3>3 DEF VersionInTime
      <4> QED BY <3>3, <4>1, <4>2 DEF SessionOK
    <3> QED BY <3>1, <3>2, <3>4, <3>5, <3>6, <3>7 DEF RequestOK
  <2> QED BY <2>1, <2>2
<1> QED BY <1>2, <1>3

\* A cache hit is not long after token_version was incremented.
LEMMA UserFromCacheKeeps ==
  ASSUME AuthInv, NEW r \in Request, UserFromCache(r) PROVE AuthInv'
<1> DEFINE u == Subject(r)
<1>1. u \in UserId /\ Known(u) /\ users[u] \in UserRow
  BY SubjectKnown DEF UserFromCache
<1>2. /\ userCache[u].val \in UserRow /\ userCache[u].exp \in Nat /\ userCache[u] # None
      /\ now < userCache[u].exp /\ now \in Nat
  BY <1>1 DEF AuthInv, AuthTypeOK, UserFromCache, Hit
<1>3. userCache[u].val.tv # users[u].tv => now < users[u].bumped + CacheTTL + MaxFlight
  BY <1>1, <1>2, AuthAssumption DEF AuthInv, UserCacheOK, UserRow
<1>4. PICK x \in RequestRecord : RequestOK(x) /\ Set(r, x)
  BY <1>1, <1>2, <1>3, ResolvedOK DEF UserFromCache
<1> QED BY <1>4, OneRequest DEF UserFromCache

\* The user row a request reads is the current one.
LEMMA UserFromStoreKeeps ==
  ASSUME AuthInv, NEW r \in Request, UserFromStore(r) PROVE AuthInv'
<1> DEFINE u == Subject(r)
           x == [req[r] EXCEPT !.at = IF @ = "owner" THEN "ownerPut" ELSE "subjectPut",
                               !.fresh = users[u], !.since = now]
<1>1. u \in UserId /\ users[u] \in UserRow /\ u = SubjectOf(req[r])
  BY SubjectKnown DEF UserFromStore
<1>2. req[r] \in RequestRecord /\ RequestOK(req[r]) /\ now \in Nat /\ req[r].at \in {"owner", "subject"}
  BY DEF AuthInv, AuthTypeOK, UserFromStore
<1>3. x \in RequestRecord
  BY <1>1, <1>2 DEF RequestRecord, Stages
<1>4. /\ x.at = (IF req[r].at = "owner" THEN "ownerPut" ELSE "subjectPut")
      /\ x.fresh = users[u] /\ x.since = now /\ x.cred = req[r].cred /\ x.row = req[r].row
      /\ x.session = req[r].session /\ x.id = req[r].id /\ x.tokenAt = req[r].tokenAt
  BY <1>2 DEF RequestRecord
<1>5. ArrivedOK(x) /\ BearerOK(x)
  BY <1>2, <1>4 DEF RequestOK, ArrivedOK, BearerOK, Underway
<1>6. TokenOK(x)
  BY <1>2, <1>4 DEF RequestOK, TokenOK, PastBearer, Underway
<1>7. HoldingOK(x)
  <2>1. SubjectOf(x) = u
    BY <1>1, <1>2, <1>4 DEF SubjectOf
  <2> QED
    BY <1>1, <1>2, <1>4, <2>1, AuthAssumption DEF RequestOK, HoldingOK, HeldSince, Holding
<1>8. SessionOK(x) /\ HeaderOK(x)
  BY <1>4 DEF SessionOK, HeaderOK, PastCookie, PastBearer
<1> QED BY <1>3, <1>5, <1>6, <1>7, <1>8, OneRequest DEF RequestOK, UserFromStore

\* It is cached for no longer than CacheTTL and the time the request held it.
LEMMA UserCachedKeeps ==
  ASSUME AuthInv, NEW r \in Request, UserCached(r) PROVE AuthInv'
<1> DEFINE u == Subject(r)
           row == req[r].fresh
<1>1. u \in UserId /\ Known(u) /\ users[u] \in UserRow /\ u = SubjectOf(req[r])
  BY SubjectKnown DEF UserCached
<1>2. /\ row \in UserRow /\ HeldSince(req[r])
      /\ row.tv # users[u].tv => req[r].since <= users[u].bumped
  BY <1>1 DEF AuthInv, RequestOK, HoldingOK, UserCached, Holding
<1>3. now \in Nat /\ req[r].since \in Nat /\ users[u].bumped \in Nat
  BY <1>1 DEF AuthInv, AuthTypeOK, RequestRecord, UserRow
<1>4. row.tv # users[u].tv => now <= users[u].bumped + MaxFlight
  BY <1>2, <1>3, AuthAssumption DEF HeldSince
<1>5. row.tv # users[u].tv => now < users[u].bumped + CacheTTL + MaxFlight
  BY <1>3, <1>4, AuthAssumption
<1>6. PICK x \in RequestRecord : RequestOK(x) /\ Set(r, x)
  BY <1>1, <1>2, <1>5, ResolvedOK DEF UserCached
<1>7. userCache' \in [UserId -> [val : UserRow, exp : Nat] \cup {None}]
  BY <1>1, <1>2, <1>3, AuthAssumption DEF AuthInv, AuthTypeOK, UserCached, Put
<1>8. UserCacheOK'
  <2> SUFFICES ASSUME NEW k \in UserId, userCache'[k] # None
               PROVE  /\ users[k] # None
                      /\ userCache'[k].exp <= now + CacheTTL
                      /\ userCache'[k].val.tv # users[k].tv =>
                           userCache'[k].exp <= users[k].bumped + CacheTTL + MaxFlight
    BY DEF UserCacheOK, UserCached, Known
  <2>1. CASE k = u
    <3>1. userCache'[k] = [val |-> row, exp |-> now + CacheTTL]
      BY <1>1, <2>1 DEF UserCached, Put, AuthInv, AuthTypeOK
    <3> QED BY <1>1, <1>3, <1>4, <2>1, <3>1, AuthAssumption DEF Known
  <2>2. CASE k # u
    <3>1. userCache'[k] = userCache[k]
      BY <2>2 DEF UserCached, Put, AuthInv, AuthTypeOK
    <3> QED BY <3>1 DEF AuthInv, UserCacheOK, Known
  <2> QED BY <2>1, <2>2
<1>9. TokenCacheOK' /\ tokenCache' \in [TokenId -> [val : TokenRow, exp : Nat] \cup {None}]
  BY DEF AuthInv, AuthTypeOK, TokenCacheOK, UserCached
<1> QED BY <1>6, <1>7, <1>8, <1>9, OneRequestAndCaches DEF UserCached

\* Signature and times are looked at before the user.
LEMMA VerifySessionKeeps ==
  ASSUME AuthInv, NEW r \in Request, VerifySession(r) PROVE AuthInv'
<1> DEFINE x == [req[r] EXCEPT !.at = "subject"]
<1>1. CASE Reject(r, "unauthorized")
  BY <1>1, RejectKeeps DEF VerifySession, Answers
<1>2. CASE Set(r, x)
  <2>1. req[r] \in RequestRecord /\ RequestOK(req[r]) /\ req[r].at = "cookie"
    BY DEF AuthInv, AuthTypeOK, VerifySession
  <2>2. x \in RequestRecord
    BY <2>1 DEF RequestRecord, Stages
  <2>3. /\ x.at = "subject" /\ x.cred = req[r].cred /\ x.session = req[r].session
        /\ x.id = req[r].id /\ x.tokenAt = req[r].tokenAt
    BY <2>1 DEF RequestRecord
  <2>4. ArrivedOK(x) /\ BearerOK(x) /\ TokenOK(x)
    BY <2>1, <2>3 DEF RequestOK, ArrivedOK, BearerOK, TokenOK, PastBearer, Underway
  <2>5. HoldingOK(x) /\ SessionOK(x) /\ HeaderOK(x)
    BY <2>1, <2>3 DEF RequestOK, HoldingOK, SessionOK, HeaderOK, PastCookie, Holding
  <2> QED BY <1>2, <2>2, <2>4, <2>5, OneRequest DEF RequestOK, VerifySession
<1> QED BY <1>1, <1>2 DEF VerifySession

-----------------------------------------------------------------------------
(* The identity header.                                                    *)

\* The last credential: the request is served as u, whom all of them name.
\* The users may have grown meanwhile, by u.
LEMMA ConcludeOK ==
  ASSUME AuthInv, NEW r \in Request, NEW u \in UserId \cup {None}, Conclude(r, u),
         req[r].at \in {"header", "provision", "reread"},
         NEW e, e = req[r].cred.email,
         req[r].cred.trusted /\ req[r].cred.header = "one" =>
           u \in UserId /\ u \in GetUserByEmail(e)',
         u = None => req[r].id = None,
         UNCHANGED <<now, tokens, sessions>>,
         \A v \in UserId : Known(v) => users'[v] = users[v]
  PROVE  /\ req' \in [Request -> RequestRecord]
         /\ \A q \in Request : q # r => req'[q] = req[q]
         /\ RequestOK(req[r])'
<1>0. /\ req \in [Request -> RequestRecord] /\ RequestOK(req[r]) /\ now \in Nat
      /\ req[r].cred \in Credentials
  BY DEF AuthInv, AuthTypeOK, RequestOK, ArrivedOK, Underway
<1>1. CASE ~Agrees(r, u)
  <2> DEFINE x == [Idle EXCEPT !.at = "done", !.answer = "conflict"]
  <2>1. Set(r, x)
    BY <1>1 DEF Conclude, Accept, Reject
  <2>2. x \in RequestRecord
    BY DEF Idle, RequestRecord, Stages, Answers
  <2>3. req'[r] = x
    BY <1>0, <2>1 DEF Set
  <2>4. RequestOK(req[r])'
    BY <2>3 DEF Idle, RequestOK, ArrivedOK, BearerOK, TokenOK, HoldingOK, SessionOK, HeaderOK,
           Underway, PastBearer, PastCookie, Holding
  <2> QED BY <1>0, <2>1, <2>2, <2>4 DEF Set
<1>2. CASE Agrees(r, u)
  <2> DEFINE y == [req[r] EXCEPT !.at = "done", !.answer = IF u = None THEN "anonymous" ELSE "ok"]
             x == [y EXCEPT !.id = IF @ = None THEN u ELSE @, !.row = None, !.fresh = None, !.since = 0]
  <2>1. Set(r, x)
    BY <1>2 DEF Conclude, Accept
  <2>2. x \in RequestRecord
    <3>1. (IF u = None THEN "anonymous" ELSE "ok") \in Answers /\ "done" \in Stages
      BY DEF Answers, Stages
    <3>2. y \in RequestRecord /\ y.id = req[r].id
      BY <1>0, <3>1 DEF RequestRecord
    <3> HIDE DEF y
    <3> QED BY <3>2 DEF RequestRecord
  <2>3. req'[r] = x
    BY <1>0, <2>1 DEF Set
  <2>4. /\ x.at = "done" /\ x.cred = req[r].cred /\ x.session = req[r].session
        /\ x.answer = (IF u = None THEN "anonymous" ELSE "ok") /\ x.id = u
        /\ x.tokenAt = req[r].tokenAt /\ x.sessionAt = req[r].sessionAt
    <3>1. x.id = IF req[r].id = None THEN u ELSE req[r].id
      BY <1>0 DEF RequestRecord
    <3>2. x.id = u
      BY <1>2, <3>1 DEF Agrees
    <3> QED BY <1>0, <3>2 DEF RequestRecord
  <2>5. x.answer = "ok" => u # None /\ u \in UserId
    BY <2>4
  <2>6. ArrivedOK(req[r])' /\ BearerOK(req[r])'
    BY <1>0, <2>3, <2>4 DEF RequestOK, ArrivedOK, BearerOK, Underway
  <2>7. TokenOK(req[r])'
    <3> SUFFICES ASSUME x.answer = "ok", x.cred.bearer # None
                 PROVE  /\ tokens[x.cred.bearer] # None /\ tokens[x.cred.bearer].user = u
                        /\ TokenInTime(x.cred.bearer, x.tokenAt)
      BY <2>3, <2>4 DEF TokenOK, PastBearer, Underway, TokenInTime
    <3>1. /\ tokens[x.cred.bearer] # None /\ tokens[x.cred.bearer].user = req[r].id
          /\ TokenInTime(x.cred.bearer, x.tokenAt)
      BY <1>0, <2>4 DEF RequestOK, TokenOK, PastBearer, Underway
    <3>2. x.cred.bearer \in TokenId
      BY <1>0, <2>4 DEF Credentials
    <3>3. req[r].id # None
      BY <3>1, <3>2, AuthAssumption DEF AuthInv, AuthTypeOK, TokenRow
    <3> QED BY <1>2, <3>1, <3>3 DEF Agrees
  <2>8. HoldingOK(req[r])'
    BY <2>3, <2>4 DEF HoldingOK, Holding
  <2>9. SessionOK(req[r])'
    <3> SUFFICES ASSUME x.answer = "ok", x.cred.cookie
                 PROVE  /\ x.session.user = u /\ x.sessionAt <= now
                        /\ x.session.tv # users'[u].tv =>
                             x.sessionAt < users'[u].bumped + CacheTTL + MaxFlight
      BY <2>3, <2>4 DEF SessionOK, PastCookie, PastBearer, Underway, VersionInTime
    <3>1. x.session.user = req[r].id /\ VersionInTime(x.session.user, x.session.tv, x.sessionAt)
      BY <1>0, <2>4 DEF RequestOK, SessionOK, PastCookie, PastBearer, Underway
    <3>2. x.session \in sessions
      BY <1>0, <2>4 DEF RequestOK, ArrivedOK, Underway
    <3>3. Known(x.session.user) /\ x.session \in Session
      BY <3>2 DEF AuthInv, AuthTypeOK, RowsInOrder
    <3>4. req[r].id # None /\ users'[x.session.user] = users[x.session.user]
      BY <3>1, <3>3, AuthAssumption DEF Session
    <3> QED BY <1>2, <3>1, <3>4 DEF Agrees, VersionInTime
  <2>10. HeaderOK(req[r])'
    <3> SUFFICES ASSUME x.answer = "ok", x.cred.trusted, x.cred.header = "one"
                 PROVE  u \in GetUserByEmail(e)'
      BY <2>3, <2>4 DEF HeaderOK
    <3> QED BY <2>4
  <2> QED BY <1>0, <2>1, <2>2, <2>6, <2>7, <2>8, <2>9, <2>10 DEF Set, RequestOK
<1> QED BY <1>1, <1>2

\* Without new users, a concluded request keeps the invariant.
LEMMA ConcludeKeeps ==
  ASSUME AuthInv, NEW r \in Request, NEW u \in UserId \cup {None}, Conclude(r, u),
         req[r].at \in {"header", "provision", "reread"},
         req[r].cred.trusted /\ req[r].cred.header = "one" =>
           u \in UserId /\ u \in GetUserByEmail(req[r].cred.email),
         u = None => req[r].id = None,
         UNCHANGED <<now, users, tokens, sessions, tokenCache, userCache>>
  PROVE  AuthInv'
<1>1. PICK e : e = req[r].cred.email
  OBVIOUS
<1>2. req[r].cred.trusted /\ req[r].cred.header = "one" => u \in UserId /\ u \in GetUserByEmail(e)'
  BY <1>1 DEF GetUserByEmail, Known
<1>3. /\ req' \in [Request -> RequestRecord]
      /\ \A q \in Request : q # r => req'[q] = req[q]
      /\ RequestOK(req[r])'
  BY <1>1, <1>2, ConcludeOK
<1>4. PICK x \in RequestRecord : x = req'[r] /\ Set(r, x)
  BY <1>3 DEF AuthInv, AuthTypeOK, Set
<1>5. RequestOK(x)
  BY <1>3, <1>4 DEF RequestOK, ArrivedOK, BearerOK, TokenOK,
      HoldingOK, SessionOK, HeaderOK, Underway, PastBearer, PastCookie, HeldSince,
      TokenInTime, VersionInTime, SubjectOf, GetUserByEmail, Known
<1> QED BY <1>4, <1>5, OneRequest

\* A header that does not count, or one that is refused.
LEMMA HeaderRefusedKeeps ==
  ASSUME AuthInv, NEW r \in Request, HeaderRefused(r) PROVE AuthInv'
<1>1. CASE \E why \in Answers \ {"ok"} : Reject(r, why)
  BY <1>1, RejectKeeps DEF HeaderRefused
<1>2. CASE ~(req[r].cred.trusted /\ req[r].cred.header # "none") /\ Conclude(r, req[r].id)
  <2>1. req[r].id \in UserId \cup {None}
    BY DEF AuthInv, AuthTypeOK, RequestRecord
  <2> QED BY <1>2, <2>1, ConcludeKeeps DEF HeaderRefused
<1> QED BY <1>1, <1>2 DEF HeaderRefused, Answers

\* The user the header names is found, or is still to be created.
LEMMA FindByEmailKeeps ==
  ASSUME AuthInv, NEW r \in Request, FindByEmail(r) PROVE AuthInv'
<1> DEFINE x == [req[r] EXCEPT !.at = "provision"]
<1>1. ASSUME NEW u \in GetUserByEmail(req[r].cred.email), Conclude(r, u) PROVE AuthInv'
  <2>1. u \in UserId /\ u # None
    BY AuthAssumption DEF GetUserByEmail
  <2> QED BY <1>1, <2>1, ConcludeKeeps DEF FindByEmail
<1>2. CASE req[r].at = "header" /\ Set(r, x)
  <2>1. req[r] \in RequestRecord /\ RequestOK(req[r])
    BY DEF AuthInv, AuthTypeOK
  <2>2. x \in RequestRecord
    BY <2>1 DEF RequestRecord, Stages
  <2>3. /\ x.at = "provision" /\ x.cred = req[r].cred /\ x.session = req[r].session
        /\ x.id = req[r].id /\ x.tokenAt = req[r].tokenAt /\ x.sessionAt = req[r].sessionAt
    BY <2>1 DEF RequestRecord
  <2>4. ArrivedOK(x) /\ BearerOK(x) /\ TokenOK(x)
    BY <1>2, <2>1, <2>3 DEF RequestOK, ArrivedOK, BearerOK, TokenOK, PastBearer, Underway
  <2>5. HoldingOK(x) /\ HeaderOK(x)
    BY <2>3 DEF HoldingOK, HeaderOK, Holding, FindByEmail
  <2>6. SessionOK(x)
    BY <1>2, <2>1, <2>3 DEF RequestOK, SessionOK, PastCookie, PastBearer, Underway
  <2> QED BY <1>2, <2>2, <2>4, <2>5, <2>6, OneRequest DEF RequestOK, FindByEmail
<1> QED BY <1>1, <1>2 DEF FindByEmail

\* New users and new sessions do not disturb a request underway.
LEMMA TablesGrow ==
  ASSUME AuthInv, UNCHANGED <<now, tokens>>, sessions \subseteq sessions',
         users' \in [UserId -> UserRow \cup {None}],
         \A v \in UserId : Known(v) => users'[v] = users[v],
         NEW q \in Request, req'[q] = req[q]
  PROVE  RequestOK(req[q])'
<1>0. RequestOK(req[q])
  BY DEF AuthInv
<1>1. ArrivedOK(req[q])' /\ BearerOK(req[q])' /\ TokenOK(req[q])'
  BY <1>0 DEF RequestOK, ArrivedOK, BearerOK, TokenOK, Underway, PastBearer, TokenInTime
<1>2. HoldingOK(req[q])'
  <2>1. req[q].at \in {"ownerPut", "subjectPut"} =>
          users'[SubjectOf(req[q])] = users[SubjectOf(req[q])] /\ SubjectOf(req[q])' = SubjectOf(req[q])
    BY SubjectKnown DEF SubjectOf
  <2>2. req[q].at = "issue" => users'[req[q].id] = users[req[q].id]
    BY <1>0 DEF RequestOK, HoldingOK
  <2> QED BY <1>0, <2>1, <2>2 DEF RequestOK, HoldingOK, HeldSince, Known
<1>3. SessionOK(req[q])'
  <2> SUFFICES ASSUME PastCookie(req[q]), req[q].cred.cookie
               PROVE  /\ req[q].session.user = req[q].id
                      /\ VersionInTime(req[q].session.user, req[q].session.tv, req[q].sessionAt)'
    BY DEF SessionOK, PastCookie, PastBearer, Underway
  <2>1. req[q].session \in sessions
    BY <1>0 DEF RequestOK, ArrivedOK, PastCookie, PastBearer
  <2>2. Known(req[q].session.user) /\ req[q].session \in Session
    BY <2>1 DEF AuthInv, AuthTypeOK, RowsInOrder
  <2>3. users'[req[q].session.user] = users[req[q].session.user]
    BY <2>2 DEF Session
  <2> QED BY <1>0, <2>3 DEF RequestOK, SessionOK, VersionInTime
<1>4. HeaderOK(req[q])'
  BY <1>0 DEF RequestOK, HeaderOK, GetUserByEmail, Known
<1> QED BY <1>1, <1>2, <1>3, <1>4 DEF RequestOK

\* CreateUser gives the address to one user; who comes second reads again.
LEMMA ProvisionKeeps ==
  ASSUME AuthInv, NEW r \in Request, Provision(r) PROVE AuthInv'
<1>0. /\ req[r] \in RequestRecord /\ RequestOK(req[r]) /\ req[r].at = "provision"
      /\ req[r].cred \in Credentials
  BY DEF AuthInv, AuthTypeOK, Provision, RequestOK, ArrivedOK, Underway
<1>1. ASSUME NEW u \in UserId, ~Known(u), GetUserByEmail(req[r].cred.email) = {},
             users' = [users EXCEPT ![u] = NewUser(req[r].cred.email)], Conclude(r, u)
      PROVE  AuthInv'
  <2>1. PICK e \in Email : e = req[r].cred.email
    BY <1>0 DEF Credentials
  <2>2. NewUser(e) \in UserRow /\ NewUser(e) # None /\ NewUser(e).email = e /\ NewUser(e).bumped = 0
    <3>1. NewUser(e) \in UserRow /\ NewUser(e).email = e /\ NewUser(e).bumped = 0
      BY DEF NewUser, UserRow
    <3> QED BY <3>1, AuthAssumption
  <2>3. /\ users' \in [UserId -> UserRow \cup {None}]
        /\ users'[u] = NewUser(e)
        /\ \A v \in UserId : v # u => users'[v] = users[v]
    BY <1>1, <2>1, <2>2 DEF AuthInv, AuthTypeOK
  <2>4. \A v \in UserId : Known(v) => users'[v] = users[v]
    BY <1>1, <2>3
  <2>5. u \in GetUserByEmail(e)' /\ u # None
    BY <2>2, <2>3, AuthAssumption DEF GetUserByEmail, Known
  <2>6. /\ req' \in [Request -> RequestRecord]
        /\ \A q \in Request : q # r => req'[q] = req[q]
        /\ RequestOK(req[r])'
    BY <1>0, <1>1, <2>1, <2>4, <2>5, ConcludeOK DEF Provision
  <2>7. \A q \in Request : RequestOK(req[q])'
    BY <2>3, <2>4, <2>6, TablesGrow DEF Provision
  <2>8. EmailsUnique'
    <3>1. \A v \in UserId : Known(v) => Fold(users[v].email) # Fold(e)
      BY <1>1, <2>1 DEF GetUserByEmail
    <3> QED BY <2>2, <2>3, <3>1 DEF AuthInv, EmailsUnique, Known
  <2>9. RowsInOrder'
    <3>1. \A v \in UserId : Known(v)' => users'[v].bumped <= now'
      BY <2>2, <2>3 DEF AuthInv, AuthTypeOK, RowsInOrder, Known, Provision
    <3>2. \A t \in TokenId : tokens[t] # None => Known(tokens[t].user)'
      <4> SUFFICES ASSUME NEW t \in TokenId, tokens[t] # None PROVE Known(tokens[t].user)'
        OBVIOUS
      <4>1. tokens[t].user \in UserId /\ Known(tokens[t].user)
        BY DEF AuthInv, AuthTypeOK, RowsInOrder, TokenRow
      <4>2. users'[tokens[t].user] = users[tokens[t].user]
        BY <4>1, <2>4
      <4> QED BY <4>1, <4>2 DEF Known, Provision
    <3>3. \A x \in sessions : Known(x.user)'
      BY <2>2, <2>3 DEF AuthInv, AuthTypeOK, RowsInOrder, Known, Session
    <3> QED BY <3>1, <3>2, <3>3 DEF AuthInv, RowsInOrder, Provision
  <2>10. TokenCacheOK'
    BY DEF AuthInv, TokenCacheOK, Provision
  <2>11. UserCacheOK'
    BY <2>4 DEF AuthInv, UserCacheOK, Known, Provision
  <2>12. AuthTypeOK'
    BY <2>3, <2>6 DEF AuthInv, AuthTypeOK, Provision
  <2> QED BY <2>7, <2>8, <2>9, <2>10, <2>11, <2>12 DEF AuthInv
<1>2. CASE Set(r, [req[r] EXCEPT !.at = "reread"]) /\ UNCHANGED users
  <2> DEFINE x == [req[r] EXCEPT !.at = "reread"]
  <2>2. x \in RequestRecord
    BY <1>0 DEF RequestRecord, Stages
  <2>3. /\ x.at = "reread" /\ x.cred = req[r].cred /\ x.session = req[r].session
        /\ x.id = req[r].id /\ x.tokenAt = req[r].tokenAt /\ x.sessionAt = req[r].sessionAt
    BY <1>0 DEF RequestRecord
  <2>4. ArrivedOK(x) /\ BearerOK(x) /\ TokenOK(x)
    BY <1>0, <2>3 DEF RequestOK, ArrivedOK, BearerOK, TokenOK, PastBearer, Underway
  <2>5. HoldingOK(x) /\ HeaderOK(x)
    BY <1>0, <2>3 DEF RequestOK, HoldingOK, HeaderOK, Holding
  <2>6. SessionOK(x)
    BY <1>0, <2>3 DEF RequestOK, SessionOK, PastCookie, PastBearer, Underway
  <2> QED BY <1>2, <2>2, <2>4, <2>5, <2>6, OneRequest DEF RequestOK, Provision
<1> QED BY <1>1, <1>2 DEF Provision

-----------------------------------------------------------------------------
(* Sign-in.                                                                *)

\* A sign-in reads a user's row, or is refused.
LEMMA SigninKeeps == ASSUME AuthInv, NEW r \in Request, Signin(r) PROVE AuthInv'
<1>1. CASE Set(r, [Idle EXCEPT !.at = "done", !.answer = "unauthorized"])
  BY <1>1, RejectKeeps DEF Reject, Signin, Answers
<1>2. ASSUME NEW e \in Email, NEW u \in GetUserByEmail(e),
             Set(r, [Idle EXCEPT !.at = "issue", !.id = u, !.fresh = users[u], !.since = now])
      PROVE  AuthInv'
  <2> DEFINE x == [Idle EXCEPT !.at = "issue", !.id = u, !.fresh = users[u], !.since = now]
  <2>1. u \in UserId /\ Known(u) /\ users[u] \in UserRow /\ now \in Nat
    BY DEF AuthInv, AuthTypeOK, GetUserByEmail, Known
  <2>2. x \in RequestRecord
    BY <2>1 DEF Idle, RequestRecord, Stages, Answers
  <2>3. x.at = "issue" /\ x.id = u /\ x.fresh = users[u] /\ x.since = now
    BY DEF Idle
  <2>4. RequestOK(x)
    BY <2>1, <2>3, AuthAssumption DEF RequestOK, ArrivedOK, BearerOK, TokenOK, HoldingOK, SessionOK, HeaderOK,
           Underway, PastBearer, PastCookie, Holding, HeldSince
  <2> QED BY <1>2, <2>2, <2>4, OneRequest DEF Signin
<1> QED BY <1>1, <1>2 DEF Signin

\* The session that is issued names a stored user.
LEMMA IssueSessionKeeps == ASSUME AuthInv, NEW r \in Request, IssueSession(r) PROVE AuthInv'
<1> DEFINE x == [Idle EXCEPT !.at = "done", !.answer = "signed_in"]
           s == [user |-> req[r].id, tv |-> req[r].fresh.tv, exp |-> now + SessionTTL]
<1>1. req[r].id \in UserId /\ Known(req[r].id) /\ req[r].fresh \in UserRow /\ now \in Nat
  BY DEF AuthInv, AuthTypeOK, IssueSession, RequestOK, HoldingOK
<1>2. s \in Session /\ s.user = req[r].id
  BY <1>1, AuthAssumption DEF Session, UserRow
<1>3. sessions' = sessions \cup {s} /\ Set(r, x)
  BY DEF IssueSession
<1>4. x \in RequestRecord
  BY DEF Idle, RequestRecord, Stages, Answers
<1>5. /\ req' \in [Request -> RequestRecord] /\ req'[r] = x
      /\ \A q \in Request : q # r => req'[q] = req[q]
  BY <1>3, <1>4 DEF AuthInv, AuthTypeOK, Set
<1>6. RequestOK(req[r])'
  BY <1>5 DEF Idle, RequestOK, ArrivedOK, BearerOK, TokenOK, HoldingOK, SessionOK, HeaderOK,
         Underway, PastBearer, PastCookie, Holding
<1>7. \A q \in Request : RequestOK(req[q])'
  BY <1>3, <1>5, <1>6, TablesGrow DEF IssueSession, AuthInv, AuthTypeOK
<1>8. AuthTypeOK'
  BY <1>2, <1>3, <1>5 DEF AuthInv, AuthTypeOK, IssueSession
<1>9. EmailsUnique' /\ RowsInOrder' /\ TokenCacheOK' /\ UserCacheOK'
  <2>1. RowsInOrder'
    BY <1>1, <1>2, <1>3 DEF AuthInv, RowsInOrder, Known, IssueSession
  <2> QED BY <2>1 DEF AuthInv, EmailsUnique, TokenCacheOK, UserCacheOK, Known, IssueSession
<1> QED BY <1>7, <1>8, <1>9 DEF AuthInv

-----------------------------------------------------------------------------
(* The tables and the clock.                                               *)

\* A token that is created or revoked: nobody holds it for too long.
LEMMA TokenTableKeeps ==
  ASSUME AuthInv, UNCHANGED <<now, users, sessions, tokenCache, userCache, req>>,
         tokens' \in [TokenId -> TokenRow \cup {None}],
         \A t \in TokenId : tokens[t] # None =>
           /\ tokens'[t] # None /\ tokens'[t].user = tokens[t].user
           /\ tokens'[t].revoked # None => tokens'[t].revoked \in {tokens[t].revoked, now},
         \A t \in TokenId : tokens[t] # None /\ tokens[t].revoked # None =>
           tokens'[t].revoked = tokens[t].revoked,
         \A t \in TokenId : tokens[t] = None /\ tokens'[t] # None =>
           Known(tokens'[t].user) /\ tokens'[t].revoked = None
  PROVE  AuthInv'
<1>0. /\ now \in Nat /\ CacheTTL \in Nat \ {0} /\ MaxFlight \in Nat
      /\ req \in [Request -> RequestRecord]
      /\ \A t \in TokenId : tokens'[t] # None =>
           tokens'[t].user \in UserId /\ tokens'[t].revoked \in Nat \cup {None}
      /\ \A t \in TokenId : tokens[t] # None => tokens[t].revoked \in Nat \cup {None}
  BY AuthAssumption DEF AuthInv, AuthTypeOK, TokenRow
<1>1. AuthTypeOK'
  BY DEF AuthInv, AuthTypeOK
<1>2. EmailsUnique' /\ UserCacheOK'
  BY DEF AuthInv, EmailsUnique, UserCacheOK, Known
<1>3. RowsInOrder'
  <2>1. ASSUME NEW t \in TokenId, tokens'[t] # None
        PROVE  Known(tokens[t].user)' /\ (tokens'[t].revoked # None => tokens'[t].revoked <= now)
    <3>1. CASE tokens[t] = None
      BY <2>1, <3>1 DEF Known
    <3>2. CASE tokens[t] # None
      <4>1. Known(tokens[t].user) /\ (tokens[t].revoked # None => tokens[t].revoked <= now)
        BY <3>2 DEF AuthInv, RowsInOrder
      <4>2. Known(tokens[t].user)'
        BY <3>2, <4>1 DEF Known
      <4>3. ASSUME tokens'[t].revoked # None PROVE tokens'[t].revoked <= now
        BY <1>0, <3>2, <4>1, <4>3
      <4> QED BY <4>2, <4>3
    <3> QED BY <3>1, <3>2
  <2> QED BY <2>1 DEF AuthInv, RowsInOrder, Known
<1>4. TokenCacheOK'
  <2> SUFFICES ASSUME NEW t \in TokenId, tokenCache[t] # None
               PROVE  /\ tokens'[t] # None /\ tokenCache[t].val.user = tokens'[t].user
                      /\ tokenCache[t].val.revoked = None
                      /\ tokenCache[t].exp <= now + CacheTTL
                      /\ tokens'[t].revoked # None =>
                           tokenCache[t].exp <= tokens'[t].revoked + CacheTTL + MaxFlight
    BY DEF TokenCacheOK
  <2>1. /\ tokens[t] # None /\ tokenCache[t].val.user = tokens[t].user
        /\ tokenCache[t].val.revoked = None
        /\ tokenCache[t].exp <= now + CacheTTL /\ tokenCache[t].exp \in Nat
        /\ tokens[t].revoked # None => tokenCache[t].exp <= tokens[t].revoked + CacheTTL + MaxFlight
    BY DEF AuthInv, AuthTypeOK, TokenCacheOK
  <2>2. ASSUME tokens'[t].revoked # None
        PROVE  tokenCache[t].exp <= tokens'[t].revoked + CacheTTL + MaxFlight
    <3>1. CASE tokens[t].revoked # None
      BY <2>1, <3>1
    <3>2. CASE tokens[t].revoked = None
      <4>1. tokens'[t].revoked = now
        BY <2>1, <2>2, <3>2
      <4> QED BY <1>0, <2>1, <4>1
    <3> QED BY <3>1, <3>2
  <2> QED BY <2>1, <2>2
<1>5. ASSUME NEW t \in TokenId, tokens[t] # None, NEW a \in Nat, TokenInTime(t, a)
      PROVE  a <= now /\ (tokens'[t].revoked # None => a < tokens'[t].revoked + CacheTTL + MaxFlight)
  <2>1. a <= now
    BY <1>5 DEF TokenInTime
  <2>2. CASE tokens[t].revoked # None
    BY <1>5, <2>1, <2>2 DEF TokenInTime
  <2>3. CASE tokens[t].revoked = None
    <3>1. tokens'[t].revoked # None => tokens'[t].revoked = now
      BY <1>5, <2>3
    <3> QED BY <1>0, <2>1, <3>1
  <2> QED BY <2>2, <2>3
<1>6. ASSUME NEW r \in Request PROVE RequestOK(req[r])'
  <2>0. RequestOK(req[r]) /\ req[r].tokenAt \in Nat
    BY <1>0 DEF AuthInv, RequestRecord
  <2>1. ArrivedOK(req[r])' /\ HoldingOK(req[r])' /\ SessionOK(req[r])' /\ HeaderOK(req[r])'
    BY <2>0 DEF RequestOK, ArrivedOK, HoldingOK, SessionOK, HeaderOK, Underway, PastBearer,
           PastCookie, HeldSince, VersionInTime, SubjectOf, Known, GetUserByEmail
  <2>2. TokenOK(req[r])'
    <3> SUFFICES ASSUME PastBearer(req[r]), req[r].cred.bearer # None
                 PROVE  /\ tokens'[req[r].cred.bearer] # None
                        /\ tokens'[req[r].cred.bearer].user = req[r].id
                        /\ TokenInTime(req[r].cred.bearer, req[r].tokenAt)'
      BY DEF TokenOK, PastBearer, Underway
    <3>1. req[r].cred.bearer \in TokenId
      BY <2>0 DEF RequestOK, ArrivedOK, PastBearer, Credentials
    <3>2. /\ tokens[req[r].cred.bearer] # None /\ tokens[req[r].cred.bearer].user = req[r].id
          /\ TokenInTime(req[r].cred.bearer, req[r].tokenAt)
      BY <2>0 DEF RequestOK, TokenOK
    <3> QED BY <1>5, <2>0, <3>1, <3>2 DEF TokenInTime
  <2>3. BearerOK(req[r])'
    <3> SUFFICES ASSUME req[r].at \in {"bearer", "check", "owner", "ownerPut"}
                 PROVE  BearerOK(req[r])'
      BY DEF BearerOK
    <3> DEFINE t == req[r].cred.bearer
    <3>1. t \in TokenId /\ req[r].id = None
      BY <2>0 DEF RequestOK, BearerOK
    <3>2. req[r].at # "bearer" =>
            /\ req[r].row \in TokenRow /\ tokens[t] # None /\ tokens'[t] # None
            /\ req[r].row.user = tokens'[t].user
      BY <2>0, <3>1 DEF RequestOK, BearerOK
    <3>3. ASSUME req[r].at = "check", req[r].row.revoked = None, tokens'[t].revoked # None
          PROVE  req[r].since <= tokens'[t].revoked
      <4>1. req[r].since <= now
        BY <2>0, <3>3 DEF RequestOK, HoldingOK, Holding, HeldSince
      <4>2. CASE tokens[t].revoked # None
        BY <2>0, <3>1, <3>2, <3>3, <4>2 DEF RequestOK, BearerOK
      <4>3. CASE tokens[t].revoked = None
        BY <3>1, <3>2, <3>3, <4>1, <4>3
      <4> QED BY <4>2, <4>3
    <3>4. req[r].at \in {"owner", "ownerPut"} => TokenInTime(req[r].cred.bearer, req[r].tokenAt)'
      BY <1>5, <2>0, <3>1, <3>2 DEF RequestOK, BearerOK, TokenInTime
    <3> QED BY <3>1, <3>2, <3>3, <3>4 DEF BearerOK
  <2> QED BY <2>1, <2>2, <2>3 DEF RequestOK
<1> QED BY <1>1, <1>2, <1>3, <1>4, <1>6 DEF AuthInv

\* A new token belongs to a stored user and is not revoked.
LEMMA CreateTokenKeeps ==
  ASSUME AuthInv, NEW u \in UserId, NEW t \in TokenId, CreateToken(u, t) PROVE AuthInv'
<1>1. PICK e \in Expiries : tokens' = [tokens EXCEPT ![t] = NewToken(u, e)]
  BY DEF CreateToken
<1>2. NewToken(u, e) \in TokenRow /\ NewToken(u, e).user = u /\ NewToken(u, e).revoked = None
  BY DEF NewToken, TokenRow, Expiries, AuthInv, AuthTypeOK
<1>3. /\ tokens' \in [TokenId -> TokenRow \cup {None}] /\ tokens'[t] = NewToken(u, e)
      /\ \A x \in TokenId : x # t => tokens'[x] = tokens[x]
  BY <1>1, <1>2 DEF AuthInv, AuthTypeOK
<1> QED BY <1>2, <1>3, TokenTableKeeps DEF CreateToken, Known

\* A revocation keeps the row, and its first time.
LEMMA RevokeTokenKeeps ==
  ASSUME AuthInv, NEW t \in TokenId, RevokeToken(t) PROVE AuthInv'
<1>1. tokens[t] \in TokenRow /\ now \in Nat
  BY DEF AuthInv, AuthTypeOK, RevokeToken
<1>2. /\ Revoked(tokens[t]) \in TokenRow /\ Revoked(tokens[t]).user = tokens[t].user
      /\ Revoked(tokens[t]).revoked = IF tokens[t].revoked = None THEN now ELSE tokens[t].revoked
  BY <1>1 DEF Revoked, TokenRow
<1>3. Revoked(tokens[t]) # None
  BY <1>2, AuthAssumption
<1>4. /\ tokens' \in [TokenId -> TokenRow \cup {None}] /\ tokens'[t] = Revoked(tokens[t])
      /\ \A x \in TokenId : x # t => tokens'[x] = tokens[x]
  BY <1>2 DEF AuthInv, AuthTypeOK, RevokeToken
<1> QED BY <1>2, <1>3, <1>4, TokenTableKeeps DEF RevokeToken

\* An incremented token_version: what was read before it is used soon or never.
LEMMA BumpTokenVersionKeeps ==
  ASSUME AuthInv, NEW u \in UserId, BumpTokenVersion(u) PROVE AuthInv'
<1>0. /\ now \in Nat /\ CacheTTL \in Nat \ {0} /\ MaxFlight \in Nat
      /\ req \in [Request -> RequestRecord] /\ users[u] \in UserRow /\ users[u] # None
      /\ users \in [UserId -> UserRow \cup {None}]
      /\ UNCHANGED <<now, tokens, sessions, tokenCache, userCache, req>>
  BY AuthAssumption DEF AuthInv, AuthTypeOK, BumpTokenVersion, Known
<1> DEFINE y == [users[u] EXCEPT !.tv = @ + 1, !.bumped = now]
<1>1. y \in UserRow /\ y.email = users[u].email /\ y.bumped = now
  <2>1. users[u].tv \in Nat /\ users[u].tv + 1 \in Nat
    BY <1>0 DEF UserRow
  <2> DEFINE w == [users[u] EXCEPT !.tv = users[u].tv + 1]
  <2>2. y = [w EXCEPT !.bumped = now]
    OBVIOUS
  <2>3. w \in UserRow /\ w.email = users[u].email
    BY <1>0, <2>1 DEF UserRow
  <2> HIDE DEF w
  <2> QED BY <1>0, <2>2, <2>3 DEF UserRow
<1>2. y # None
  BY <1>1, AuthAssumption
<1>3. users' = [users EXCEPT ![u] = y]
  <2>1. users' = [users EXCEPT ![u].tv = @ + 1, ![u].bumped = now]
    BY DEF BumpTokenVersion
  <2> QED BY <1>0, <2>1 DEF UserRow
<1> HIDE DEF y
<1>4. /\ users' \in [UserId -> UserRow \cup {None}]
      /\ \A v \in UserId :
           /\ users'[v] = None <=> users[v] = None
           /\ users[v] # None => users'[v].email = users[v].email
           /\ users'[v] = users[v] \/ users'[v].bumped = now
  BY <1>0, <1>1, <1>2, <1>3
<1>5. \A v \in UserId : Known(v)' <=> Known(v)
  BY <1>4 DEF Known
<1>6. AuthTypeOK'
  BY <1>0, <1>4 DEF AuthInv, AuthTypeOK
<1>7. EmailsUnique'
  BY <1>4, <1>5 DEF AuthInv, EmailsUnique, Known
<1>8. RowsInOrder'
  <2>1. \A v \in UserId : Known(v)' => users'[v].bumped <= now
    BY <1>0, <1>4, <1>5 DEF AuthInv, RowsInOrder
  <2>2. \A t \in TokenId : tokens[t] # None => tokens[t].user \in UserId /\ Known(tokens[t].user)
    BY DEF AuthInv, AuthTypeOK, RowsInOrder, TokenRow
  <2>3. \A s \in sessions : s.user \in UserId /\ Known(s.user)
    BY DEF AuthInv, AuthTypeOK, RowsInOrder, Session
  <2>4. \A t \in TokenId : tokens[t] # None => users'[tokens[t].user] # None
    BY <1>4, <2>2 DEF Known
  <2>5. \A s \in sessions : users'[s.user] # None
    BY <1>4, <2>3 DEF Known
  <2> QED BY <1>0, <2>1, <2>4, <2>5 DEF AuthInv, RowsInOrder, Known
<1>9. TokenCacheOK'
  BY <1>0 DEF AuthInv, TokenCacheOK
<1>10. UserCacheOK'
  <2> SUFFICES ASSUME NEW v \in UserId, userCache[v] # None
               PROVE  /\ Known(v)' /\ userCache[v].exp <= now + CacheTTL
                      /\ userCache[v].val.tv # users'[v].tv =>
                           userCache[v].exp <= users'[v].bumped + CacheTTL + MaxFlight
    BY <1>0 DEF UserCacheOK
  <2>1. /\ Known(v) /\ userCache[v].exp <= now + CacheTTL /\ userCache[v].exp \in Nat
        /\ userCache[v].val.tv # users[v].tv =>
             userCache[v].exp <= users[v].bumped + CacheTTL + MaxFlight
    BY DEF AuthInv, AuthTypeOK, UserCacheOK
  <2>2. CASE users'[v] = users[v]
    BY <1>5, <2>1, <2>2
  <2>3. CASE users'[v].bumped = now
    BY <1>0, <1>5, <2>1, <2>3
  <2> QED BY <1>4, <2>2, <2>3
<1>11. ASSUME NEW r \in Request PROVE RequestOK(req[r])'
  <2>0. RequestOK(req[r]) /\ req[r].sessionAt \in Nat /\ req[r].since \in Nat
    BY <1>0 DEF AuthInv, RequestRecord
  <2>1. ArrivedOK(req[r])' /\ BearerOK(req[r])' /\ TokenOK(req[r])'
    BY <1>0, <2>0 DEF RequestOK, ArrivedOK, BearerOK, TokenOK, Underway, PastBearer, TokenInTime
  <2>2. HeaderOK(req[r])'
    BY <1>0, <1>4, <1>5, <2>0 DEF RequestOK, HeaderOK, GetUserByEmail
  <2>3. SessionOK(req[r])'
    <3> SUFFICES ASSUME PastCookie(req[r]), req[r].cred.cookie
                 PROVE  /\ req[r].session.user = req[r].id
                        /\ VersionInTime(req[r].session.user, req[r].session.tv, req[r].sessionAt)'
      BY <1>0 DEF SessionOK, PastCookie, PastBearer, Underway
    <3>1. /\ req[r].session.user = req[r].id
          /\ VersionInTime(req[r].session.user, req[r].session.tv, req[r].sessionAt)
      BY <2>0 DEF RequestOK, SessionOK
    <3>2. req[r].session \in sessions
      BY <2>0 DEF RequestOK, ArrivedOK, PastCookie, PastBearer
    <3>3. req[r].session.user \in UserId
      BY <3>2 DEF AuthInv, AuthTypeOK, Session
    <3>4. CASE users'[req[r].session.user] = users[req[r].session.user]
      BY <1>0, <3>1, <3>4 DEF VersionInTime
    <3>5. CASE users'[req[r].session.user].bumped = now
      BY <1>0, <2>0, <3>1, <3>5 DEF VersionInTime
    <3> QED BY <1>4, <3>3, <3>4, <3>5
  <2>4. HoldingOK(req[r])'
    <3>1. ASSUME req[r].at \in {"ownerPut", "subjectPut"}, req[r].fresh.tv # users'[SubjectOf(req[r])].tv
          PROVE  req[r].since <= users'[SubjectOf(req[r])].bumped
      <4>1. SubjectOf(req[r]) \in UserId
        BY <3>1, SubjectKnown DEF SubjectOf
      <4>2. CASE users'[SubjectOf(req[r])] = users[SubjectOf(req[r])]
        BY <2>0, <3>1, <4>2 DEF RequestOK, HoldingOK
      <4>3. CASE users'[SubjectOf(req[r])].bumped = now
        BY <2>0, <3>1, <4>3 DEF RequestOK, HoldingOK, HeldSince, Holding
      <4> QED BY <1>4, <4>1, <4>2, <4>3
    <3>2. SubjectOf(req[r])' = SubjectOf(req[r])
      BY <1>0 DEF SubjectOf
    <3>3. req[r].at = "issue" => Known(req[r].id)'
      BY <1>0, <1>4, <2>0 DEF RequestOK, HoldingOK, Known
    <3> QED BY <1>0, <2>0, <3>1, <3>2, <3>3 DEF RequestOK, HoldingOK, HeldSince
  <2> QED BY <2>1, <2>2, <2>3, <2>4 DEF RequestOK
<1> QED BY <1>6, <1>7, <1>8, <1>9, <1>10, <1>11 DEF AuthInv

\* Time passes: entries expire, and nobody holds a row for too long.
LEMMA TickKeeps == ASSUME AuthInv, Tick PROVE AuthInv'
<1>0. /\ now \in Nat /\ now' = now + 1 /\ CacheTTL \in Nat \ {0} /\ MaxFlight \in Nat
      /\ req \in [Request -> RequestRecord]
      /\ UNCHANGED <<users, tokens, sessions, req>>
      /\ tokenCache \in [TokenId -> [val : TokenRow, exp : Nat] \cup {None}]
      /\ userCache \in [UserId -> [val : UserRow, exp : Nat] \cup {None}]
  BY AuthAssumption DEF AuthInv, AuthTypeOK, Tick
<1>1. /\ tokenCache' \in [TokenId -> [val : TokenRow, exp : Nat] \cup {None}]
      /\ \A t \in TokenId : tokenCache'[t] # None => tokenCache'[t] = tokenCache[t]
  BY <1>0 DEF Tick, Swept
<1>2. /\ userCache' \in [UserId -> [val : UserRow, exp : Nat] \cup {None}]
      /\ \A u \in UserId : userCache'[u] # None => userCache'[u] = userCache[u]
  BY <1>0 DEF Tick, Swept
<1>3. AuthTypeOK'
  BY <1>0, <1>1, <1>2 DEF AuthInv, AuthTypeOK
<1>4. EmailsUnique'
  BY <1>0 DEF AuthInv, EmailsUnique, Known
<1>5. RowsInOrder'
  <2>1. \A u \in UserId : Known(u) => users[u].bumped \in Nat
    BY DEF AuthInv, AuthTypeOK, UserRow, Known
  <2>2. \A t \in TokenId : tokens[t] # None /\ tokens[t].revoked # None => tokens[t].revoked \in Nat
    BY DEF AuthInv, AuthTypeOK, TokenRow
  <2> QED BY <1>0, <2>1, <2>2 DEF AuthInv, RowsInOrder, Known
<1>6. TokenCacheOK'
  <2>1. \A t \in TokenId : tokenCache[t] # None => tokenCache[t].exp \in Nat
    BY <1>0
  <2> QED BY <1>0, <1>1, <2>1 DEF AuthInv, TokenCacheOK
<1>7. UserCacheOK'
  <2>1. \A u \in UserId : userCache[u] # None => userCache[u].exp \in Nat
    BY <1>0
  <2> QED BY <1>0, <1>2, <2>1 DEF AuthInv, UserCacheOK, Known
<1>8. ASSUME NEW r \in Request PROVE RequestOK(req[r])'
  <2>0. /\ RequestOK(req[r]) /\ req[r].sessionAt \in Nat /\ req[r].tokenAt \in Nat
        /\ req[r].since \in Nat
    BY <1>0 DEF AuthInv, RequestRecord
  <2>1. ArrivedOK(req[r])' /\ HeaderOK(req[r])'
    BY <1>0, <2>0 DEF RequestOK, ArrivedOK, HeaderOK, Underway, GetUserByEmail, Known
  <2>2. BearerOK(req[r])' /\ TokenOK(req[r])'
    BY <1>0, <2>0 DEF RequestOK, BearerOK, TokenOK, Underway, PastBearer, TokenInTime
  <2>3. SessionOK(req[r])'
    BY <1>0, <2>0 DEF RequestOK, SessionOK, PastCookie, Underway, PastBearer, VersionInTime
  <2>4. req[r].at \in Holding => HeldSince(req[r])'
    BY <1>0, <2>0 DEF RequestOK, HoldingOK, HeldSince, Tick
  <2>5. HoldingOK(req[r])'
    BY <1>0, <2>0, <2>4 DEF RequestOK, HoldingOK, SubjectOf, Known
  <2> QED BY <2>1, <2>2, <2>3, <2>5 DEF RequestOK
<1> QED BY <1>3, <1>4, <1>5, <1>6, <1>7, <1>8 DEF AuthInv

-----------------------------------------------------------------------------
(* The theorems.                                                           *)

\* Every step of every request, and of the tables and the clock, keeps the
\* invariant.
LEMMA NextKeeps == ASSUME AuthInv, [AuthNext]_authVars PROVE AuthInv'
<1>1. CASE Tick
  BY <1>1, TickKeeps
<1>2. ASSUME NEW t \in TokenId, RevokeToken(t) \/ \E u \in UserId : CreateToken(u, t)
      PROVE  AuthInv'
  BY <1>2, RevokeTokenKeeps, CreateTokenKeeps
<1>3. ASSUME NEW u \in UserId, BumpTokenVersion(u) PROVE AuthInv'
  BY <1>3, BumpTokenVersionKeeps
<1>4. ASSUME NEW r \in Request,
             \/ Arrive(r) \/ TokenFromCache(r) \/ TokenFromStore(r) \/ TokenChecked(r)
             \/ UserFromCache(r) \/ UserFromStore(r) \/ UserCached(r)
      PROVE  AuthInv'
  BY <1>4, ArriveKeeps, TokenFromCacheKeeps, TokenFromStoreKeeps, TokenCheckedKeeps,
     UserFromCacheKeeps, UserFromStoreKeeps, UserCachedKeeps
<1>5. ASSUME NEW r \in Request,
             \/ VerifySession(r) \/ HeaderRefused(r) \/ FindByEmail(r) \/ Provision(r)
             \/ Signin(r) \/ IssueSession(r)
      PROVE  AuthInv'
  BY <1>5, VerifySessionKeeps, HeaderRefusedKeeps, FindByEmailKeeps, ProvisionKeeps,
     SigninKeeps, IssueSessionKeeps
<1>6. CASE UNCHANGED authVars
  <2>1. AuthTypeOK' /\ EmailsUnique' /\ RowsInOrder' /\ TokenCacheOK' /\ UserCacheOK'
    BY <1>6 DEF authVars, AuthInv, AuthTypeOK, EmailsUnique, RowsInOrder, TokenCacheOK, UserCacheOK, Known
  <2>2. ASSUME NEW r \in Request PROVE RequestOK(req[r])'
    <3>1. RequestOK(req[r])
      BY DEF AuthInv
    <3> QED BY <1>6, <3>1 DEF authVars, RequestOK, ArrivedOK, BearerOK, TokenOK, HoldingOK, SessionOK,
               HeaderOK, Underway, PastBearer, PastCookie, HeldSince, TokenInTime, VersionInTime,
               SubjectOf, GetUserByEmail, Known
  <2> QED BY <2>1, <2>2 DEF AuthInv
<1> QED BY <1>1, <1>2, <1>3, <1>4, <1>5, <1>6 DEF AuthNext

\* The invariant holds of every behaviour.
LEMMA AuthInvHolds == AuthSpec => []AuthInv
  BY InitOK, NextKeeps, PTL DEF AuthSpec

\* However long requests hold what they read and whichever fills a cache last,
\* a revoked token is honoured for at most CacheTTL + MaxFlight: verifyToken's
\* cache has that bound even though a revocation tells it nothing.
THEOREM RevocationTheorem == AuthSpec => []RevocationLapses
<1>1. AuthInv => RevocationLapses
  BY DEF AuthInv, RevocationLapses, Served, RequestOK, TokenOK, PastBearer, Underway, TokenInTime
<1> QED BY <1>1, AuthInvHolds, PTL

\* A session whose token_version was superseded is honoured no longer than that.
THEOREM SessionTheorem == AuthSpec => []SessionLapses
<1>1. AuthInv => SessionLapses
  BY DEF AuthInv, SessionLapses, Served, RequestOK, SessionOK, PastCookie, PastBearer, Underway, VersionInTime
<1> QED BY <1>1, AuthInvHolds, PTL

\* forwardAuthUser: the unique index and the second read give one address one user.
THEOREM IdentityTheorem == AuthSpec => []OneIdentityPerEmail
<1>1. AuthInv => OneIdentityPerEmail
  <2> SUFFICES ASSUME AuthInv, NEW r \in Request, NEW q \in Request,
                      Served(r), req[r].cred.trusted, req[r].cred.header = "one",
                      Served(q), req[q].cred.trusted, req[q].cred.header = "one",
                      Fold(req[r].cred.email) = Fold(req[q].cred.email)
               PROVE  req[r].id = req[q].id /\ Known(req[r].id)
    BY DEF OneIdentityPerEmail
  <2>1. req[r].id \in GetUserByEmail(req[r].cred.email) /\ req[q].id \in GetUserByEmail(req[q].cred.email)
    BY DEF AuthInv, RequestOK, HeaderOK, Served
  <2> QED BY <2>1 DEF AuthInv, EmailsUnique, GetUserByEmail
<1> QED BY <1>1, AuthInvHolds, PTL

\* resolve: however the credentials were read, they all name the user served.
THEOREM AgreementTheorem == AuthSpec => []CredentialsAgree
<1>1. AuthInv => CredentialsAgree
  BY DEF AuthInv, CredentialsAgree, Served, RequestOK, TokenOK, SessionOK, HeaderOK, PastCookie, PastBearer, Underway
<1> QED BY <1>1, AuthInvHolds, PTL
=============================================================================
