------------------------------- MODULE Auth -------------------------------
(***************************************************************************)
(* The one credential-verification path (internal/auth), step by step: the *)
(* Middleware resolves every credential a request carries (a bearer token, *)
(* a session cookie, a forward-auth header), reading users and tokens      *)
(* through two positive caches that other requests fill at the same time.  *)
(*                                                                         *)
(* A store read and the cache write that follows it are separate steps: a  *)
(* revocation can commit between them.                                     *)
(***************************************************************************)
EXTENDS Naturals, FiniteSets

CONSTANTS
  UserId, TokenId, Email, Request,
  Fold(_),         \* lower(email): what the unique index users_email_ci compares
  Admin,           \* the user Bootstrap created
  AdminEmail,
  None,
  Presented,       \* the credentials requests carry, a subset of Credentials
  CacheTTL,        \* DefaultCacheTTL
  SessionTTL,
  ClockLeeway,
  MaxFlight,       \* longest a request takes between a store read and the use of it
  MaxTime,         \* bound: the clock stops there
  MaxRequests,     \* bound: requests in a behaviour
  MaxSessions,     \* bound: no sign-in once there are that many sessions
  MaxBumps         \* bound: users whose token_version was incremented

VARIABLES
  now,
  users,        \* [UserId -> row or None]
  tokens,       \* [TokenId -> row or None]
  sessions,     \* the session JWTs signed so far
  tokenCache,   \* [TokenId -> [val, exp] or None]: Authenticator.tokens
  userCache,    \* [UserId -> [val, exp] or None]: Authenticator.users
  req,          \* [Request -> where it is]
  requests      \* how many have arrived

authVars == <<now, users, tokens, sessions, tokenCache, userCache, req, requests>>

(* bumped is when token_version last changed: history the code does not     *)
(* keep, for the property about it.                                         *)
UserRow == [email : Email, password : BOOLEAN, tv : Nat, bumped : Nat]

TokenRow == [user : UserId, revoked : Nat \cup {None}, expires : Nat \cup {None}]

Session == [user : UserId, tv : Nat, exp : Nat]

(* Identity header: how many values, and how the one value looks.           *)
HeaderForm == {"none", "one", "repeated", "joined", "malformed"}

Credentials == [bearer : TokenId \cup {None}, cookie : BOOLEAN, trusted : BOOLEAN,
                header : HeaderForm, email : Email]

ASSUME AuthAssumption ==
  /\ None \notin UserId \cup TokenId \cup UserRow \cup TokenRow
  /\ Admin \in UserId /\ AdminEmail \in Email
  /\ Presented \subseteq Credentials
  /\ CacheTTL \in Nat \ {0} /\ SessionTTL \in Nat \ {0}
  /\ ClockLeeway \in Nat /\ MaxFlight \in Nat

(* at is the step a request is at, id the user its credentials name so far;  *)
(* row and fresh are a token and a user it has read and since when it holds  *)
(* them; tokenAt and sessionAt are when those credentials were judged good.  *)
Idle == [at |-> "idle", cred |-> None, session |-> None, row |-> None, fresh |-> None,
         since |-> 0, id |-> None, tokenAt |-> 0, sessionAt |-> 0, answer |-> "none"]

-----------------------------------------------------------------------------
(* Tables.                                                                 *)

Known(u) == users[u] # None

GetUserByEmail(e) == {u \in UserId : Known(u) /\ Fold(users[u].email) = Fold(e)}

NewUser(e) == [email |-> e, password |-> FALSE, tv |-> 0, bumped |-> 0]

NewToken(u, e) == [user |-> u, revoked |-> None, expires |-> e]

\* COALESCE(revoked_at, now): the first revocation time is kept.
Revoked(row) == [row EXCEPT !.revoked = IF @ = None THEN now ELSE @]

\* The expiries a new token may have: v1 insists on one in the future or none,
\* the console's form takes any, and none when it cannot read the date.
Expiries == {None, now, now + 1}

\* CreateToken stores the hash of the secret.
CreateToken(u, t) ==
  /\ Known(u) /\ tokens[t] = None
  /\ \E e \in Expiries :
       tokens' = [tokens EXCEPT ![t] = NewToken(u, e)]
  /\ UNCHANGED <<now, users, sessions, tokenCache, userCache, req, requests>>

\* DELETE /v1/tokens/{id}, by its owner; neither cache is told.
RevokeToken(t) ==
  /\ tokens[t] # None
  /\ tokens' = [tokens EXCEPT ![t] = Revoked(@)]
  /\ UNCHANGED <<now, users, sessions, tokenCache, userCache, req, requests>>

\* No handler calls BumpTokenVersion yet; the store offers it to the operator.
BumpTokenVersion(u) ==
  /\ Known(u) /\ Cardinality({v \in UserId : Known(v) /\ users[v].tv > 0}) < MaxBumps
  /\ users' = [users EXCEPT ![u].tv = @ + 1, ![u].bumped = now]
  /\ UNCHANGED <<now, tokens, sessions, tokenCache, userCache, req, requests>>

\* ttlCache.get: an entry at or past its expiry is a miss.
Hit(cache, k) == cache[k] # None /\ now < cache[k].exp

\* Mutant: twice the TTL.
BugPutTwice(cache, k, v) == [cache EXCEPT ![k] = [val |-> v, exp |-> now + 2 * CacheTTL]]

\* ttlCache.put.
Put(cache, k, v) == [cache EXCEPT ![k] = [val |-> v, exp |-> now + CacheTTL]]

-----------------------------------------------------------------------------
(* A request.                                                              *)

Set(r, x) == req' = [req EXCEPT ![r] = x]

Reject(r, why) == Set(r, [Idle EXCEPT !.at = "done", !.answer = why])

\* The order of resolve: bearer, then cookie, then the header of a trusted peer.
AfterBearer(c) == IF c.cookie THEN "cookie" ELSE "header"

\* Mutant: a credential that disagrees with an earlier one is ignored.
BugFirstWins(r, u) == TRUE

\* accept: the first credential names the caller, every other must agree.
Agrees(r, u) == req[r].id \in {None, u}

\* x is the request after a credential of u was found good.
Accept(r, u, x) ==
  IF Agrees(r, u)
  THEN Set(r, [x EXCEPT !.id = IF @ = None THEN u ELSE @, !.row = None, !.fresh = None, !.since = 0])
  ELSE Reject(r, "conflict")

Arrive(r) ==
  /\ req[r].at \in {"idle", "done"} /\ requests < MaxRequests
  /\ requests' = requests + 1
  /\ \E c \in Presented :
       \E s \in IF c.cookie THEN sessions ELSE {None} :
         Set(r, [Idle EXCEPT !.cred = c, !.session = s,
                   !.at = IF c.bearer # None THEN "bearer" ELSE AfterBearer(c)])
  /\ UNCHANGED <<now, users, tokens, sessions, tokenCache, userCache>>

(* verifyToken.                                                            *)

Expired(t) == t.expires # None /\ now >= t.expires

\* Where verifyToken goes with a row: refused, or on to its owner.
Verdict(r, t) ==
  CASE t.revoked # None -> Reject(r, "revoked")
    [] t.revoked = None /\ Expired(t) -> Reject(r, "unauthorized")
    [] OTHER -> Set(r, [req[r] EXCEPT !.at = "owner", !.row = t, !.tokenAt = now])

TokenFromCache(r) ==
  LET id == req[r].cred.bearer IN
  /\ req[r].at = "bearer" /\ Hit(tokenCache, id)
  /\ Verdict(r, tokenCache[id].val)
  /\ UNCHANGED <<now, users, tokens, sessions, tokenCache, userCache, requests>>

TokenFromStore(r) ==
  LET id == req[r].cred.bearer IN
  /\ req[r].at = "bearer" /\ ~Hit(tokenCache, id)
  /\ \/ tokens[id] = None /\ Reject(r, "unauthorized")
     \/ /\ tokens[id] # None
        /\ Set(r, [req[r] EXCEPT !.at = "check", !.row = tokens[id], !.since = now])
  /\ UNCHANGED <<now, users, tokens, sessions, tokenCache, userCache, requests>>

\* The row read earlier is judged and, when good, cached for a whole TTL from now.
TokenChecked(r) ==
  LET id == req[r].cred.bearer
      t  == req[r].row IN
  /\ req[r].at = "check"
  /\ Verdict(r, t)
  /\ tokenCache' = IF t.revoked = None /\ ~Expired(t) THEN Put(tokenCache, id, t)
                   ELSE tokenCache
  /\ UNCHANGED <<now, users, tokens, sessions, userCache, requests>>

(* userByID, for the token's owner and for the session's subject.           *)

Subject(r) == IF req[r].at \in {"owner", "ownerPut"} THEN req[r].row.user ELSE req[r].session.user

\* Mutant: the tv claim is not compared.
BugIgnoreVersion(r, u, row) ==
  IF req[r].at \in {"owner", "ownerPut"}
  THEN Accept(r, u, [req[r] EXCEPT !.at = AfterBearer(req[r].cred)])
  ELSE Accept(r, u, [req[r] EXCEPT !.at = "header", !.sessionAt = now])

Resolved(r, u, row) ==
  CASE req[r].at \in {"owner", "ownerPut"} ->
         Accept(r, u, [req[r] EXCEPT !.at = AfterBearer(req[r].cred)])
    [] OTHER -> IF row.tv = req[r].session.tv
                THEN Accept(r, u, [req[r] EXCEPT !.at = "header", !.sessionAt = now])
                ELSE Reject(r, "unauthorized")

UserFromCache(r) ==
  /\ req[r].at \in {"owner", "subject"}
  /\ Hit(userCache, Subject(r))
  /\ Resolved(r, Subject(r), userCache[Subject(r)].val)
  /\ UNCHANGED <<now, users, tokens, sessions, tokenCache, userCache, requests>>

UserFromStore(r) ==
  /\ req[r].at \in {"owner", "subject"}
  /\ ~Hit(userCache, Subject(r))
  /\ Set(r, [req[r] EXCEPT !.at = IF @ = "owner" THEN "ownerPut" ELSE "subjectPut",
                           !.fresh = users[Subject(r)], !.since = now])
  /\ UNCHANGED <<now, users, tokens, sessions, tokenCache, userCache, requests>>

UserCached(r) ==
  /\ req[r].at \in {"ownerPut", "subjectPut"}
  /\ userCache' = Put(userCache, Subject(r), req[r].fresh)
  /\ Resolved(r, Subject(r), req[r].fresh)
  /\ UNCHANGED <<now, users, tokens, sessions, tokenCache, requests>>

\* verifySession: signature and times first, then the user's token_version.
VerifySession(r) ==
  /\ req[r].at = "cookie"
  /\ \/ now >= req[r].session.exp + ClockLeeway /\ Reject(r, "unauthorized")
     \/ /\ now < req[r].session.exp + ClockLeeway
        /\ Set(r, [req[r] EXCEPT !.at = "subject"])
  /\ UNCHANGED <<now, users, tokens, sessions, tokenCache, userCache, requests>>

(* The identity header and forwardAuthUser.                                *)

\* The last credential has been looked at: u owns it (None: there was none).
Conclude(r, u) ==
  Accept(r, u, [req[r] EXCEPT !.at = "done",
                  !.answer = IF u = None THEN "anonymous" ELSE "ok"])

\* No header, or one from a peer outside the trusted networks, adds nothing; a
\* repeated or comma-joined one is a conflict.
HeaderRefused(r) ==
  LET c == req[r].cred
      counts == c.trusted /\ c.header # "none" IN
  /\ req[r].at = "header"
  /\ \/ ~counts /\ Conclude(r, req[r].id)
     \/ counts /\ c.header = "malformed" /\ Reject(r, "unauthorized")
     \/ counts /\ c.header \in {"repeated", "joined"} /\ Reject(r, "conflict")
  /\ UNCHANGED <<now, users, tokens, sessions, tokenCache, userCache, requests>>

FindByEmail(r) ==
  LET c == req[r].cred IN
  /\ req[r].at \in {"header", "reread"} /\ c.trusted /\ c.header = "one"
  /\ \/ \E u \in GetUserByEmail(c.email) : Conclude(r, u)
     \/ /\ GetUserByEmail(c.email) = {} /\ req[r].at = "header"
        /\ Set(r, [req[r] EXCEPT !.at = "provision"])
  /\ UNCHANGED <<now, users, tokens, sessions, tokenCache, userCache, requests>>

\* Mutant: the loser of the race goes on with the user it failed to insert.
BugLoserKeepsOwn(r) ==
  /\ req[r].at = "provision"
  /\ \E u \in {v \in UserId : ~Known(v)} :
       /\ users' = IF GetUserByEmail(req[r].cred.email) = {}
                   THEN [users EXCEPT ![u] = NewUser(req[r].cred.email)] ELSE users
       /\ Conclude(r, u)
  /\ UNCHANGED <<now, tokens, sessions, tokenCache, userCache, requests>>

\* CreateUser with a new id; a conflict on the index sends the loser to re-read.
Provision(r) ==
  /\ req[r].at = "provision"
  /\ \/ /\ GetUserByEmail(req[r].cred.email) = {}
        /\ \E u \in {v \in UserId : ~Known(v)} :
             /\ users' = [users EXCEPT ![u] = NewUser(req[r].cred.email)]
             /\ Conclude(r, u)
     \/ /\ GetUserByEmail(req[r].cred.email) # {}
        /\ Set(r, [req[r] EXCEPT !.at = "reread"])
        /\ UNCHANGED users
  /\ UNCHANGED <<now, tokens, sessions, tokenCache, userCache, requests>>

-----------------------------------------------------------------------------
(* Sign-in: one store read, the password, then a signed session.            *)

Signin(r) ==
  /\ req[r].at \in {"idle", "done"} /\ Cardinality(sessions) < MaxSessions
  /\ \E e \in Email, right \in BOOLEAN :
       LET found == GetUserByEmail(e) IN
       \/ /\ \/ found = {} \/ \E u \in found : ~users[u].password
             \/ ~right
          /\ Set(r, [Idle EXCEPT !.at = "done", !.answer = "unauthorized"])
       \/ \E u \in found : /\ users[u].password /\ right
                           /\ Set(r, [Idle EXCEPT !.at = "issue", !.id = u,
                                        !.fresh = users[u], !.since = now])
  /\ UNCHANGED <<now, users, tokens, sessions, tokenCache, userCache, requests>>

IssueSession(r) ==
  /\ req[r].at = "issue"
  /\ sessions' = sessions \cup
       {[user |-> req[r].id, tv |-> req[r].fresh.tv, exp |-> now + SessionTTL]}
  /\ Set(r, [Idle EXCEPT !.at = "done", !.answer = "signed_in"])
  /\ UNCHANGED <<now, users, tokens, tokenCache, userCache, requests>>

\* Reset to first start: the admin account, nothing cached.
AuthInit ==
  /\ now = 0
  /\ users = [u \in UserId |-> IF u = Admin
                THEN [NewUser(AdminEmail) EXCEPT !.password = TRUE] ELSE None]
  /\ tokens = [t \in TokenId |-> None] /\ sessions = {}
  /\ tokenCache = [t \in TokenId |-> None] /\ userCache = [u \in UserId |-> None]
  /\ req = [r \in Request |-> Idle] /\ requests = 0

Holding == {"check", "ownerPut", "subjectPut", "issue"}

\* An entry no get can hit any more is the same as none.
Swept(cache) ==
  [k \in DOMAIN cache |->
     IF cache[k] # None /\ now + 1 >= cache[k].exp THEN None ELSE cache[k]]

\* Time does not pass a request that has held a row for MaxFlight.
Tick ==
  /\ now < MaxTime
  /\ \A r \in Request : req[r].at \in Holding => now - req[r].since < MaxFlight
  /\ now' = now + 1
  /\ tokenCache' = Swept(tokenCache) /\ userCache' = Swept(userCache)
  /\ UNCHANGED <<users, tokens, sessions, req, requests>>

AuthNext ==
  \/ Tick
  \/ \E t \in TokenId : RevokeToken(t) \/ \E u \in UserId : CreateToken(u, t)
  \/ \E u \in UserId : BumpTokenVersion(u)
  \/ \E r \in Request :
       \/ Arrive(r) \/ TokenFromCache(r) \/ TokenFromStore(r) \/ TokenChecked(r)
       \/ UserFromCache(r) \/ UserFromStore(r) \/ UserCached(r)
       \/ VerifySession(r) \/ HeaderRefused(r) \/ FindByEmail(r) \/ Provision(r)
       \/ Signin(r) \/ IssueSession(r)

AuthSpec == AuthInit /\ [][AuthNext]_authVars

-----------------------------------------------------------------------------
(* Properties.                                                             *)

Served(r) == req[r].at = "done" /\ req[r].answer = "ok"

\* A revoked token stops working: no request is served on a token that was
\* revoked CacheTTL or more ago, give or take the time a request may hold the
\* row it read before the revocation and then cache it for a whole TTL.
RevocationLapses ==
  \A r \in Request : LET t == req[r].cred.bearer IN
    (Served(r) /\ t # None /\ tokens[t].revoked # None) =>
      req[r].tokenAt < tokens[t].revoked + CacheTTL + MaxFlight

\* So does a session whose token_version was superseded.
SessionLapses ==
  \A r \in Request :
    (Served(r) /\ req[r].cred.cookie /\ req[r].session.tv # users[req[r].session.user].tv) =>
      req[r].sessionAt < users[req[r].session.user].bumped + CacheTTL + MaxFlight

\* Requests that assert one e-mail address, in any letter case and at the same
\* moment, are served as one stored user.
OneIdentityPerEmail ==
  \A r, q \in Request :
    LET asserts(x) == Served(x) /\ req[x].cred.trusted /\ req[x].cred.header = "one" IN
    (asserts(r) /\ asserts(q) /\ Fold(req[r].cred.email) = Fold(req[q].cred.email)) =>
      req[r].id = req[q].id /\ Known(req[r].id)

\* A served request carries no credential of anyone but the user it acts as.
CredentialsAgree ==
  \A r \in Request : Served(r) =>
    /\ req[r].cred.bearer # None => tokens[req[r].cred.bearer].user = req[r].id
    /\ req[r].cred.cookie => req[r].session.user = req[r].id
    /\ (req[r].cred.trusted /\ req[r].cred.header = "one") =>
         req[r].id \in GetUserByEmail(req[r].cred.email)
=============================================================================
