-------------------------------- MODULE Gate --------------------------------
(***************************************************************************)
(* What stands between a request and its handler: the route groups and     *)
(* their chains (internal/httpapi/router.go), the identity middleware, the *)
(* CSRF check of the API and the console's own guard, and the sign-in      *)
(* limiter both password forms share.  A browser keeps its session cookie  *)
(* between requests.                                                       *)
(***************************************************************************)
EXTENDS RateLimiter

CONSTANT
    QrPublic        \* ephemeral.public: /v1/qr serves anonymous requests

VARIABLES
    jar,        \* the session cookie in each peer's browser: none, live or dead
    last,       \* the last request answered, and its answer
    stale       \* requests refused for a dead cookie since the last other answer

gateVars == <<now, buckets, credit, jar, last, stale>>

Route == {"scan", "signin", "qr", "api", "admin", "signout", "ui", "ui_signin", "ui_signout"}
Methods == {"GET", "POST", "DELETE"}

\* Signing in and out are posted; a scan is fetched; releasing an alias is a DELETE.
MethodsOf(route) ==
    CASE route = "scan" -> {"GET"}
      [] route \in {"signin", "signout", "ui_signout"} -> {"POST"}
      [] route \in {"qr", "ui_signin"} -> {"GET", "POST"}
      [] route = "admin" -> {"DELETE"}
      [] OTHER -> Methods

Routes ==
    [public    |-> {"scan", "signin"},
     protected |-> {"qr", "api", "admin", "signout"},
     console   |-> {"ui", "ui_signin", "ui_signout"}]

\* The header matters to a mutation, and being an administrator to one route.
Call == {c \in [peer : Peers, route : Route, method : Methods, header : BOOLEAN,
                bearer : BOOLEAN, admin : BOOLEAN] :
           /\ c.method \in MethodsOf(c.route)
           /\ c.method = "GET" => ~c.header
           /\ c.route # "admin" => ~c.admin}

Quiet == [out |-> "none"]

GateInit ==
    /\ NewRateLimiter
    /\ jar = [p \in Peers |-> "none"]
    /\ last = Quiet
    /\ stale = [p \in Peers |-> 0]

----------------------------------------------------------------------------
(* The chains *)

\* auth.Method: how the request authenticates.  A bearer token is looked at
\* first, and a dead cookie next to it is refused all the same.
Method(c) == IF jar[c.peer] = "dead" THEN "invalid"
             ELSE IF c.bearer THEN "bearer"
             ELSE IF jar[c.peer] = "live" THEN "cookie" ELSE "none"

Mutating(c) == c.method # "GET"

\* Bug: only POST counts as a mutation.
BugOnlyPost(c) == c.method = "POST" /\ Method(c) = "cookie" /\ ~c.header

CSRF(c) == Mutating(c) /\ Method(c) = "cookie" /\ ~c.header

RequireAuth(c) == IF Method(c) = "none" THEN "unauthorized" ELSE "handled"

RequireAdmin(c) ==
    IF Method(c) = "none" THEN "unauthorized" ELSE IF c.admin THEN "handled" ELSE "forbidden"

\* The handlers behind the protected chain; /v1/qr decides for itself.
ServeHTTP(c) ==
    CASE c.route = "qr" -> IF QrPublic THEN "handled" ELSE RequireAuth(c)
      [] c.route = "admin" -> RequireAdmin(c)
      [] OTHER -> RequireAuth(c)

\* The console redirects the anonymous to the sign-in page, and wants the
\* header on every mutation, whatever the credential.
requireAuth(c) ==
    IF Method(c) = "none" THEN "redirect"
    ELSE IF Mutating(c) /\ ~c.header THEN "forbidden" ELSE "handled"

\* Does this request enter a password?
Limited(c) == c.route = "signin" \/ (c.route = "ui_signin" /\ c.method = "POST")

Limiter(c) == IF Allowed(c.peer) THEN "handled" ELSE "limited"

\* Auth wraps the protected and the console group and never the public one;
\* CSRF wraps the protected group alone.
NewRouter(c) ==
    CASE c.route \in Routes.public -> IF Limited(c) THEN Limiter(c) ELSE "handled"
      [] c.route \notin Routes.public /\ Method(c) = "invalid" -> "unauthorized"
      [] c.route \in Routes.protected /\ Method(c) # "invalid" ->
           IF CSRF(c) THEN "forbidden" ELSE ServeHTTP(c)
      [] c.route \in Routes.console /\ Method(c) # "invalid" ->
           IF Limited(c) THEN Limiter(c)
           ELSE IF c.route = "ui_signin" THEN "handled" ELSE requireAuth(c)

----------------------------------------------------------------------------
(* Answering *)

\* The cookie the browser is left with: reject clears one that is not valid,
\* signing out clears it, and a password that is right sets one.
Cookie(c, out) ==
    LET set(v) == [jar EXCEPT ![c.peer] = v]
    IN  CASE out = "handled" /\ Limited(c) -> {jar, set("live")}
          [] out = "handled" /\ c.route \in {"signout", "ui_signout"} -> {set("none")}
          [] out = "unauthorized" /\ Method(c) = "invalid" -> {set("none")}
          [] OTHER -> {jar}

Reaches(c) == c.route \in Routes.public \/ Method(c) # "invalid"

Serve(c) ==
    LET out == NewRouter(c)
    IN  /\ jar' \in Cookie(c, out)
        /\ last' = [route |-> c.route, method |-> c.method, header |-> c.header,
                    cred |-> Method(c), out |-> out]
        /\ stale' = [stale EXCEPT ![c.peer] =
                       IF c.route \in Routes.public THEN @
                       ELSE IF Method(c) = "invalid" THEN @ + 1 ELSE 0]
        /\ IF Limited(c) /\ Reaches(c) THEN Request(c.peer) ELSE UNCHANGED limiterVars

\* The session of a browser expires or is ended elsewhere.
SessionDies(p) ==
    /\ jar[p] = "live"
    /\ jar' = [jar EXCEPT ![p] = "dead"]
    /\ stale' = [stale EXCEPT ![p] = 0]
    /\ UNCHANGED <<now, buckets, credit, last>>

GateNext ==
    \/ \E c \in Call : Serve(c)
    \/ \E p \in Peers : SessionDies(p)
    \/ (Clock \/ evictLoop) /\ UNCHANGED <<jar, last, stale>>

----------------------------------------------------------------------------
(***************************************************************************)
(* What gets through, for every route and credential: a change made on the *)
(* strength of a cookie carries the console's header in the API and in the *)
(* console alike; nothing but the public routes, the sign-in page and a    *)
(* public /v1/qr serves the anonymous; a scan is answered whatever the     *)
(* browser holds; and a session that died costs its browser one refused    *)
(* request (auth/middleware.go:113, "clear it so the next request is       *)
(* anonymous").                                                            *)
(***************************************************************************)
GateHolds ==
    /\ last # Quiet =>
         LET open == Routes.public \cup {"ui_signin"}
         IN  /\ last.out = "handled" /\ last.cred = "cookie" /\ last.route \notin open
                  => last.method = "GET" \/ last.header
             /\ last.out = "handled" /\ last.cred = "none"
                  => last.route \in open \/ (last.route = "qr" /\ QrPublic)
             /\ last.route = "scan" => last.out = "handled"
    /\ \A p \in Peers : stale[p] <= 1
=============================================================================
