----------------------------- MODULE FrontProofs ----------------------------
(***************************************************************************)
(* Proofs about the request side for every rate, set of peers, page size,  *)
(* set of codes and request: the limiter is exact, nothing passes the gate *)
(* that should not, a listing shows each code once, and an image is given  *)
(* exactly when the schema accepts the request, with a symbol that can be  *)
(* read.                                                                   *)
(***************************************************************************)
EXTENDS Front, FiniteSetTheorems, WellFoundedInduction, TLAPS

-----------------------------------------------------------------------------
(* The rate limiter                                                        *)

\* The inductive invariant: the types, stamps that are not in the future, and
\* the agreement with the credit.
LimiterInv ==
    /\ now \in Nat
    /\ DOMAIN buckets \subseteq Peers
    /\ buckets \in [DOMAIN buckets -> Bucket]
    /\ \A p \in DOMAIN buckets : buckets[p].last <= now
    /\ credit \in [Peers -> 0..Minute]
    /\ \A p \in Peers : Refilled(p) = credit[p]

\* The burst is a positive number of units.
LEMMA MinuteIsPositive == Minute \in Nat /\ Minute >= Cost /\ Minute > 0
BY RateAssumption, Z3 DEF Minute

\* A new limiter knows no peer and owes each a full burst.
LEMMA LimiterInitially == NewRateLimiter => LimiterInv
BY MinuteIsPositive DEF NewRateLimiter, LimiterInv, Refilled, Bucket

\* Time passing fills the bucket and the credit alike.
LEMMA ClockKeeps == LimiterInv /\ Clock => LimiterInv'
<1> SUFFICES ASSUME LimiterInv, Clock PROVE LimiterInv'
  OBVIOUS
<1>1. /\ now \in Nat /\ now' = now + 1 /\ buckets' = buckets
      /\ credit' = [p \in Peers |-> LeastOf(Minute, credit[p] + 1)]
  BY DEF LimiterInv, Clock
<1>2. credit' \in [Peers -> 0..Minute]
  BY <1>1, MinuteIsPositive DEF LimiterInv, LeastOf
<1>3. ASSUME NEW p \in Peers PROVE Refilled(p)' = credit'[p]
  <2>1. Refilled(p) = credit[p] /\ credit[p] \in 0..Minute
    BY DEF LimiterInv
  <2>2. CASE p \in DOMAIN buckets
    <3>1. buckets[p].tokens \in 0..Minute /\ buckets[p].last \in Nat /\ buckets[p].last <= now
      BY <2>2 DEF LimiterInv, Bucket
    <3> QED
      BY <1>1, <2>1, <2>2, <3>1, MinuteIsPositive DEF Refilled, LeastOf
  <2>3. CASE p \notin DOMAIN buckets
    BY <1>1, <2>1, <2>3, MinuteIsPositive DEF Refilled, LeastOf
  <2> QED BY <2>2, <2>3
<1>4. \A p \in DOMAIN buckets' : buckets'[p].last <= now'
  BY <1>1 DEF LimiterInv, Bucket
<1>5. DOMAIN buckets' \subseteq Peers /\ buckets' \in [DOMAIN buckets' -> Bucket]
  BY <1>1 DEF LimiterInv
<1> QED
  BY <1>1, <1>2, <1>3, <1>4, <1>5 DEF LimiterInv

\* Dropping a bucket idle for ten minutes drops one that is full again.
LEMMA EvictionKeeps == LimiterInv /\ evictLoop => LimiterInv'
<1> SUFFICES ASSUME LimiterInv, evictLoop PROVE LimiterInv'
  OBVIOUS
<1> DEFINE idle == {p \in DOMAIN buckets : buckets[p].last < now - 10 * Minute}
<1>1. /\ buckets' = [p \in DOMAIN buckets \ idle |-> buckets[p]]
      /\ now' = now /\ credit' = credit /\ now \in Nat
  BY DEF LimiterInv, evictLoop
<1>2. DOMAIN buckets' = DOMAIN buckets \ idle
  BY <1>1
<1>3. ASSUME NEW p \in Peers PROVE Refilled(p)' = credit'[p]
  <2>1. Refilled(p) = credit[p]
    BY DEF LimiterInv
  <2>2. CASE p \in idle
    <3>1. /\ buckets[p].tokens \in 0..Minute /\ buckets[p].last \in Nat
          /\ buckets[p].last < now - 10 * Minute /\ p \in DOMAIN buckets
      BY <2>2 DEF LimiterInv, Bucket
    <3>2. Refilled(p) = Minute
      BY <1>1, <3>1, MinuteIsPositive DEF Refilled, LeastOf
    <3> QED
      BY <1>1, <1>2, <2>1, <2>2, <3>2 DEF Refilled
  <2>3. CASE p \notin idle
    BY <1>1, <1>2, <2>1, <2>3 DEF Refilled
  <2> QED BY <2>2, <2>3
<1>4. DOMAIN buckets' \subseteq Peers /\ buckets' \in [DOMAIN buckets' -> Bucket]
  BY <1>1, <1>2 DEF LimiterInv
<1>5. \A p \in DOMAIN buckets' : buckets'[p].last <= now'
  BY <1>1, <1>2 DEF LimiterInv
<1> QED
  BY <1>1, <1>3, <1>4, <1>5 DEF LimiterInv

\* A request takes its cost from both or from neither.
LEMMA RequestKeeps == ASSUME LimiterInv, NEW p \in Peers, Request(p) PROVE LimiterInv'
<1> DEFINE left == Refilled(p) - IF Allowed(p) THEN Cost ELSE 0
<1>1. /\ DOMAIN buckets' = DOMAIN buckets \cup {p}
      /\ buckets'[p] = [tokens |-> left, last |-> now]
      /\ \A q \in DOMAIN buckets : q # p => buckets'[q] = buckets[q]
      /\ buckets' = [q \in DOMAIN buckets' |-> buckets'[q]]
      /\ now' = now /\ now \in Nat
  BY DEF LimiterInv, Request, allow
<1>2. Refilled(p) = credit[p] /\ credit[p] \in 0..Minute /\ credit \in [Peers -> 0..Minute]
  BY DEF LimiterInv
<1>3. left \in 0..Minute
  BY <1>2, MinuteIsPositive, RateAssumption DEF Allowed
<1>4. /\ credit' \in [Peers -> 0..Minute]
      /\ credit'[p] = left
      /\ \A q \in Peers : q # p => credit'[q] = credit[q]
  BY <1>2, <1>3 DEF Request
<1>5. \A q \in Peers : Refilled(q)' = credit'[q]
  <2> SUFFICES ASSUME NEW q \in Peers PROVE Refilled(q)' = credit'[q]
    OBVIOUS
  <2>1. CASE q = p
    BY <1>1, <1>3, <1>4, <2>1, MinuteIsPositive DEF Refilled, LeastOf
  <2>2. CASE q # p
    BY <1>1, <1>4, <2>2 DEF Refilled, LimiterInv
  <2> QED BY <2>1, <2>2
<1>6. DOMAIN buckets' \subseteq Peers /\ buckets' \in [DOMAIN buckets' -> Bucket]
  BY <1>1, <1>3 DEF LimiterInv, Bucket
<1>7. \A q \in DOMAIN buckets' : buckets'[q].last <= now'
  BY <1>1 DEF LimiterInv
<1> QED
  BY <1>1, <1>4, <1>5, <1>6, <1>7 DEF LimiterInv

\* For every rate, refilling a bucket on demand and forgetting idle peers
\* (allow and evictLoop) admit and refuse what a bucket kept up to date would.
THEOREM LimiterExact == LimiterSpec => []LimiterIsExact
<1>1. LimiterInv /\ [LimiterNext]_limiterVars => LimiterInv'
  <2> SUFFICES ASSUME LimiterInv, [LimiterNext]_limiterVars PROVE LimiterInv'
    OBVIOUS
  <2>1. CASE UNCHANGED limiterVars
    BY <2>1 DEF LimiterInv, limiterVars, Refilled
  <2>2. CASE LimiterNext
    BY <2>2, ClockKeeps, EvictionKeeps, RequestKeeps DEF LimiterNext
  <2> QED BY <2>1, <2>2
<1>2. LimiterInv => LimiterIsExact
  BY DEF LimiterInv, LimiterIsExact
<1> QED
  BY LimiterInitially, <1>1, <1>2, PTL DEF LimiterSpec

-----------------------------------------------------------------------------
(* The gate                                                                *)

Jars == {"none", "live", "dead"}

\* A cookie that died has not been refused yet: the refusal clears it.
GateInv ==
    /\ jar \in [Peers -> Jars]
    /\ stale \in [Peers -> 0..1]
    /\ \A p \in Peers : jar[p] = "dead" => stale[p] = 0
    /\ GateHolds

\* No browser has a cookie yet, and nothing has been answered.
LEMMA GateInitially == GateInit => GateInv
<1> SUFFICES ASSUME GateInit PROVE GateInv
  OBVIOUS
<1>1. /\ jar = [p \in Peers |-> "none"] /\ stale = [p \in Peers |-> 0] /\ last = Quiet
  BY DEF GateInit
<1> QED BY <1>1 DEF GateInv, GateHolds, Jars

\* Beyond the public routes a dead cookie is refused.
LEMMA InvalidRefused ==
    ASSUME NEW c \in Call, Method(c) = "invalid", c.route \notin Routes.public
    PROVE  NewRouter(c) = "unauthorized"
BY DEF NewRouter

\* What NewRouter lets through, for every route and credential.
LEMMA RouterGuards ==
    ASSUME NEW c \in Call
    PROVE  LET open == Routes.public \cup {"ui_signin"}
           IN  /\ NewRouter(c) = "handled" /\ Method(c) = "cookie" /\ c.route \notin open
                    => c.method = "GET" \/ c.header
               /\ NewRouter(c) = "handled" /\ Method(c) = "none"
                    => c.route \in open \/ (c.route = "qr" /\ QrPublic)
               /\ c.route = "scan" => NewRouter(c) = "handled"
<1>1. c.route \in Route /\ c.method \in MethodsOf(c.route)
  BY DEF Call
<1>2. /\ Routes.public = {"scan", "signin"}
      /\ Routes.protected = {"qr", "api", "admin", "signout"}
      /\ Routes.console = {"ui", "ui_signin", "ui_signout"}
  BY DEF Routes
<1>3. CASE c.route \in Routes.public
  BY <1>2, <1>3 DEF NewRouter, Limited
<1>4. CASE c.route \notin Routes.public /\ Method(c) = "invalid"
  BY <1>2, <1>4 DEF NewRouter
<1>5. CASE c.route \in Routes.protected /\ Method(c) # "invalid"
  <2>1. NewRouter(c) = IF CSRF(c) THEN "forbidden" ELSE ServeHTTP(c)
    BY <1>2, <1>5 DEF NewRouter
  <2>2. Method(c) = "cookie" /\ NewRouter(c) = "handled" => c.method = "GET" \/ c.header
    BY <2>1 DEF CSRF, Mutating
  <2>3. Method(c) = "none" /\ NewRouter(c) = "handled" => c.route = "qr" /\ QrPublic
    BY <2>1, <1>2, <1>5 DEF ServeHTTP, RequireAuth, RequireAdmin
  <2> QED BY <2>2, <2>3, <1>2, <1>5
<1>6. CASE c.route \in Routes.console /\ Method(c) # "invalid"
  <2>1. NewRouter(c) = IF Limited(c) THEN Limiter(c)
                       ELSE IF c.route = "ui_signin" THEN "handled" ELSE requireAuth(c)
    BY <1>2, <1>6 DEF NewRouter
  <2>2. c.route # "ui_signin" => ~Limited(c)
    BY <1>2, <1>6 DEF Limited
  <2> QED BY <2>1, <2>2, <1>2, <1>6 DEF requireAuth, Mutating
<1> QED BY <1>1, <1>2, <1>3, <1>4, <1>5, <1>6 DEF Route

\* Answering a request.
LEMMA ServeKeeps == ASSUME GateInv, NEW c \in Call, Serve(c) PROVE GateInv'
<1>1. c.peer \in Peers
  BY DEF Call
<1> DEFINE p == c.peer
           out == NewRouter(c)
<1>2. /\ jar' \in Cookie(c, out)
      /\ last' = [route |-> c.route, method |-> c.method, header |-> c.header,
                  cred |-> Method(c), out |-> out]
      /\ stale' = [stale EXCEPT ![p] = IF c.route \in Routes.public THEN @
                     ELSE IF Method(c) = "invalid" THEN @ + 1 ELSE 0]
  BY DEF Serve
<1>3. jar' \in {jar, [jar EXCEPT ![p] = "live"], [jar EXCEPT ![p] = "none"]}
  BY <1>2 DEF Cookie
<1>4. jar' \in [Peers -> Jars]
  BY <1>1, <1>3 DEF GateInv, Jars
<1>5. Method(c) = "invalid" <=> jar[p] = "dead"
  BY DEF Method
<1>6. stale \in [Peers -> 0..1] /\ jar \in [Peers -> Jars]
  BY DEF GateInv
<1>7. \A q \in Peers : q # p => jar'[q] = jar[q] /\ stale'[q] = stale[q]
  BY <1>1, <1>2, <1>3, <1>6
<1>13. stale'[p] = IF c.route \in Routes.public THEN stale[p]
                  ELSE IF Method(c) = "invalid" THEN stale[p] + 1 ELSE 0
  BY <1>1, <1>2, <1>6
<1>8. jar'[p] \in {jar[p], "live", "none"}
  BY <1>1, <1>3, <1>6
<1>9. stale'[p] \in 0..1 /\ (jar'[p] = "dead" => stale'[p] = 0)
  <2>1. CASE c.route \in Routes.public
    BY <2>1, <1>1, <1>6, <1>8, <1>13 DEF GateInv
  <2>2. CASE c.route \notin Routes.public /\ Method(c) = "invalid"
    <3>1. stale[p] = 0
      BY <1>1, <1>5, <2>2 DEF GateInv
    <3>2. out = "unauthorized"
      BY <2>2, InvalidRefused
    <3>3. jar' = [jar EXCEPT ![p] = "none"]
      BY <1>2, <3>2, <2>2 DEF Cookie
    <3> QED BY <1>1, <1>6, <1>13, <2>2, <3>1, <3>3
  <2>3. CASE c.route \notin Routes.public /\ Method(c) # "invalid"
    BY <2>3, <1>13
  <2> QED BY <2>1, <2>2, <2>3
<1>10. stale' \in [Peers -> 0..1]
  <2>1. stale' = [q \in Peers |-> stale'[q]]
    BY <1>2, <1>6
  <2> QED BY <2>1, <1>6, <1>7, <1>9
<1>11. \A q \in Peers : jar'[q] = "dead" => stale'[q] = 0
  BY <1>7, <1>9 DEF GateInv
<1>12. GateHolds'
  <2>1. /\ last'.route = c.route /\ last'.method = c.method /\ last'.header = c.header
        /\ last'.cred = Method(c) /\ last'.out = out
    BY <1>2
  <2>2. \A q \in Peers : stale'[q] <= 1
    BY <1>10
  <2> HIDE DEF out
  <2>3. \/ out # "handled" \/ Method(c) # "cookie" \/ c.route \in Routes.public \cup {"ui_signin"}
        \/ c.method = "GET" \/ c.header
    BY RouterGuards DEF out
  <2>4. out = "handled" /\ Method(c) = "none"
           => \/ c.route \in Routes.public \cup {"ui_signin"}
              \/ c.route = "qr" /\ QrPublic
    BY RouterGuards DEF out
  <2>5. c.route = "scan" => out = "handled"
    BY RouterGuards DEF out
  <2> QED BY Zenon, <2>1, <2>2, <2>3, <2>4, <2>5 DEF GateHolds
<1> QED BY <1>4, <1>10, <1>11, <1>12 DEF GateInv

\* A session that dies leaves a cookie nobody refused yet.
LEMMA SessionDiesKeeps == ASSUME GateInv, NEW p \in Peers, SessionDies(p) PROVE GateInv'
<1>1. /\ jar' = [jar EXCEPT ![p] = "dead"] /\ stale' = [stale EXCEPT ![p] = 0]
      /\ last' = last
  BY DEF SessionDies
<1>2. jar' \in [Peers -> Jars] /\ stale' \in [Peers -> 0..1]
  BY <1>1 DEF GateInv, Jars
<1>3. \A q \in Peers : jar'[q] = "dead" => stale'[q] = 0
  BY <1>1 DEF GateInv
<1>4. \A q \in Peers : stale'[q] <= 1
  BY <1>2
<1>5. GateHolds'
  BY Zenon, <1>1, <1>4 DEF GateInv, GateHolds
<1> QED BY <1>2, <1>3, <1>5 DEF GateInv

\* Every step of the gate keeps the limiter's invariant and its own.
LEMMA GateStepKeeps ==
    ASSUME LimiterInv, GateInv, GateNext
    PROVE  LimiterInv' /\ GateInv'
<1>1. CASE \E c \in Call : Serve(c)
  <2>1. PICK c \in Call : Serve(c)
    BY <1>1
  <2>2. GateInv'
    BY <2>1, ServeKeeps
  <2>3. c.peer \in Peers
    BY DEF Call
  <2>4. Request(c.peer) \/ UNCHANGED limiterVars
    BY <2>1 DEF Serve
  <2>5. UNCHANGED limiterVars => LimiterInv'
    BY DEF LimiterInv, limiterVars, Refilled
  <2> QED BY <2>2, <2>3, <2>4, <2>5, RequestKeeps
<1>2. CASE \E p \in Peers : SessionDies(p)
  <2>1. UNCHANGED limiterVars
    BY <1>2 DEF SessionDies, limiterVars
  <2>2. LimiterInv'
    BY <2>1 DEF LimiterInv, limiterVars, Refilled
  <2> QED BY <1>2, <2>2, SessionDiesKeeps
<1>3. CASE (Clock \/ evictLoop) /\ UNCHANGED <<jar, last, stale>>
  <2>1. GateInv'
    BY <1>3 DEF GateInv, GateHolds
  <2> QED BY <1>3, <2>1, ClockKeeps, EvictionKeeps
<1> QED BY <1>1, <1>2, <1>3 DEF GateNext

-----------------------------------------------------------------------------
(* Listing                                                                 *)

\* A set of numbers that has one has a least one.
LEMMA LeastNumber ==
    ASSUME NEW T, T \subseteq Nat, T # {}
    PROVE  \E m \in T : \A n \in T : m <= n
<1> DEFINE R == OpToRel(<, Nat)
<1>1. IsWellFoundedOn(R, Nat)
  BY NatLessThanWellFounded
<1>2. \A x, y \in Nat : x < y => <<x, y>> \in R
  BY DEF OpToRel
<1> HIDE DEF R
<1>3. \E x \in T : \A y \in T : ~ (<<y, x>> \in R)
  BY <1>1, WFMin
<1>4. PICK m \in T : \A n \in T : ~ (<<n, m>> \in R)
  BY <1>3
<1>5. m \in Nat /\ \A n \in T : n \in Nat /\ ~(n < m)
  BY <1>2, <1>4
<1> QED BY <1>5

\* A finite set with an order on it has a first element: the one with the
\* fewest before it.
LEMMA FiniteHasFirst ==
    ASSUME NEW S, IsFiniteSet(S), S # {}, NEW R,
           \A x \in S : <<x, x>> \notin R,
           \A x, y, z \in S : <<x, y>> \in R /\ <<y, z>> \in R => <<x, z>> \in R
    PROVE  \E m \in S : \A d \in S : <<d, m>> \notin R
<1> DEFINE Before(x) == {y \in S : <<y, x>> \in R}
           sizes == {Cardinality(Before(x)) : x \in S}
<1>1. ASSUME NEW x \in S
      PROVE  IsFiniteSet(Before(x)) /\ Cardinality(Before(x)) \in Nat
  <2>1. Before(x) \in SUBSET S
    OBVIOUS
  <2>2. IsFiniteSet(Before(x))
    BY <2>1, FS_Subset
  <2> QED BY <2>2, FS_CardinalityType
<1>2. sizes \subseteq Nat /\ sizes # {}
  <2> HIDE DEF Before
  <2>1. \A n \in sizes : n \in Nat
    BY <1>1
  <2>2. PICK x \in S : TRUE
    OBVIOUS
  <2>3. Cardinality(Before(x)) \in sizes
    BY Zenon
  <2> HIDE DEF sizes
  <2> QED BY <2>1, <2>3
<1>3. PICK k \in sizes : \A n \in sizes : k <= n
  BY <1>2, LeastNumber
<1>4. PICK m \in S : Cardinality(Before(m)) = k
  BY <1>3
<1>5. ASSUME NEW d \in S, <<d, m>> \in R PROVE FALSE
  <2>1. Before(d) \in SUBSET (Before(m) \ {d}) /\ d \in Before(m)
    BY <1>5
  <2>2. /\ IsFiniteSet(Before(m) \ {d})
        /\ Cardinality(Before(m) \ {d}) = Cardinality(Before(m)) - 1
    BY <1>1, <2>1, FS_RemoveElement
  <2>3. Cardinality(Before(d)) <= Cardinality(Before(m)) - 1
    <3> HIDE DEF Before
    <3> QED BY <2>1, <2>2, FS_Subset
  <2>4. k <= Cardinality(Before(d))
    <3>1. Cardinality(Before(d)) \in sizes
      BY Zenon
    <3> QED BY Zenon, <1>3, <3>1
  <2>5. Cardinality(Before(d)) \in Nat /\ k \in Nat
    BY <1>1, <1>4
  <2> HIDE DEF Before
  <2> QED BY <2>3, <2>4, <2>5, <1>4
<1> QED BY <1>5

Position == [at : Nat, id : Nat]

\* ORDER BY created_at DESC, id DESC is a strict total order.
LEMMA NewerOrders ==
    /\ \A p, q, r \in Position : Newer(p, q) /\ Newer(q, r) => Newer(p, r)
    /\ \A p \in Position : ~Newer(p, p)
    /\ \A p, q \in Position : p = q \/ Newer(p, q) \/ Newer(q, p)
<1>1. \A p, q, r \in Position : Newer(p, q) /\ Newer(q, r) => Newer(p, r)
  BY DEF Newer, Position
<1>2. \A p \in Position : ~Newer(p, p)
  BY DEF Newer, Position
<1>3. ASSUME NEW p \in Position, NEW q \in Position
      PROVE  p = q \/ Newer(p, q) \/ Newer(q, p)
  BY DEF Newer, Position
<1> QED BY <1>1, <1>2, <1>3

\* The rows: finitely many, each at an instant.
RowsTyped ==
    /\ time \in Nat
    /\ DOMAIN codes \subseteq CodeIds /\ IsFiniteSet(DOMAIN codes)
    /\ \A c \in DOMAIN codes : codes[c].at \in Nat

ListTyped ==
    /\ list \in [on : BOOLEAN, cursor : Position, filter : Filters \cup {NoCursor},
                 base : SUBSET CodeIds, shown : [CodeIds -> Nat]]
    /\ list.base \subseteq DOMAIN codes
    /\ list.on => list.filter \in Filters

\* What has been shown lies before the cursor, and what is still to be shown
\* past it.
Progress ==
    /\ \A c \in CodeIds : list.shown[c] <= 1
    /\ list.on =>
         /\ \A c \in CodeIds : list.shown[c] = 1 => c \in DOMAIN codes /\ ~Past(c, list.cursor)
         /\ \A c \in list.base \cap Live :
              Matches(c, list.filter) /\ (list.shown[c] = 1 \/ Past(c, list.cursor))
    /\ ~list.on => \A c \in list.base \cap Live : list.shown[c] = 1

ListInv == RowsTyped /\ ListTyped /\ Progress

\* No code yet, and no listing.
LEMMA ListInitially == ListInit => ListInv
<1> SUFFICES ASSUME ListInit PROVE ListInv
  OBVIOUS
<1>1. /\ time = 0 /\ DOMAIN codes = {}
      /\ list = [on |-> FALSE, cursor |-> NoCursor, filter |-> NoCursor,
                 base |-> {}, shown |-> [c \in CodeIds |-> 0]]
  BY DEF ListInit
<1>2. RowsTyped
  BY <1>1, FS_EmptySet DEF RowsTyped
<1>3. NoCursor \in Position
  BY DEF NoCursor, Position
<1>4. ListTyped
  BY <1>1, <1>3 DEF ListTyped
<1>5. Progress
  BY <1>1 DEF Progress
<1> QED BY <1>2, <1>4, <1>5 DEF ListInv

\* A row keeps its place in the order, and a code created during a listing
\* is not one the listing began with.
LEMMA RowsStayPut ==
    ASSUME ListInv, list' = list, RowsTyped',
           \A d \in DOMAIN codes : d \in DOMAIN codes' /\ codes'[d].at = codes[d].at,
           Live' \cap DOMAIN codes \subseteq Live
    PROVE  ListInv'
<1>1. ListTyped'
  BY DEF ListInv, ListTyped
<1>2. \A q : \A d \in DOMAIN codes : Past(d, q)' <=> Past(d, q)
  BY DEF Past, Newer, Pos
<1>3. \A f : \A d \in DOMAIN codes : Matches(d, f)' <=> Matches(d, f)
  BY DEF Matches
<1>4. list.base \subseteq DOMAIN codes /\ list.base \cap Live' \subseteq list.base \cap Live
  BY DEF ListInv, ListTyped
<1>5. ASSUME list.on, NEW c \in CodeIds, list.shown[c] = 1
      PROVE  c \in DOMAIN codes' /\ ~Past(c, list.cursor)'
  BY <1>2, <1>5 DEF ListInv, Progress
<1>6. ASSUME list.on, NEW c \in list.base \cap Live'
      PROVE  Matches(c, list.filter)' /\ (list.shown[c] = 1 \/ Past(c, list.cursor)')
  BY <1>2, <1>3, <1>4, <1>6 DEF ListInv, Progress
<1>7. Progress'
  BY <1>4, <1>5, <1>6 DEF ListInv, Progress
<1> QED BY <1>1, <1>7 DEF ListInv

\* A code is created, with the time of this instant or of the last one.
LEMMA CreateKeeps ==
    ASSUME ListInv, NEW c \in CodeIds, NEW at \in 0..time, CreateCode(c, at)
    PROVE  ListInv'
<1>1. /\ c \notin DOMAIN codes /\ time' = time /\ list' = list
      /\ codes' = [d \in DOMAIN codes \cup {c} |->
                     IF d = c THEN [at |-> at, deleted |-> FALSE] ELSE codes[d]]
  BY DEF CreateCode
<1>2. /\ DOMAIN codes' = DOMAIN codes \cup {c} /\ codes'[c].at = at
      /\ \A d \in DOMAIN codes : codes'[d] = codes[d]
  BY <1>1
<1>3. time \in Nat /\ IsFiniteSet(DOMAIN codes)
  BY DEF ListInv, RowsTyped
<1>4. IsFiniteSet(DOMAIN codes')
  BY <1>2, <1>3, FS_AddElement
<1>5. RowsTyped'
  BY <1>1, <1>2, <1>3, <1>4 DEF ListInv, RowsTyped
<1>6. Live' \cap DOMAIN codes \subseteq Live
  BY <1>2 DEF Live
<1> QED BY <1>1, <1>2, <1>5, <1>6, RowsStayPut

\* A code is deleted: its row stays.
LEMMA DeleteKeeps ==
    ASSUME ListInv, NEW c \in CodeIds, DeleteCode(c)
    PROVE  ListInv'
<1>1. /\ c \in DOMAIN codes /\ time' = time /\ list' = list
      /\ codes' = [codes EXCEPT ![c].deleted = TRUE]
  BY DEF DeleteCode
<1>2. /\ DOMAIN codes' = DOMAIN codes
      /\ \A d \in DOMAIN codes : d # c => codes'[d] = codes[d]
      /\ codes'[c] = [codes[c] EXCEPT !.deleted = TRUE]
  BY <1>1
<1>3. codes'[c].at = codes[c].at
  BY <1>2
<1>4. RowsTyped'
  BY <1>1, <1>2, <1>3 DEF ListInv, RowsTyped
<1>5. Live' \cap DOMAIN codes \subseteq Live
  BY <1>1, <1>2 DEF Live, DeleteCode
<1> QED BY <1>1, <1>2, <1>3, <1>4, <1>5, RowsStayPut

\* Every code has a place of its own in the order.
LEMMA Places ==
    ASSUME RowsTyped
    PROVE  /\ \A c \in DOMAIN codes : Pos(c) \in Position /\ Pos(c) # NoCursor
           /\ \A c, d \in DOMAIN codes : c # d => Pos(c) # Pos(d)
           /\ \A c, d \in DOMAIN codes : c # d => Newer(Pos(c), Pos(d)) \/ Newer(Pos(d), Pos(c))
<1>1. ASSUME NEW c \in DOMAIN codes
      PROVE  Pos(c) \in Position /\ Pos(c) # NoCursor /\ Pos(c).id = c
  <2>1. c \in Nat \ {0} /\ codes[c].at \in Nat
    BY CodeListAssumption DEF RowsTyped
  <2> QED BY <2>1 DEF Pos, Position, NoCursor
<1>2. \A c, d \in DOMAIN codes : c # d => Pos(c) # Pos(d)
  BY <1>1
<1>3. ASSUME NEW c \in DOMAIN codes, NEW d \in DOMAIN codes, c # d
      PROVE  Newer(Pos(c), Pos(d)) \/ Newer(Pos(d), Pos(c))
  BY <1>1, <1>2, <1>3, NewerOrders
<1> QED BY <1>1, <1>2, <1>3

\* In any finite set of rows one is the newest and one the oldest.
LEMMA NewestAndOldest ==
    ASSUME RowsTyped, NEW S, S \subseteq DOMAIN codes, S # {}
    PROVE  /\ IsFiniteSet(S)
           /\ \E m \in S : \A d \in S : ~Newer(Pos(d), Pos(m))
           /\ \E m \in S : \A d \in S : d = m \/ Newer(Pos(d), Pos(m))
<1>1. IsFiniteSet(S)
  BY FS_Subset DEF RowsTyped
<1>2. \A x \in S : Pos(x) \in Position
  BY Places
<1>3. /\ \A x \in S : ~Newer(Pos(x), Pos(x))
      /\ \A x, y, z \in S : Newer(Pos(x), Pos(y)) /\ Newer(Pos(y), Pos(z)) => Newer(Pos(x), Pos(z))
  BY <1>2, NewerOrders
<1> DEFINE N == {xy \in S \X S : Newer(Pos(xy[1]), Pos(xy[2]))}
           O == {xy \in S \X S : Newer(Pos(xy[2]), Pos(xy[1]))}
<1>4. /\ \A x, y \in S : <<x, y>> \in N <=> Newer(Pos(x), Pos(y))
      /\ \A x, y \in S : <<x, y>> \in O <=> Newer(Pos(y), Pos(x))
  OBVIOUS
<1> HIDE DEF N, O
<1>5. \E m \in S : \A d \in S : <<d, m>> \notin N
  <2>1. \A x \in S : <<x, x>> \notin N
    BY <1>3, <1>4
  <2>2. \A x, y, z \in S : <<x, y>> \in N /\ <<y, z>> \in N => <<x, z>> \in N
    BY <1>3, <1>4
  <2> QED BY <1>1, <2>1, <2>2, FiniteHasFirst
<1>6. \E m \in S : \A d \in S : <<d, m>> \notin O
  <2>1. \A x \in S : <<x, x>> \notin O
    BY <1>3, <1>4
  <2>2. \A x, y, z \in S : <<x, y>> \in O /\ <<y, z>> \in O => <<x, z>> \in O
    BY <1>3, <1>4
  <2> QED BY <1>1, <2>1, <2>2, FiniteHasFirst
<1>7. \E m \in S : \A d \in S : ~Newer(Pos(d), Pos(m))
  BY <1>4, <1>5
<1>8. \E m \in S : \A d \in S : d = m \/ Newer(Pos(d), Pos(m))
  BY <1>4, <1>6, Places
<1> QED BY <1>1, <1>7, <1>8

\* A page is the newest of what remains, all of it when it fits.
LEMMA PageIsNewest ==
    ASSUME RowsTyped, NEW f \in Filters, NEW q
    PROVE  LET rest == Remaining(f, q)
               page == Page(f, q)
           IN  /\ IsFiniteSet(rest) /\ page \subseteq rest /\ rest \subseteq DOMAIN codes
               /\ Cardinality(rest) <= f.limit => page = rest
               /\ Cardinality(rest) > f.limit => page # {}
               /\ \A c \in page, d \in rest \ page : Newer(Pos(c), Pos(d))
<1> DEFINE rest == Remaining(f, q)
           page == Page(f, q)
           Ahead(c) == {d \in rest : Newer(Pos(d), Pos(c))}
<1>1. f.limit \in Nat \ {0}
  BY CodeListAssumption
<1>2. rest \subseteq DOMAIN codes /\ IsFiniteSet(DOMAIN codes)
  BY DEF Remaining, Live, RowsTyped
<1>3. IsFiniteSet(rest) /\ Cardinality(rest) \in Nat
  BY <1>2, FS_Subset, FS_CardinalityType
<1>4. page = {c \in rest : Cardinality(Ahead(c)) < f.limit}
  BY Zenon DEF Page
<1> HIDE DEF rest, page
<1>5. ASSUME NEW c \in rest
      PROVE  /\ IsFiniteSet(Ahead(c)) /\ Cardinality(Ahead(c)) \in Nat
             /\ Cardinality(Ahead(c)) < Cardinality(rest)
  <2>1. ~Newer(Pos(c), Pos(c))
    BY <1>2, Places, NewerOrders
  <2>2. Ahead(c) \in SUBSET (rest \ {c})
    BY <2>1
  <2>3. IsFiniteSet(rest \ {c}) /\ Cardinality(rest \ {c}) = Cardinality(rest) - 1
    BY <1>3, FS_RemoveElement
  <2> HIDE DEF Ahead
  <2>4. IsFiniteSet(Ahead(c)) /\ Cardinality(Ahead(c)) <= Cardinality(rest) - 1
    BY <2>2, <2>3, FS_Subset
  <2> QED BY <2>4, <1>3, FS_CardinalityType
<1>6. Cardinality(rest) <= f.limit => page = rest
  <2> HIDE DEF Ahead
  <2> SUFFICES ASSUME Cardinality(rest) <= f.limit PROVE \A c \in rest : Cardinality(Ahead(c)) < f.limit
    BY <1>4
  <2> QED BY <1>1, <1>3, <1>5
<1>7. Cardinality(rest) > f.limit => page # {}
  <2> SUFFICES ASSUME Cardinality(rest) > f.limit PROVE page # {}
    OBVIOUS
  <2>1. rest # {}
    BY <1>1, FS_EmptySet
  <2>2. PICK m \in rest : \A d \in rest : ~Newer(Pos(d), Pos(m))
    BY <1>2, <2>1, NewestAndOldest
  <2>3. Ahead(m) = {}
    BY <2>2
  <2>4. Cardinality(Ahead(m)) = 0
    BY <2>3, FS_EmptySet
  <2> QED BY <1>1, <1>4, <2>4
<1>8. ASSUME NEW c \in page, NEW d \in rest \ page PROVE Newer(Pos(c), Pos(d))
  <2>1. c \in rest /\ c # d
    BY <1>4
  <2>2. Pos(c) \in Position /\ Pos(d) \in Position /\ \A x \in rest : Pos(x) \in Position
    BY <1>2, <2>1, Places
  <2>3. ASSUME Newer(Pos(d), Pos(c)) PROVE FALSE
    <3>1. Ahead(d) \in SUBSET Ahead(c)
      BY <2>2, <2>3, NewerOrders
    <3>2. Cardinality(Ahead(c)) < f.limit /\ ~(Cardinality(Ahead(d)) < f.limit)
      BY <1>4
    <3> HIDE DEF Ahead
    <3>3. Cardinality(Ahead(d)) <= Cardinality(Ahead(c))
      BY <1>5, <2>1, <3>1, FS_Subset
    <3>4. Cardinality(Ahead(c)) \in Nat /\ Cardinality(Ahead(d)) \in Nat
      BY <1>5, <2>1
    <3> QED BY <1>1, <3>2, <3>3, <3>4
  <2> QED BY <1>2, <2>1, <2>3, Places
<1>9. page \subseteq rest
  BY <1>4
<1> QED BY <1>2, <1>3, <1>6, <1>7, <1>8, <1>9 DEF rest, page

\* The next cursor is the last row of the page, when anything is left.
LEMMA CursorIsOldest ==
    ASSUME RowsTyped, NEW f \in Filters, NEW q
    PROVE  \/ Cardinality(Remaining(f, q)) <= f.limit /\ NextCursor(f, q) = NoCursor
           \/ /\ Cardinality(Remaining(f, q)) > f.limit
              /\ \E m \in Page(f, q) :
                   /\ NextCursor(f, q) = Pos(m)
                   /\ \A d \in Page(f, q) : d = m \/ Newer(Pos(d), Pos(m))
<1> DEFINE page == Page(f, q)
           Last(c) == \A d \in page : d = c \/ Newer(Pos(d), Pos(c))
<1>1. Cardinality(Remaining(f, q)) \in Nat /\ f.limit \in Nat
  BY PageIsNewest, FS_CardinalityType, CodeListAssumption
<1>2. CASE Cardinality(Remaining(f, q)) > f.limit
  <2>1. page # {} /\ page \subseteq DOMAIN codes
    BY <1>2, PageIsNewest
  <2>2. NextCursor(f, q) = Pos(CHOOSE c \in page : Last(c))
    BY <1>2 DEF NextCursor
  <2> HIDE DEF page
  <2>3. \E m \in page : Last(m)
    BY <2>1, NewestAndOldest
  <2> HIDE DEF Last
  <2>4. PICK m : m = (CHOOSE c \in page : Last(c)) /\ m \in page /\ Last(m)
    BY <2>3
  <2>5. NextCursor(f, q) = Pos(m)
    BY Zenon, <2>2, <2>4
  <2> QED BY <1>2, <2>4, <2>5 DEF page, Last
<1>3. CASE ~(Cardinality(Remaining(f, q)) > f.limit)
  <2>1. NextCursor(f, q) = NoCursor
    BY <1>3 DEF NextCursor
  <2> QED BY <1>1, <1>3, <2>1
<1> QED BY <1>2, <1>3

\* A listing begins: everything it has to show lies ahead.
LEMMA StartKeeps ==
    ASSUME ListInv, NEW f \in Filters, ListStart(f)
    PROVE  ListInv'
<1> DEFINE base == {c \in Live : Matches(c, f)}
<1>1. /\ list' = [on |-> TRUE, cursor |-> NoCursor, filter |-> f,
                  base |-> base, shown |-> [c \in CodeIds |-> 0]]
      /\ time' = time /\ codes' = codes
  BY DEF ListStart
<1>2. base \subseteq DOMAIN codes /\ DOMAIN codes \subseteq CodeIds /\ base \subseteq Live
  BY DEF Live, ListInv, RowsTyped
<1>3. RowsTyped'
  BY <1>1 DEF ListInv, RowsTyped
<1>4. NoCursor \in Position
  BY DEF NoCursor, Position
<1>5. \A c \in base : Matches(c, f)
  OBVIOUS
<1> HIDE DEF base
<1>6. /\ list'.on = TRUE /\ list'.cursor = NoCursor /\ list'.filter = f /\ list'.base = base
      /\ list'.shown = [c \in CodeIds |-> 0]
  BY <1>1
<1>7. ListTyped'
  BY <1>1, <1>2, <1>4, <1>6 DEF ListTyped
<1>8. \A c : Past(c, NoCursor)' /\ (Matches(c, f)' <=> Matches(c, f))
  BY <1>1 DEF Past, Matches
<1>9. Progress'
  BY <1>2, <1>5, <1>6, <1>8 DEF Progress
<1> QED BY <1>3, <1>7, <1>9 DEF ListInv

\* A page is shown and the cursor moves to its last row, or the listing ends.
LEMMA PageKeeps == ASSUME ListInv, ListCodes PROVE ListInv'
<1>1. PICK f, q, shown, base :
          /\ f = list.filter /\ q = list.cursor /\ shown = list.shown /\ base = list.base
  OBVIOUS
<1> DEFINE rest == Remaining(f, q)
           page == Page(f, q)
<1>2. PICK next : next = NextCursor(f, q)
  OBVIOUS
<1>3. /\ list \in [on : BOOLEAN, cursor : Position, filter : Filters \cup {NoCursor},
                   base : SUBSET CodeIds, shown : [CodeIds -> Nat]]
      /\ list.on /\ f \in Filters /\ base \subseteq DOMAIN codes
      /\ q \in Position /\ shown \in [CodeIds -> Nat] /\ base \in SUBSET CodeIds
  BY <1>1 DEF ListInv, ListTyped, ListCodes
<1>4. /\ list' = [list EXCEPT !.shown = [c \in CodeIds |-> shown[c] + IF c \in page THEN 1 ELSE 0],
                              !.cursor = next, !.on = next # NoCursor]
      /\ time' = time /\ codes' = codes
  BY Zenon, <1>1, <1>2 DEF ListCodes
<1> HIDE DEF page, rest
<1>5. /\ list'.shown = [c \in CodeIds |-> shown[c] + IF c \in page THEN 1 ELSE 0]
      /\ list'.cursor = next /\ list'.on = (next # NoCursor)
      /\ list'.filter = f /\ list'.base = base
  BY <1>1, <1>3, <1>4
<1>6. RowsTyped /\ RowsTyped'
  BY <1>4 DEF ListInv, RowsTyped
<1>7. /\ IsFiniteSet(rest) /\ page \subseteq rest /\ rest \subseteq DOMAIN codes
      /\ Cardinality(rest) <= f.limit => page = rest
      /\ \A c \in page, d \in rest \ page : Newer(Pos(c), Pos(d))
  BY <1>3, <1>6, PageIsNewest DEF rest, page
<1>8. rest = {c \in Live : Matches(c, f) /\ Past(c, q)} /\ Live \subseteq DOMAIN codes
  BY DEF rest, Remaining, Live
<1>9. DOMAIN codes \subseteq CodeIds
  BY <1>6 DEF RowsTyped
<1>10. /\ \A c \in CodeIds : shown[c] \in 0..1
       /\ \A c \in CodeIds : shown[c] = 1 => c \in DOMAIN codes /\ ~Past(c, q)
       /\ \A c \in base \cap Live : Matches(c, f) /\ (shown[c] = 1 \/ Past(c, q))
  BY <1>1, <1>3 DEF ListInv, Progress
<1>11. \A c \in page : shown[c] = 0
  BY <1>7, <1>8, <1>9, <1>10
<1>12. \A c \in CodeIds : list'.shown[c] = IF c \in page THEN 1 ELSE shown[c]
  BY <1>5, <1>10, <1>11
<1>13. /\ next = NoCursor \/ next \in Position
       /\ \/ next = NoCursor /\ page = rest
          \/ /\ next # NoCursor
             /\ \E m \in page : /\ next = Pos(m)
                                /\ \A d \in page : d = m \/ Newer(Pos(d), Pos(m))
  BY <1>2, <1>3, <1>6, <1>7, CursorIsOldest, Places DEF rest, page
<1>14. NoCursor \in Position
  BY DEF NoCursor, Position
<1>15. ListTyped'
  <2>1. list'.shown \in [CodeIds -> Nat]
    BY <1>3, <1>5
  <2>2. list' \in [on : BOOLEAN, cursor : Position, filter : Filters \cup {NoCursor},
                   base : SUBSET CodeIds, shown : [CodeIds -> Nat]]
    BY <1>3, <1>4, <1>5, <1>13, <1>14, <2>1
  <2> QED BY <2>2, <1>3, <1>4, <1>5 DEF ListTyped
<1>16. \A c \in CodeIds : list'.shown[c] <= 1
  BY <1>10, <1>12
<1>17. /\ Live' = Live
       /\ \A c, p : Past(c, p)' <=> Past(c, p)
       /\ \A c : Matches(c, f)' <=> Matches(c, f)
  BY <1>4 DEF Live, Past, Pos, Matches
<1>18. CASE next = NoCursor /\ page = rest
  <2>1. \A c \in base \cap Live : list'.shown[c] = 1
    BY <1>3, <1>8, <1>9, <1>10, <1>12, <1>18
  <2>2. list'.on = FALSE
    BY <1>5, <1>18
  <2> QED BY <1>5, <1>6, <1>15, <1>16, <1>17, <2>1, <2>2 DEF ListInv, Progress
<1>19. CASE /\ next # NoCursor
            /\ \E m \in page : /\ next = Pos(m)
                               /\ \A d \in page : d = m \/ Newer(Pos(d), Pos(m))
  <2>1. PICK m \in page : /\ next = Pos(m)
                          /\ \A d \in page : d = m \/ Newer(Pos(d), Pos(m))
    BY <1>19
  <2>2. /\ m \in rest /\ m \in DOMAIN codes /\ next \in Position
        /\ \A c \in DOMAIN codes : Pos(c) \in Position
    BY <1>6, <1>7, <2>1, Places
  <2>3. \A c : Past(c, next) <=> Newer(next, Pos(c))
    BY <1>19 DEF Past
  <2>4. \A c \in page : ~Newer(next, Pos(c))
    BY <1>7, <2>1, <2>2, NewerOrders
  <2>5. ASSUME NEW c \in DOMAIN codes, ~Past(c, q) PROVE ~Newer(next, Pos(c))
    <3>1. q # NoCursor /\ ~Newer(q, Pos(c))
      BY <2>5 DEF Past
    <3>2. Newer(q, next)
      BY <1>8, <2>1, <2>2, <3>1 DEF Past
    <3> QED BY <1>3, <2>2, <3>1, <3>2, NewerOrders
  <2>6. ASSUME NEW c \in rest, c \notin page PROVE Newer(next, Pos(c))
    BY <1>7, <2>1, <2>6
  <2>7. ASSUME NEW c \in CodeIds, list'.shown[c] = 1
        PROVE  c \in DOMAIN codes /\ ~Past(c, next)
    <3>1. CASE c \in page
      BY <1>7, <2>3, <2>4, <3>1
    <3>2. CASE c \notin page
      BY <1>10, <1>12, <2>3, <2>5, <2>7, <3>2
    <3> QED BY <3>1, <3>2
  <2>8. ASSUME NEW c \in base \cap Live
        PROVE  Matches(c, f) /\ (list'.shown[c] = 1 \/ Past(c, next))
    <3>1. Matches(c, f) /\ (shown[c] = 1 \/ c \in rest) /\ c \in CodeIds
      BY <1>3, <1>8, <1>10
    <3> QED BY <1>12, <2>3, <2>6, <3>1
  <2>9. list'.on = TRUE
    BY <1>5, <1>19
  <2> QED BY <1>4, <1>5, <1>6, <1>15, <1>16, <1>17, <2>7, <2>8, <2>9 DEF ListInv, Progress
<1> QED BY <1>13, <1>18, <1>19

\* Every step of the listing and of those who create and delete.
LEMMA ListStepKeeps == ASSUME ListInv, ListNext PROVE ListInv'
<1>1. CASE Wait
  <2>1. time \in Nat /\ time' = time + 1 /\ codes' = codes /\ list' = list
    BY <1>1 DEF Wait, ListInv, RowsTyped
  <2>2. RowsTyped' /\ Live' = Live
    BY <2>1 DEF ListInv, RowsTyped, Live
  <2> QED BY <2>1, <2>2, RowsStayPut
<1>2. CASE \E c \in CodeIds : DeleteCode(c) \/ \E at \in 0..time : CreateCode(c, at)
  BY <1>2, CreateKeeps, DeleteKeeps
<1>3. CASE \E f \in Filters : ListStart(f)
  BY <1>3, StartKeeps
<1>4. CASE ListCodes
  BY <1>4, PageKeeps
<1> QED BY <1>1, <1>2, <1>3, <1>4 DEF ListNext

-----------------------------------------------------------------------------
(* Images on request                                                       *)

\* The least of a set of numbers.
LEMMA MinIsLeast ==
    ASSUME NEW S, S \subseteq Nat, S # {}
    PROVE  Min(S) \in S /\ \A x \in S : Min(S) <= x
<1>1. \E x \in S : \A y \in S : x <= y
  BY LeastNumber
<1>2. Min(S) = CHOOSE x \in S : \A y \in S : x <= y
  BY DEF Min
<1> QED BY <1>1, <1>2

Refusals == {"invalid_request", "dimensions_exceeded", "contrast_too_low", "logo_too_large",
             "content_too_large"}

\* What Prepare wants of its options, in no order.
Renderable(o) ==
    /\ normalise(o)
    /\ ~(o.size > MaxPx) /\ o.colour # "low" /\ Effective(o) # -1
    /\ HasLogo(o) => decodeLogo(o)
    /\ ~(o.content > payloadLimit(IF Effective(o) = -1 THEN 3 ELSE Effective(o)))
    /\ o.content # 0

\* The most a symbol of some level holds, and what the instance allows.
LEMMA LimitIsNumber ==
    ASSUME NEW l \in Levels
    PROVE  payloadLimit(l) \in Nat
<1>1. Capacity(l) \in Nat /\ MaxPayload \in Nat
  BY BoundsAssumption DEF Capacity, Levels
<1>2. {Capacity(l), MaxPayload} \subseteq Nat /\ {Capacity(l), MaxPayload} # {}
  BY <1>1
<1> QED BY <1>2, MinIsLeast DEF payloadLimit

\* The level in use, or none at all.
LEMMA EffectiveIsLevel ==
    ASSUME NEW o, o.level \in Levels
    PROVE  Effective(o) \in Levels \cup {-1}
<1>1. CASE ~HasLogo(o)
  BY <1>1 DEF Effective
<1>2. CASE HasLogo(o)
  <2> DEFINE fit == Bearing(o.level, o.scale, o.raise)
  <2>1. fit \subseteq Levels /\ fit \subseteq Nat
    BY DEF Bearing, Levels
  <2>2. Effective(o) = IF fit = {} THEN -1 ELSE Min(fit)
    BY <1>2 DEF Effective, resolveLogoLevel
  <2> HIDE DEF fit
  <2>3. fit # {} => Min(fit) \in Levels
    BY <2>1, MinIsLeast
  <2> QED BY <2>2, <2>3
<1> QED BY <1>1, <1>2

\* Prepare passes what meets every check, and refuses all else.
LEMMA PrepareDecides ==
    ASSUME NEW o, o.size \in Int, o.content \in Nat
    PROVE  /\ Renderable(o) => Prepare(o) = "ok"
           /\ ~Renderable(o) => Prepare(o) \in Refusals
<1>1. CASE ~normalise(o)
  <2>1. Prepare(o) = "invalid_request"
    BY <1>1 DEF Prepare
  <2> QED BY <1>1, <2>1 DEF Renderable, Refusals
<1>2. CASE normalise(o)
  <2>0. o.level \in Levels
    BY <1>2 DEF normalise
  <2> DEFINE most == payloadLimit(IF Effective(o) = -1 THEN 3 ELSE Effective(o))
  <2>1. most \in Nat /\ MaxPx \in Nat
    <3>1. (IF Effective(o) = -1 THEN 3 ELSE Effective(o)) \in Levels
      BY <2>0, EffectiveIsLevel DEF Levels
    <3> QED BY <3>1, LimitIsNumber, BoundsAssumption
  <2> HIDE DEF most
  <2>b1. PICK b1 \in BOOLEAN : b1 = (o.size > MaxPx)
    <3>1. (o.size > MaxPx) \in BOOLEAN
      BY <2>1
    <3> QED BY Zenon, <3>1
  <2>b2. PICK b2 \in BOOLEAN : b2 = (o.colour = "low")
    OBVIOUS
  <2>b3. PICK b3 \in BOOLEAN : b3 = (Effective(o) = -1)
    OBVIOUS
  <2>b4. PICK b4 \in BOOLEAN : b4 = (HasLogo(o) /\ ~decodeLogo(o))
    OBVIOUS
  <2>b5. PICK b5 \in BOOLEAN : b5 = (o.content > most)
    <3>1. (o.content > most) \in BOOLEAN
      BY <2>1
    <3> QED BY Zenon, <3>1
  <2>b6. PICK b6 \in BOOLEAN : b6 = (o.content = 0)
    OBVIOUS
  <2> DEFINE b == <<b1, b2, b3, b4, b5, b6>>
             checks == << <<b1, "dimensions_exceeded">>, <<b2, "contrast_too_low">>,
                          <<b3, "logo_too_large">>, <<b4, "invalid_request">>,
                          <<b5, "content_too_large">>, <<b6, "invalid_request">> >>
             failed == {i \in DOMAIN checks : checks[i][1]}
  <2>2. Prepare(o) = FirstOf(checks)
    BY Zenon, <1>2, <2>b1, <2>b2, <2>b3, <2>b4, <2>b5, <2>b6 DEF Prepare, most
  <2>3. FirstOf(checks) = IF failed = {} THEN "ok" ELSE checks[Min(failed)][2]
    BY Zenon DEF FirstOf
  <2>4. failed = {i \in 1..6 : b[i]}
    OBVIOUS
  <2>9. (\A i \in 1..6 : ~b[i]) <=> ~b1 /\ ~b2 /\ ~b3 /\ ~b4 /\ ~b5 /\ ~b6
    OBVIOUS
  <2>10. Renderable(o) <=> ~b1 /\ ~b2 /\ ~b3 /\ ~b4 /\ ~b5 /\ ~b6
    BY <1>2, <2>b1, <2>b2, <2>b3, <2>b4, <2>b5, <2>b6 DEF Renderable, most
  <2>5. Renderable(o) <=> \A i \in 1..6 : ~b[i]
    BY <2>9, <2>10
  <2>6. \A i \in 1..6 : checks[i][2] \in Refusals
    BY DEF Refusals
  <2> HIDE DEF checks, failed
  <2>7. CASE failed = {}
    BY <2>2, <2>3, <2>4, <2>5, <2>7
  <2>8. CASE failed # {}
    <3>1. failed \subseteq Nat
      BY <2>4
    <3>2. Min(failed) \in 1..6
      BY <2>4, <2>8, <3>1, MinIsLeast
    <3> QED BY <2>2, <2>3, <2>4, <2>5, <2>6, <2>8, <3>2
  <2> QED BY <2>7, <2>8
<1> QED BY <1>1, <1>2

\* The level the renderer picks is the lowest the schema allows.
LEMMA LevelAgrees ==
    ASSUME NEW r \in Requests, Num(r.level, 1) \in Levels
    PROVE  LET level == Num(r.level, 1)
               raised == {l \in level..3 : Num(r.scale, 15) <= logoBudget(l)}
               allowed == IF r.image = "none" THEN {level}
                          ELSE IF r.raise = "no" THEN raised \cap {level} ELSE raised
           IN  /\ allowed # {} <=> Effective(Options(r)) # -1
               /\ allowed # {} => Min(allowed) = Effective(Options(r))
<1> DEFINE level == Num(r.level, 1)
           scale == Num(r.scale, 15)
           raised == {l \in level..3 : scale <= logoBudget(l)}
           allowed == IF r.image = "none" THEN {level}
                      ELSE IF r.raise = "no" THEN raised \cap {level} ELSE raised
<1>1. /\ Options(r).level = level /\ Options(r).scale = scale /\ Options(r).image = r.image
      /\ Options(r).raise = (r.raise # "no")
  BY DEF Options
<1>2. PICK up \in BOOLEAN : up = (r.raise # "no")
  OBVIOUS
<1>3. Bearing(level, scale, up) = {l \in Levels : scale <= logoBudget(l) /\ (l = level \/ (up /\ l > level))}
  BY DEF Bearing
<1> HIDE DEF scale, level
<1>4. level \in 0..3
  BY DEF level, Levels
<1>5. r.image # "none" => allowed = Bearing(level, scale, up)
  <2>1. CASE r.raise = "no"
    <3>1. ~up
      BY <1>2, <2>1
    <3>2. Bearing(level, scale, up) = {l \in Levels : scale <= logoBudget(l) /\ l = level}
      BY <1>3, <3>1
    <3> QED BY <1>4, <2>1, <3>2 DEF Levels
  <2>2. CASE r.raise # "no"
    <3>1. up
      BY <1>2, <2>2
    <3>2. Bearing(level, scale, up) = {l \in Levels : scale <= logoBudget(l) /\ (l = level \/ l > level)}
      BY <1>3, <3>1
    <3>3. \A l : l \in Levels /\ (l = level \/ l > level) <=> l \in level..3
      BY <1>4 DEF Levels
    <3>4. r.image # "none" => allowed = {l \in level..3 : scale <= logoBudget(l)}
      BY <2>2
    <3> QED BY Zenon, <3>2, <3>3, <3>4
  <2> QED BY <2>1, <2>2
<1>6. Effective(Options(r)) = IF r.image = "none" THEN level
                              ELSE resolveLogoLevel(level, scale, up)
  BY Zenon, <1>1, <1>2 DEF Effective, HasLogo
<1>7. CASE r.image = "none"
  <2>1. allowed = {level} /\ Effective(Options(r)) = level
    BY <1>6, <1>7
  <2> HIDE DEF allowed
  <2>2. Min(allowed) \in allowed
    BY <1>4, <2>1, MinIsLeast
  <2> QED BY <1>4, <2>1, <2>2 DEF allowed, raised, level, scale
<1>8. CASE r.image # "none"
  <2>1. Effective(Options(r)) = IF allowed = {} THEN -1 ELSE Min(allowed)
    BY <1>5, <1>6, <1>8 DEF resolveLogoLevel
  <2>2. allowed \subseteq Nat
    <3> HIDE DEF allowed
    <3>1. Levels \subseteq Nat
      BY DEF Levels
    <3>2. allowed \subseteq Levels
      BY Zenon, <1>3, <1>5, <1>8
    <3> QED BY <3>1, <3>2
  <2> HIDE DEF allowed
  <2>3. allowed # {} => Min(allowed) # -1
    <3> SUFFICES ASSUME allowed # {} PROVE Min(allowed) # -1
      OBVIOUS
    <3>1. Min(allowed) \in Nat
      BY <2>2, MinIsLeast
    <3> QED BY <3>1
  <2> QED BY <2>1, <2>3 DEF allowed, raised, level, scale
<1> QED BY <1>7, <1>8

\* What the parsers and the renderer accept together is what the schema does,
\* in every encoding.
LEMMA SchemaDecides ==
    ASSUME NEW enc \in Encodings, NEW r \in Requests, Expressible(enc, r)
    PROVE  Acceptable(enc, r) <=> Parsed(enc, r) /\ Renderable(Options(r))
<1> DEFINE o == Options(r)
           level == Num(r.level, 1)
           raised == {l \in level..3 : Num(r.scale, 15) <= logoBudget(l)}
           allowed == IF r.image = "none" THEN {level}
                      ELSE IF r.raise = "no" THEN raised \cap {level} ELSE raised
<1>1. /\ r.format \in {"absent", "png", "svg", "bad"} /\ r.colour \in {"absent", "ok", "low", "bad"}
      /\ r.shape \in {"absent", "square", "dot", "rounded", "bad"} /\ r.margin \in Int
      /\ r.size \in Int /\ r.level \in Levels \cup {Absent, Malformed} /\ r.content \in Nat
      /\ r.image \in {"none", "good", "bad", "empty"} /\ r.scale \in Int
      /\ r.raise \in {"absent", "yes", "no", "bad"}
      /\ r.image = "none" => r.scale = Absent /\ r.raise = "absent"
  BY RequestsAssumption
<1>2. /\ o.format = Str(r.format, "png") /\ o.colour = Str(r.colour, "ok")
      /\ o.shape = Str(r.shape, "square") /\ o.margin = Num(r.margin, 4)
      /\ o.size = Num(r.size, 512) /\ o.level = level /\ o.content = r.content
      /\ o.image = r.image /\ o.scale = Num(r.scale, 15)
  BY DEF Options
<1>3. PICK top \in Nat : /\ top = IF enc = "codes" THEN Min({4096, MaxPx}) ELSE MaxPx
                         /\ \A n \in Int : n <= top <=> n <= MaxPx /\ (enc = "codes" => n <= 4096)
  <2>1. MaxPx \in Nat
    BY BoundsAssumption
  <2>2. {4096, MaxPx} \subseteq Nat /\ {4096, MaxPx} # {}
    BY <2>1
  <2>3. Min({4096, MaxPx}) \in {4096, MaxPx} /\ Min({4096, MaxPx}) <= 4096 /\ Min({4096, MaxPx}) <= MaxPx
    BY <2>2, MinIsLeast
  <2> QED BY <2>1, <2>3
<1>4. Acceptable(enc, r) <=>
        /\ r.format \in {"absent", "png", "svg"} /\ r.colour \in {"absent", "ok"}
        /\ r.shape \in {"absent", "square", "dot", "rounded"}
        /\ r.margin \in {Absent} \cup 4..64
        /\ Num(r.size, 512) \in 64..top
        /\ level \in Levels
        /\ r.image \in {"none", "good"} /\ r.raise # "bad"
        /\ r.scale \in {Absent} \cup 1..MaxLogoScale
        /\ allowed # {} /\ r.content \in 1..payloadLimit(Min(allowed))
  BY Zenon, <1>3 DEF Acceptable
<1>5. level \in Levels => (allowed # {} <=> Effective(o) # -1)
  BY LevelAgrees
<1>6. level \in Levels /\ allowed # {} => Min(allowed) = Effective(o)
  BY LevelAgrees
<1>7. level \in Levels => Effective(o) \in Levels \cup {-1}
  BY <1>2, EffectiveIsLevel
<1>8. \A l \in Levels : payloadLimit(l) \in Nat
  BY LimitIsNumber
<1> HIDE DEF o, level, allowed
<1>9. Acceptable(enc, r) <=>
        /\ r.format # "bad" /\ r.colour \in {"absent", "ok"} /\ r.shape # "bad"
        /\ r.margin \in {Absent} \cup 4..64
        /\ Num(r.size, 512) \in 64..top
        /\ level \in Levels
        /\ r.image \in {"none", "good"} /\ r.raise # "bad"
        /\ r.scale \in {Absent} \cup 1..MaxLogoScale
        /\ Effective(o) # -1
        /\ r.content > 0 /\ ~(r.content > payloadLimit(Effective(o)))
  BY <1>1, <1>4, <1>5, <1>6, <1>7, <1>8
<1>10. Renderable(o) <=>
        /\ r.format # "bad" /\ r.colour \in {"absent", "ok"} /\ r.shape # "bad"
        /\ Num(r.margin, 4) \in 0..64
        /\ Num(r.size, 512) >= 1 /\ Num(r.size, 512) <= MaxPx
        /\ level \in Levels
        /\ r.image # "none" => Num(r.scale, 15) \in 1..MaxLogoScale
        /\ r.image \in {"none", "good"}
        /\ Effective(o) # -1
        /\ r.content > 0 /\ ~(r.content > payloadLimit(Effective(o)))
  <2>1. normalise(o) <=>
          /\ r.format # "bad" /\ r.colour # "bad" /\ r.shape # "bad"
          /\ Num(r.margin, 4) \in 0..64 /\ Num(r.size, 512) >= 1 /\ level \in Levels
          /\ r.image # "none" => Num(r.scale, 15) \in 1..MaxLogoScale
    BY <1>1, <1>2 DEF normalise, Str, HasLogo, Num, MaxLogoScale
  <2>2. o.colour # "low" <=> r.colour # "low"
    BY <1>1, <1>2 DEF Str
  <2>3. Num(r.size, 512) \in Int /\ MaxPx \in Int
    BY <1>1, BoundsAssumption DEF Num
  <2>4. (HasLogo(o) => decodeLogo(o)) <=> r.image \in {"none", "good"}
    BY <1>1, <1>2 DEF HasLogo, decodeLogo
  <2> QED BY <1>1, <1>2, <2>1, <2>2, <2>3, <2>4 DEF Renderable
<1>11. level \in Levels <=> r.level # Malformed
  BY <1>1 DEF level, Num, Levels, Absent, Malformed
<1>12. Num(r.size, 512) \in 64..top <=>
         /\ Num(r.size, 512) >= 64 /\ Num(r.size, 512) <= MaxPx
         /\ enc = "codes" => Num(r.size, 512) <= 4096
  BY <1>1, <1>3 DEF Num
<1>13. Num(r.size, 512) >= 64 => r.size # Malformed
  BY DEF Num, Absent, Malformed
<1>14. Num(r.margin, 4) \in 4..64 <=> r.margin \in {Absent} \cup 4..64
  BY <1>1 DEF Num, Absent
<1>15. r.margin \in {Absent} \cup 4..64 => r.margin # Malformed /\ Num(r.margin, 4) \in 0..64
  BY <1>1 DEF Num, Absent, Malformed
<1>16. Num(r.scale, 15) \in 1..MaxLogoScale <=> r.scale \in {Absent} \cup 1..MaxLogoScale
  BY <1>1 DEF Num, Absent, MaxLogoScale
<1>17. r.scale \in {Absent} \cup 1..MaxLogoScale => r.scale # Malformed
  BY DEF Absent, Malformed, MaxLogoScale
<1>18. Styled(r) <=> /\ r.colour # "bad" /\ r.shape # "bad" /\ level \in Levels
                     /\ r.margin \in {Absent} \cup 4..64 /\ Num(r.size, 512) >= 64
  BY <1>11, <1>14 DEF Styled
<1>19. Num(r.size, 512) \in Int /\ (Num(r.size, 512) >= 64 => Num(r.size, 512) >= 1)
  BY <1>1 DEF Num
<1>20. CASE enc = "query"
  <2>1. Parsed(enc, r) <=> Numbers(r) /\ r.content > 0 /\ r.format # "bad" /\ Styled(r)
    BY <1>20 DEF Parsed, parseQuery, toOptions
  <2>2. r.image = "none"
    BY <1>20 DEF Expressible, HasLogo
  <2> QED BY <1>1, <1>9, <1>10, <1>12, <1>13, <1>15, <1>18, <1>19, <1>20, <2>1, <2>2 DEF Numbers, o
<1>21. CASE enc = "json"
  <2>1. Parsed(enc, r) <=> /\ Numbers(r) /\ r.scale # Malformed /\ r.raise # "bad"
                           /\ r.content > 0 /\ r.format # "bad" /\ Styled(r)
                           /\ r.image # "none" => r.image # "empty" /\ Num(r.scale, 15) \in 1..MaxLogoScale
    BY <1>21 DEF Parsed, parseJSON, toOptions, decode, validateLogo, HasLogo
  <2> QED BY <1>1, <1>9, <1>10, <1>12, <1>13, <1>15, <1>16, <1>17, <1>18, <1>19, <1>21, <2>1
          DEF Numbers, o
<1>22. CASE enc = "multipart"
  <2>1. Parsed(enc, r) <=>
          /\ Numbers(r) /\ r.content > 0 /\ r.format # "bad" /\ Styled(r)
          /\ r.image # "none" => /\ r.scale # Malformed /\ r.raise # "bad"
                                 /\ Num(r.scale, 15) \in 1..MaxLogoScale
    BY <1>22 DEF Parsed, parseMultipart, toOptions, validateLogo, HasLogo
  <2> QED BY <1>1, <1>9, <1>10, <1>12, <1>13, <1>15, <1>16, <1>17, <1>18, <1>19, <1>22, <2>1
          DEF Numbers, o
<1>23. CASE enc = "codes"
  <2>1. Parsed(enc, r) <=> /\ Numbers(r) /\ r.scale # Malformed /\ r.raise # "bad"
                           /\ Styled(r) /\ Num(r.size, 512) <= 4096
                           /\ r.image # "none" => r.image # "empty" /\ Num(r.scale, 15) \in 1..MaxLogoScale
    BY <1>23 DEF Parsed, stylingFromRequest, decode, validateLogo, HasLogo
  <2>2. r.format = "absent" /\ r.content = 20
    BY <1>23 DEF Expressible
  <2> QED BY <1>1, <1>9, <1>10, <1>12, <1>13, <1>15, <1>16, <1>17, <1>18, <1>19, <1>23, <2>1, <2>2
          DEF Numbers, o
<1> QED BY <1>20, <1>21, <1>22, <1>23 DEF Encodings, o

Contexts == {"live", "deadline", "canceled"}

\* The worker's result for some options: an image or the verdict of Prepare,
\* or else the end of a context that cannot come back to life.
Settled(done, opts, ctx) ==
    \/ done = "image" /\ Renderable(opts)
    \/ done \in Refusals /\ ~Renderable(opts)
    \/ ctx # "live" /\ done = CtxError(ctx)

Fields == {"pc", "answer", "enc", "req", "opts", "worker", "done", "ctx", "why", "bands", "symbol"}

\* A request under way, or answered while its worker still runs.
Under ==
    /\ DOMAIN qr = Fields
    /\ qr.pc \in {"select", "answered"}
    /\ qr.enc \in Encodings /\ qr.req \in Requests /\ Expressible(qr.enc, qr.req)
    /\ qr.worker \in {"prepare", "draw", "send", "ended"}
    /\ qr.ctx \in Contexts
    /\ \/ Parsed(qr.enc, qr.req) /\ qr.opts = Options(qr.req)
       \/ ~Parsed(qr.enc, qr.req) /\ qr.pc = "answered" /\ qr.worker = "ended"
    /\ qr.worker = "draw" => Renderable(qr.opts)
    /\ qr.pc = "select" /\ qr.worker \in {"send", "ended"} => Settled(qr.done, qr.opts, qr.ctx)
    /\ AnswersFollowSchema

ImageInv == qr = Idle \/ Under

\* Only the pc, the answer and the reason matter to an answer.
LEMMA SameAnswer ==
    ASSUME AnswersFollowSchema, qr'.pc = qr.pc, qr'.answer = qr.answer, qr'.why = qr.why,
           qr'.enc = qr.enc, qr'.req = qr.req
    PROVE  AnswersFollowSchema'
BY Zenon DEF AnswersFollowSchema

\* A request is received.
LEMMA ReceiveKeeps ==
    ASSUME NEW enc \in Encodings, NEW r \in Requests, Receive(enc, r)
    PROVE  Under'
<1>1. Expressible(enc, r)
  BY DEF Receive
<1>2. CASE Parsed(enc, r)
  <2>1. qr' = [pc |-> "select", answer |-> "none", enc |-> enc, req |-> r, opts |-> Options(r),
               worker |-> "prepare", done |-> "empty", ctx |-> "live", why |-> "live",
               bands |-> Bands, symbol |-> NoSymbol]
    BY Zenon, <1>2 DEF Receive
  <2>2. /\ DOMAIN qr' = Fields
        /\ qr'.pc = "select" /\ qr'.enc = enc /\ qr'.req = r /\ qr'.opts = Options(r)
        /\ qr'.worker = "prepare" /\ qr'.ctx = "live"
    BY <2>1 DEF Fields
  <2>3. AnswersFollowSchema'
    BY <2>2 DEF AnswersFollowSchema
  <2> QED BY <1>1, <1>2, <2>2, <2>3 DEF Under, Contexts
<1>3. CASE ~Parsed(enc, r)
  <2>1. qr' = [pc |-> "answered", answer |-> "invalid_request", enc |-> enc, req |-> r, opts |-> r,
               worker |-> "ended", done |-> "empty", ctx |-> "live", why |-> "live",
               bands |-> Bands, symbol |-> NoSymbol]
    BY Zenon, <1>3 DEF Receive
  <2>2. /\ DOMAIN qr' = Fields
        /\ qr'.pc = "answered" /\ qr'.enc = enc /\ qr'.req = r
        /\ qr'.worker = "ended" /\ qr'.ctx = "live" /\ qr'.answer = "invalid_request"
    BY <2>1 DEF Fields
  <2>3. ~Acceptable(enc, r)
    BY <1>1, <1>3, SchemaDecides
  <2>4. AnswersFollowSchema'
    BY <2>2, <2>3 DEF AnswersFollowSchema
  <2> QED BY <1>1, <1>3, <2>2, <2>4 DEF Under, Contexts
<1> QED BY <1>2, <1>3

\* The worker has a result.
LEMMA WorkKeeps ==
    ASSUME Under, qr.worker \in {"prepare", "draw"}, NEW to, Work(to),
           Settled(to, qr.opts, qr.ctx)
    PROVE  Under'
<1>1. qr' = [qr EXCEPT !.worker = "send", !.done = to, !.symbol = NoSymbol, !.bands = 0]
  BY DEF Work
<1>2. DOMAIN qr = Fields
  BY DEF Under
<1>3. /\ DOMAIN qr' = Fields /\ qr'.worker = "send" /\ qr'.done = to
      /\ qr'.pc = qr.pc /\ qr'.enc = qr.enc /\ qr'.req = qr.req /\ qr'.opts = qr.opts
      /\ qr'.ctx = qr.ctx /\ qr'.answer = qr.answer /\ qr'.why = qr.why
  BY <1>1, <1>2 DEF Fields
<1>4. AnswersFollowSchema'
  BY <1>3, SameAnswer DEF Under
<1>5. Settled(qr'.done, qr'.opts, qr'.ctx)
  BY Zenon, <1>3
<1>6. Parsed(qr.enc, qr.req) /\ qr.opts = Options(qr.req)
  BY DEF Under
<1>7. /\ qr'.pc \in {"select", "answered"} /\ qr'.enc \in Encodings /\ qr'.req \in Requests
      /\ qr'.ctx \in Contexts
  BY <1>3 DEF Under
<1>8. /\ Expressible(qr'.enc, qr'.req) /\ Parsed(qr'.enc, qr'.req) /\ qr'.opts = Options(qr'.req)
  BY Zenon, <1>3, <1>6 DEF Under
<1> QED BY <1>3, <1>4, <1>5, <1>7, <1>8 DEF Under

\* A request's fields have numbers where Prepare expects them.
LEMMA OptionsTyped ==
    ASSUME NEW r \in Requests
    PROVE  Options(r).size \in Int /\ Options(r).content \in Nat
<1>1. r.size \in Int /\ r.content \in Nat
  BY RequestsAssumption
<1> QED BY <1>1 DEF Options, Num

\* The worker decides, stops for its context, or goes on to draw.
LEMMA PrepareKeeps == ASSUME Under, WorkerPrepare PROVE Under'
<1>1. qr.worker = "prepare" /\ DOMAIN qr = Fields
  BY DEF WorkerPrepare, Under
<1>2. Parsed(qr.enc, qr.req) /\ qr.opts = Options(qr.req) /\ qr.req \in Requests
  BY <1>1 DEF Under
<1>3. /\ Renderable(qr.opts) => Prepare(qr.opts) = "ok"
      /\ ~Renderable(qr.opts) => Prepare(qr.opts) \in Refusals
  BY <1>2, OptionsTyped, PrepareDecides
<1>4. "ok" \notin Refusals
  BY DEF Refusals
<1>5. CASE Prepare(qr.opts) # "ok" /\ Work(Prepare(qr.opts))
  <2>1. Settled(Prepare(qr.opts), qr.opts, qr.ctx)
    BY <1>3, <1>5 DEF Settled
  <2> QED BY <1>1, <1>5, <2>1, WorkKeeps
<1>6. CASE qr.ctx # "live" /\ Work(CtxError(qr.ctx))
  <2>1. Settled(CtxError(qr.ctx), qr.opts, qr.ctx)
    BY <1>6 DEF Settled
  <2> QED BY <1>1, <1>6, <2>1, WorkKeeps
<1>7. CASE /\ Prepare(qr.opts) = "ok" /\ qr.ctx = "live"
           /\ \E v \in Versions :
                qr' = [qr EXCEPT !.worker = "draw",
                         !.symbol = [version |-> v, level |-> Effective(qr.opts),
                                     scale |-> IF HasLogo(qr.opts) THEN qr.opts.scale ELSE 0]]
  <2>1. PICK s : qr' = [qr EXCEPT !.worker = "draw", !.symbol = s]
    BY Zenon, <1>7
  <2>2. /\ DOMAIN qr' = Fields /\ qr'.worker = "draw"
        /\ qr'.pc = qr.pc /\ qr'.enc = qr.enc /\ qr'.req = qr.req /\ qr'.opts = qr.opts
        /\ qr'.ctx = qr.ctx /\ qr'.answer = qr.answer /\ qr'.why = qr.why
    BY <1>1, <2>1 DEF Fields
  <2>3. AnswersFollowSchema'
    BY <2>2, SameAnswer DEF Under
  <2>4. Renderable(qr.opts)
    BY <1>3, <1>4, <1>7
  <2>5. /\ qr'.pc \in {"select", "answered"} /\ qr'.enc \in Encodings /\ qr'.req \in Requests
        /\ qr'.ctx \in Contexts
    BY <2>2 DEF Under
  <2>6. /\ Expressible(qr'.enc, qr'.req) /\ Parsed(qr'.enc, qr'.req) /\ qr'.opts = Options(qr'.req)
        /\ Renderable(qr'.opts)
    BY Zenon, <1>2, <2>2, <2>4 DEF Under
  <2> QED BY <2>2, <2>3, <2>5, <2>6 DEF Under
<1> QED BY <1>5, <1>6, <1>7 DEF WorkerPrepare

\* Steps that leave the request, its parsing and any answer alone.
LEMMA SameRequest ==
    ASSUME Under, DOMAIN qr' = Fields,
           qr'.pc = qr.pc, qr'.enc = qr.enc, qr'.req = qr.req, qr'.opts = qr.opts,
           qr'.answer = qr.answer, qr'.why = qr.why,
           qr'.ctx \in Contexts, qr'.worker \in {"draw", "send", "ended", qr.worker},
           qr.worker = "ended" => qr'.worker = "ended",
           qr'.worker = "draw" => qr.worker = "draw",
           qr'.pc = "select" /\ qr'.worker \in {"send", "ended"}
              => Settled(qr'.done, qr'.opts, qr'.ctx)
    PROVE  Under'
<1>1. AnswersFollowSchema'
  BY SameAnswer DEF Under
<1>2. /\ qr'.pc \in {"select", "answered"} /\ qr'.enc \in Encodings /\ qr'.req \in Requests
      /\ qr'.worker \in {"prepare", "draw", "send", "ended"}
  BY DEF Under
<1>3. Expressible(qr'.enc, qr'.req)
  BY Zenon DEF Under
<1>4. \/ Parsed(qr'.enc, qr'.req) /\ qr'.opts = Options(qr'.req)
      \/ ~Parsed(qr'.enc, qr'.req) /\ qr'.pc = "answered" /\ qr'.worker = "ended"
  BY Zenon DEF Under
<1>5. qr'.worker = "draw" => Renderable(qr'.opts)
  BY Zenon DEF Under
<1> QED BY <1>1, <1>2, <1>3, <1>4, <1>5 DEF Under

\* The worker draws a band, finishes, or stops for its context.
LEMMA DrawKeeps == ASSUME Under, WorkerDraw PROVE Under'
<1>1. qr.worker = "draw" /\ DOMAIN qr = Fields /\ Renderable(qr.opts)
  BY DEF WorkerDraw, Under
<1>2. CASE qr.ctx # "live" /\ Work(CtxError(qr.ctx))
  <2>1. Settled(CtxError(qr.ctx), qr.opts, qr.ctx)
    BY <1>2 DEF Settled
  <2> QED BY <1>1, <1>2, <2>1, WorkKeeps
<1>3. CASE Work("image")
  <2>1. Settled("image", qr.opts, qr.ctx)
    BY <1>1 DEF Settled
  <2> QED BY <1>1, <1>3, <2>1, WorkKeeps
<1>4. CASE qr' = [qr EXCEPT !.bands = @ - 1]
  <2>1. /\ DOMAIN qr' = Fields /\ qr'.pc = qr.pc /\ qr'.enc = qr.enc /\ qr'.req = qr.req
        /\ qr'.opts = qr.opts /\ qr'.answer = qr.answer /\ qr'.why = qr.why
        /\ qr'.worker = qr.worker /\ qr'.ctx = qr.ctx
    BY <1>1, <1>4 DEF Fields
  <2>2. qr'.ctx \in Contexts
    BY <2>1 DEF Under
  <2> QED BY <1>1, <2>1, <2>2, SameRequest
<1> QED BY <1>2, <1>3, <1>4 DEF WorkerDraw

\* The send never waits: the channel has room for the one result.
LEMMA SendKeeps == ASSUME Under, WorkerSend PROVE Under'
<1>1. qr.worker = "send" /\ DOMAIN qr = Fields /\ qr' = [qr EXCEPT !.worker = "ended"]
  BY DEF WorkerSend, Under
<1>2. /\ DOMAIN qr' = Fields /\ qr'.pc = qr.pc /\ qr'.enc = qr.enc /\ qr'.req = qr.req
      /\ qr'.opts = qr.opts /\ qr'.answer = qr.answer /\ qr'.why = qr.why
      /\ qr'.worker = "ended" /\ qr'.ctx = qr.ctx /\ qr'.done = qr.done
  BY <1>1 DEF Fields
<1>3. qr'.ctx \in Contexts
  BY <1>2 DEF Under
<1>4. qr.pc = "select" => Settled(qr.done, qr.opts, qr.ctx)
  BY <1>1 DEF Under
<1>5. qr'.pc = "select" => Settled(qr'.done, qr'.opts, qr'.ctx)
  BY Zenon, <1>2, <1>4
<1> QED BY <1>1, <1>2, <1>3, <1>5, SameRequest

\* The time budget runs out, or the client leaves: a result that is there is
\* none the worse for it.
LEMMA ContextKeeps ==
    ASSUME Under, NEW why \in {"deadline", "canceled"}, qr.ctx = "live",
           qr' = [qr EXCEPT !.ctx = why]
    PROVE  Under'
<1>1. DOMAIN qr = Fields
  BY DEF Under
<1>2. /\ DOMAIN qr' = Fields /\ qr'.pc = qr.pc /\ qr'.enc = qr.enc /\ qr'.req = qr.req
      /\ qr'.opts = qr.opts /\ qr'.answer = qr.answer /\ qr'.why = qr.why
      /\ qr'.worker = qr.worker /\ qr'.ctx = why /\ qr'.done = qr.done
  BY <1>1 DEF Fields
<1>3. qr'.ctx \in Contexts
  BY <1>2 DEF Contexts
<1>4. ASSUME Settled(qr.done, qr.opts, qr.ctx) PROVE Settled(qr'.done, qr'.opts, qr'.ctx)
  <2>1. \/ qr.done = "image" /\ Renderable(qr.opts)
        \/ qr.done \in Refusals /\ ~Renderable(qr.opts)
    BY <1>4 DEF Settled
  <2> QED BY Zenon, <1>2, <2>1 DEF Settled
<1>5. qr'.pc = "select" /\ qr'.worker \in {"send", "ended"} => Settled(qr'.done, qr'.opts, qr'.ctx)
  BY <1>2, <1>4 DEF Under
<1> QED BY <1>2, <1>3, <1>5, SameRequest

\* Render returns what the worker sent, or the error of its context.
LEMMA SelectKeeps == ASSUME Under, Select PROVE Under'
<1>1. qr.pc = "select" /\ DOMAIN qr = Fields /\ qr.ctx \in Contexts
  BY DEF Select, Under
<1>2. PICK a : /\ Return(a)
               /\ \/ qr.worker = "ended" /\ a = qr.done
                  \/ qr.ctx # "live" /\ a = CtxError(qr.ctx)
  BY DEF Select
<1>3. Parsed(qr.enc, qr.req) /\ qr.opts = Options(qr.req)
  BY <1>1 DEF Under
<1>4. Settled(a, qr.opts, qr.ctx)
  <2>1. CASE qr.worker = "ended" /\ a = qr.done
    <3>1. Settled(qr.done, qr.opts, qr.ctx)
      BY <1>1, <2>1 DEF Under
    <3> QED BY Zenon, <2>1, <3>1
  <2>2. CASE qr.ctx # "live" /\ a = CtxError(qr.ctx)
    BY <2>2 DEF Settled
  <2> QED BY <1>2, <2>1, <2>2
<1>5. PICK end \in Contexts : qr' = [qr EXCEPT !.pc = "answered", !.answer = a, !.why = qr.ctx, !.ctx = end]
  <2>1. (IF qr.ctx = "live" THEN "canceled" ELSE qr.ctx) \in Contexts
    BY <1>1 DEF Contexts
  <2>2. qr' = [qr EXCEPT !.pc = "answered", !.answer = a, !.why = qr.ctx,
                         !.ctx = IF qr.ctx = "live" THEN "canceled" ELSE qr.ctx]
    BY <1>1, <1>2 DEF Return, Fields
  <2> QED BY Zenon, <2>1, <2>2
<1>6. /\ DOMAIN qr' = Fields /\ qr'.pc = "answered" /\ qr'.enc = qr.enc /\ qr'.req = qr.req
      /\ qr'.opts = qr.opts /\ qr'.answer = a /\ qr'.why = qr.ctx
      /\ qr'.worker = qr.worker /\ qr'.ctx = end /\ qr'.done = qr.done
  BY <1>1, <1>5 DEF Fields
<1>7. Acceptable(qr.enc, qr.req) <=> Renderable(qr.opts)
  <2>1. Acceptable(qr.enc, qr.req) <=> Parsed(qr.enc, qr.req) /\ Renderable(Options(qr.req))
    BY SchemaDecides DEF Under
  <2> QED BY Zenon, <1>3, <2>1
<1>8. AnswersFollowSchema'
  <2>1. \/ a = "render_timeout" /\ qr.ctx = "deadline"
        \/ a = "canceled" /\ qr.ctx = "canceled"
        \/ /\ a \notin {"render_timeout", "canceled"}
           /\ (a = "image") <=> Acceptable(qr.enc, qr.req)
    BY <1>1, <1>4, <1>7 DEF Settled, CtxError, Contexts, Refusals
  <2> QED BY Zenon, <1>6, <2>1 DEF AnswersFollowSchema
<1>9. /\ qr'.enc \in Encodings /\ qr'.req \in Requests /\ qr'.ctx \in Contexts
      /\ qr'.worker \in {"prepare", "draw", "send", "ended"}
  BY <1>6 DEF Under
<1>10. /\ Expressible(qr'.enc, qr'.req) /\ Parsed(qr'.enc, qr'.req) /\ qr'.opts = Options(qr'.req)
       /\ qr'.worker = "draw" => Renderable(qr'.opts)
  BY Zenon, <1>3, <1>6 DEF Under
<1> QED BY <1>6, <1>8, <1>9, <1>10 DEF Under

\* Every step of a request and its worker.
LEMMA ImageStepKeeps == ASSUME ImageInv, QrNext PROVE ImageInv'
<1>1. CASE qr = Idle
  <2>1. qr.pc = "idle" /\ qr.worker = "none"
    BY <1>1 DEF Idle
  <2>2. \E enc \in Encodings, r \in Requests : Receive(enc, r)
    BY <2>1 DEF QrNext, Worker, WorkerPrepare, WorkerDraw, WorkerSend, Select, Deadline,
                ClientLeaves, Finish
  <2> QED BY <2>2, ReceiveKeeps DEF ImageInv
<1>2. CASE Under
  <2>1. qr.pc # "idle"
    BY <1>2 DEF Under
  <2>2. CASE Worker
    BY <1>2, <2>2, PrepareKeeps, DrawKeeps, SendKeeps DEF Worker, ImageInv
  <2>3. CASE Select
    BY <1>2, <2>3, SelectKeeps DEF ImageInv
  <2>4. CASE Deadline
    BY <1>2, <2>4, ContextKeeps DEF Deadline, ImageInv
  <2>5. CASE ClientLeaves
    BY <1>2, <2>5, ContextKeeps DEF ClientLeaves, ImageInv
  <2>6. CASE Finish
    BY <2>6 DEF Finish, ImageInv
  <2> QED BY <2>1, <2>2, <2>3, <2>4, <2>5, <2>6 DEF QrNext
<1> QED BY <1>1, <1>2 DEF ImageInv

-----------------------------------------------------------------------------
(* The request side as a whole                                             *)

\* Each part keeps its own invariant and does not touch the others' state.
FrontInv == LimiterInv /\ GateInv /\ ListInv /\ ImageInv

\* A step of the request side is a step of one of its parts.
LEMMA FrontKeeps == FrontInv /\ [FrontNext]_frontVars => FrontInv'
<1> SUFFICES ASSUME FrontInv, [FrontNext]_frontVars PROVE FrontInv'
  OBVIOUS
<1>1. gateVars' = gateVars => LimiterInv' /\ GateInv'
  BY DEF FrontInv, gateVars, LimiterInv, Refilled, GateInv, GateHolds
<1>2. listVars' = listVars => ListInv'
  <2> SUFFICES ASSUME listVars' = listVars PROVE ListInv'
    OBVIOUS
  <2>1. time' = time /\ codes' = codes /\ list' = list
    BY DEF listVars
  <2>2. RowsTyped' /\ Live' = Live
    BY <2>1 DEF FrontInv, ListInv, RowsTyped, Live
  <2> QED BY <2>1, <2>2, RowsStayPut DEF FrontInv
<1>3. qr' = qr => ImageInv'
  <2> SUFFICES ASSUME qr' = qr PROVE ImageInv'
    OBVIOUS
  <2>1. CASE qr = Idle
    BY <2>1 DEF ImageInv
  <2>2. CASE Under
    <3>1. DOMAIN qr' = Fields /\ qr'.ctx \in Contexts
      BY <2>2 DEF Under
    <3>2. qr'.pc = "select" /\ qr'.worker \in {"send", "ended"} => Settled(qr'.done, qr'.opts, qr'.ctx)
      BY <2>2 DEF Under
    <3> QED BY <2>2, <3>1, <3>2, SameRequest DEF ImageInv
  <2> QED BY <2>1, <2>2 DEF FrontInv, ImageInv
<1>4. CASE Gating /\ GateNext
  BY <1>2, <1>3, <1>4, GateStepKeeps DEF Gating, FrontInv
<1>5. CASE Listing /\ ListNext
  BY <1>1, <1>3, <1>5, ListStepKeeps DEF Listing, FrontInv
<1>6. CASE Imaging /\ QrNext
  BY <1>1, <1>2, <1>6, ImageStepKeeps DEF Imaging, FrontInv
<1>7. CASE UNCHANGED frontVars
  BY <1>1, <1>2, <1>3, <1>7 DEF frontVars, FrontInv
<1> QED BY <1>4, <1>5, <1>6, <1>7 DEF FrontNext

\* The invariant holds throughout.
LEMMA FrontInvariant == FrontSpec => []FrontInv
<1>1. FrontInit => FrontInv
  <2> SUFFICES ASSUME FrontInit PROVE FrontInv
    OBVIOUS
  <2>1. GateInit /\ ListInit /\ QrInit
    BY DEF FrontInit
  <2>2. LimiterInv
    BY <2>1, LimiterInitially DEF GateInit
  <2>3. ImageInv
    BY <2>1 DEF QrInit, ImageInv
  <2> QED BY <2>1, <2>2, <2>3, GateInitially, ListInitially DEF FrontInv
<1> QED BY <1>1, FrontKeeps, PTL DEF FrontSpec

\* For every set of peers and every order of their requests, sign-ins and
\* dying sessions: what the chains of the router let through is what GateHolds
\* says, and a dead cookie costs its browser one request (NewRouter, reject).
THEOREM GateTheorem == FrontSpec => []GateHolds
<1>1. FrontInv => GateHolds
  BY DEF FrontInv, GateInv
<1> QED BY <1>1, FrontInvariant, PTL

\* The password limiter in its place behind the gate is exact as well.
THEOREM GateLimiterTheorem == FrontSpec => []LimiterIsExact
<1>1. FrontInv => LimiterIsExact
  BY DEF FrontInv, LimiterInv, LimiterIsExact
<1> QED BY <1>1, FrontInvariant, PTL

\* For every set of codes, filter and page size, whatever is created and
\* deleted between two pages: a listing shows every code that stays exactly
\* once (ListCodes of the SQL drivers).
THEOREM ListingTheorem == FrontSpec => []ListedOnce
<1>1. FrontInv => ListedOnce
  BY DEF FrontInv, ListInv, Progress, ListedOnce
<1> QED BY <1>1, FrontInvariant, PTL

\* For every request that can be written, in each encoding and at any limits
\* of the instance, and whichever of the worker, the budget and the client is
\* first: an image is answered exactly when the schema accepts the request.
THEOREM SchemaTheorem == FrontSpec => []AnswersFollowSchema
<1>1. FrontInv => AnswersFollowSchema
  <2> SUFFICES ASSUME FrontInv PROVE AnswersFollowSchema
    OBVIOUS
  <2>1. CASE qr = Idle
    BY <2>1 DEF Idle, AnswersFollowSchema
  <2>2. CASE Under
    BY <2>2 DEF Under
  <2> QED BY <2>1, <2>2 DEF FrontInv, ImageInv
<1> QED BY <1>1, FrontInvariant, PTL

-----------------------------------------------------------------------------
(* The picture: the hole, the pixels and the shapes of a row               *)

\* The first and the last edge of a picture lie inside it.
LEMMA EdgesInside ==
    ASSUME NEW size \in Nat, NEW total \in Nat \ {0}
    PROVE  edge(size, total, 0) >= 0 /\ edge(size, total, total) <= size
<1>1. CASE size >= total
  <2>1. PICK px : px = size \div total
    OBVIOUS
  <2>2. px \in Nat /\ px * total <= size
    BY <2>1
  <2>3. PICK q \in Nat : q = px * total /\ q = total * px
    BY <2>2
  <2>4. edge(size, total, total) = (size - q) \div 2 + q
    BY <1>1, <2>1, <2>3 DEF edge
  <2>5. edge(size, total, 0) = (size - q) \div 2 + 0
    BY <1>1, <2>1, <2>2, <2>3 DEF edge
  <2> QED BY <2>2, <2>3, <2>4, <2>5
<1>2. CASE size < total
  <2>1. edge(size, total, total) = (2 * total * size + total) \div (2 * total)
    BY <1>2 DEF edge
  <2>2. edge(size, total, 0) = (2 * 0 * size + total) \div (2 * total)
    BY <1>2 DEF edge
  <2>3. (2 * 0 * size + total) \div (2 * total) >= 0
    OBVIOUS
  <2>4. (2 * total * size + total) \div (2 * total) <= size
    OBVIOUS
  <2> QED BY <2>1, <2>2, <2>3, <2>4
<1> QED BY <1>1, <1>2

\* The greater and the lesser of two numbers.
LEMMA OfTwo ==
    ASSUME NEW a \in Int, NEW b \in Int
    PROVE  /\ Max({a, b}) = IF a >= b THEN a ELSE b
           /\ Min({a, b}) = IF a <= b THEN a ELSE b
BY DEF Max, Min

\* What the smallest and the largest symbol hold, roughly.
Capacious(area) == area \in Nat /\ area >= 180 /\ area <= 31000

\* How many modules of a symbol hold codewords.
LEMMA CodewordModules == ASSUME NEW v \in 1..40 PROVE Capacious(rawDataModules(v))
<1>1. PICK a \in 0..5 : a = v \div 7
  OBVIOUS
<1>2. 7 * a <= v /\ v <= 7 * a + 6
  BY <1>1
<1>3. PICK w \in Nat : w = v * v
  OBVIOUS
<1>4. /\ w >= 1 /\ w <= 1600 /\ (v >= 2 => w >= 4) /\ (v >= 7 => w >= 49)
  <2>1. v * v >= 1 /\ v * v <= 1600
    OBVIOUS
  <2>2. v >= 2 => v * v >= 4
    OBVIOUS
  <2>3. v >= 7 => v * v >= 49
    OBVIOUS
  <2> QED BY <1>3, <2>1, <2>2, <2>3
<1>5. (16 * v + 128) * v = 16 * w + 128 * v
  BY <1>3
<1>6. PICK c \in Int : c = (25 * (a + 2) - 10) * (a + 2) - 55
  OBVIOUS
<1>7. rawDataModules(v) = 16 * w + 128 * v + 64 - (IF v >= 2 THEN c ELSE 0) - (IF v >= 7 THEN 36 ELSE 0)
  BY <1>1, <1>5, <1>6 DEF rawDataModules
<1>8. \/ a = 0 /\ c = 25
      \/ a = 1 /\ c = 140
      \/ a = 2 /\ c = 305
      \/ a = 3 /\ c = 520
      \/ a = 4 /\ c = 785
      \/ a = 5 /\ c = 1100
  BY <1>6
<1>9. c >= 25 /\ c <= 1100 /\ (v >= 2 => 128 * v - c >= 200)
  BY <1>2, <1>8
<1>10. PICK m \in Int : m = (IF v >= 2 THEN c ELSE 0) + (IF v >= 7 THEN 36 ELSE 0)
  OBVIOUS
<1>11. PICK r \in Int : r = 16 * w + 128 * v + 64 - m
  OBVIOUS
<1>12. rawDataModules(v) = r
  BY <1>7, <1>10, <1>11
<1>13. r >= 180 /\ r <= 31000
  <2>1. CASE v = 1
    <3>1. m = 0
      BY <1>10, <2>1
    <3> QED BY <1>4, <1>3, <1>11, <2>1, <3>1
  <2>2. CASE v >= 2
    <3>1. m >= c /\ m <= c + 36
      BY <1>10, <2>2
    <3> QED BY <1>4, <1>9, <1>11, <2>2, <3>1
  <2> QED BY <2>1, <2>2
<1> QED BY <1>12, <1>13 DEF Capacious

\* Between a number outside a set and a larger one in it the set begins.
LEMMA FirstIn ==
    ASSUME NEW S, S \subseteq Nat, 0 \notin S, NEW top \in S
    PROVE  \E j \in Nat : j < top /\ j \notin S /\ j + 1 \in S
<1>1. PICK k \in S : \A n \in S : k <= n
  BY LeastNumber
<1>2. k \in Nat /\ k # 0 /\ k <= top /\ top \in Nat
  BY <1>1
<1>3. k - 1 \in Nat /\ k - 1 < top /\ k = (k - 1) + 1 /\ ~(k <= k - 1)
  BY <1>2
<1>4. k - 1 \notin S
  BY <1>1, <1>3
<1> QED BY <1>3, <1>4

\* The integer root of a hundredth, and what lies above it.
IsRoot(k, x) == 100 * k * k <= x /\ 100 * (k + 1) * (k + 1) > x
Above(k, x) == 100 * k * k > x

\* Every number has such a root.
LEMMA RootExists ==
    ASSUME NEW x \in Nat, NEW top \in Nat, Above(top, x)
    PROVE  \E j \in Nat : j < top /\ IsRoot(j, x)
<1> DEFINE T == {k \in Nat : Above(k, x)}
<1>1. ~Above(0, x) /\ \A k \in Nat : Above(k, x) \/ 100 * k * k <= x
  BY DEF Above
<1>2. T \subseteq Nat /\ top \in T /\ 0 \notin T
  BY <1>1
<1> HIDE DEF T
<1>3. PICK j \in Nat : j < top /\ j \notin T /\ j + 1 \in T
  BY <1>2, FirstIn
<1>4. ~Above(j, x) /\ Above(j + 1, x)
  BY <1>3 DEF T
<1>5. 100 * j * j <= x
  BY <1>1, <1>4
<1>6. 100 * (j + 1) * (j + 1) > x
  BY <1>4 DEF Above
<1> QED BY <1>3, <1>5, <1>6 DEF IsRoot

\* Root is that root: there is one for all a symbol can hold.
LEMMA RootOf ==
    ASSUME NEW scale \in 1..25, NEW area, Capacious(area)
    PROVE  Root(scale, area) \in Nat /\ IsRoot(Root(scale, area), scale * area)
<1>1. PICK x \in Nat : x = scale * area /\ x <= 775000
  BY DEF Capacious
<1>2. PICK top \in Nat : top = 181 /\ Above(top, x)
  BY <1>1 DEF Above
<1>3. PICK j \in Nat : j < top /\ IsRoot(j, x)
  BY <1>2, RootExists
<1>4. j \in 0..180
  BY <1>2, <1>3
<1>5. Root(scale, area) = CHOOSE m \in 0..180 : IsRoot(m, scale * area)
  BY DEF Root, IsRoot
<1>6. IsRoot(j, scale * area)
  BY <1>1, <1>3
<1>7. Root(scale, area) \in 0..180 /\ IsRoot(Root(scale, area), scale * area)
  BY <1>4, <1>5, <1>6
<1> QED BY <1>7

\* The hole of a logo is odd, at least three modules wide, clear of the
\* finders, and hides no more codewords than the level's budget.
LEMMA HoleFits ==
    ASSUME NEW v \in 1..40, NEW scale \in 1..25, NEW level \in Levels, scale <= logoBudget(level)
    PROVE  LET hole == logoHole(v, scale)
           IN  /\ hole % 2 = 1 /\ hole >= 3 /\ (Side(v) - hole) \div 2 >= 8
               /\ 100 * hole * hole <= logoBudget(level) * rawDataModules(v)
<1>1. PICK raw : raw = rawDataModules(v) /\ Capacious(raw)
  BY CodewordModules
<1>2. PICK k \in Nat : k = Root(scale, raw) /\ IsRoot(k, scale * raw)
  BY <1>1, RootOf
<1>3. PICK b \in Nat : b = logoBudget(level) /\ b >= 5 /\ b <= 25 /\ scale <= b
  <2>1. level = 0 \/ level = 1 \/ level = 2 \/ level = 3
    BY DEF Levels
  <2>2. logoBudget(level) \in {5, 12, 20, 25}
    BY <2>1 DEF logoBudget
  <2> QED BY <2>2
<1>4. scale * raw <= b * raw /\ 900 <= b * raw /\ raw \in Nat
  BY <1>1, <1>3 DEF Capacious
<1>5. PICK q \in Int : q = OddBelow(k) /\ q % 2 = 1 /\ q <= k
  BY DEF OddBelow
<1>6. PICK z \in Nat : z = 4 * v + 1 /\ z = OddBelow(Side(v) - 16) /\ z % 2 = 1 /\ z >= 5
  BY DEF OddBelow, Side
<1>7. PICK p \in Nat : p = Max({q, 3}) /\ p = (IF q >= 3 THEN q ELSE 3)
  BY OfTwo
<1>8. PICK h : h = Min({p, z})
  OBVIOUS
<1>9. logoHole(v, scale) = h
  BY Zenon, <1>1, <1>2, <1>5, <1>6, <1>7, <1>8 DEF logoHole
<1>10. h \in Nat /\ h % 2 = 1 /\ h >= 3 /\ h <= p /\ h <= 4 * v + 1
  <2>1. p % 2 = 1 /\ p >= 3
    BY <1>5, <1>7
  <2>2. Min({p, z}) = IF p <= z THEN p ELSE z
    BY OfTwo
  <2>3. (p <= z /\ h = p) \/ (z <= p /\ h = z)
    BY <1>8, <2>2
  <2> QED BY <1>6, <2>1, <2>3
<1>11. (Side(v) - h) \div 2 >= 8
  BY <1>10 DEF Side
<1>12. 100 * p * p <= b * raw
  <2>1. CASE q >= 3
    <3>1. p <= k
      BY <1>5, <1>7, <2>1
    <3>2. 100 * p * p <= 100 * k * k
      BY <3>1
    <3>3. 100 * k * k <= scale * raw
      BY <1>2 DEF IsRoot
    <3> QED BY <1>4, <3>2, <3>3
  <2>2. CASE q < 3
    BY <1>4, <1>7, <2>2
  <2> QED BY <2>1, <2>2
<1>13. 100 * h * h <= 100 * p * p
  BY <1>10
<1>14. 100 * h * h <= b * raw
  BY <1>4, <1>10, <1>12, <1>13
<1> QED BY <1>1, <1>3, <1>9, <1>10, <1>11, <1>14

\* Induction from the end of a row.
LEMMA Backwards ==
    ASSUME NEW n \in Nat, NEW S,
           \A x \in 0..n : (\A y \in (x + 1)..n : y \in S) => x \in S
    PROVE  \A x \in 0..n : x \in S
<1> SUFFICES ASSUME \E x \in 0..n : x \notin S PROVE FALSE
  OBVIOUS
<1> DEFINE T == {j \in 0..n : (n - j) \notin S}
<1>1. T \subseteq Nat /\ T # {}
  <2>1. PICK x \in 0..n : x \notin S
    OBVIOUS
  <2>2. n - x \in 0..n /\ n - (n - x) = x
    BY <2>1
  <2>3. n - x \in T
    BY <2>1, <2>2
  <2>4. T \subseteq Nat
    OBVIOUS
  <2> HIDE DEF T
  <2> QED BY <2>3, <2>4
<1>2. PICK j \in T : \A k \in T : j <= k
  <2> HIDE DEF T
  <2> QED BY <1>1, LeastNumber
<1>3. n - j \in 0..n /\ n - j \notin S
  BY <1>2
<1>4. ASSUME NEW y \in ((n - j) + 1)..n PROVE y \in S
  <2>1. n - y \in 0..n /\ n - y < j /\ n - (n - y) = y
    BY <1>2
  <2>2. n - y \notin T
    BY <1>2, <2>1
  <2> QED BY <2>1, <2>2
<1> QED BY <1>3, <1>4

\* A row of modules.
IsRow(row) == /\ row.n \in Nat
              /\ row.dark \in [0..(row.n - 1) -> BOOLEAN]
              /\ row.finder \in [0..(row.n - 1) -> BOOLEAN]

\* The modules from x to w are drawn as one.
Joins(row, shape, x, w) ==
    \A y \in x..w : row.dark[y] /\ (shape = "square" \/ row.finder[y] = row.finder[x])

\* A run begins at its module and ends inside the row.
LEMMA RunInside ==
    ASSUME NEW row, IsRow(row), NEW shape, NEW x \in 0..(row.n - 1), row.dark[x]
    PROVE  RunEnd(row, shape, x) \in x..(row.n - 1) /\ Joins(row, shape, x, RunEnd(row, shape, x))
<1>1. PICK n \in Nat : n = row.n
  BY DEF IsRow
<1> DEFINE W == {w \in x..(n - 1) : Joins(row, shape, x, w)}
           T == {j \in 0..n : (n - j) \in W}
<1>2. x \in 0..(n - 1)
  BY <1>1
<1>3. Joins(row, shape, x, x)
  BY <1>2 DEF Joins
<1>4. x \in W
  BY <1>2, <1>3
<1>5. W \subseteq x..(n - 1)
  OBVIOUS
<1> HIDE DEF W
<1>6. n - x \in T
  BY <1>2, <1>4
<1>7. T \subseteq Nat /\ T # {}
  BY <1>6
<1>8. PICK j \in T : \A k \in T : j <= k
  <2> HIDE DEF T
  <2> QED BY <1>7, LeastNumber
<1>9. ASSUME NEW w \in W PROVE n - j >= w
  <2>1. w \in Nat /\ w <= n - 1 /\ n - w \in 0..n /\ n - (n - w) = w
    BY <1>2, <1>5
  <2>2. n - w \in T
    BY <2>1
  <2>3. j \in 0..n /\ j <= n - w
    BY <1>8, <2>2
  <2> QED BY <2>1, <2>3
<1>10. n - j \in W
  BY <1>8
<1>11. RunEnd(row, shape, x) = Max(W)
  BY <1>1 DEF RunEnd, W, Joins
<1>12. Max(W) = CHOOSE w \in W : \A y \in W : w >= y
  BY DEF Max
<1>13. Max(W) \in W
  BY <1>9, <1>10, <1>12
<1>14. PICK e : e = RunEnd(row, shape, x) /\ e \in W
  BY <1>11, <1>13
<1>15. e \in x..(n - 1) /\ Joins(row, shape, x, e)
  BY <1>14 DEF W
<1> QED BY <1>1, <1>14, <1>15

\* What computeGeometry says of module x, given what follows it.
Shapes(f, row, shape, x) ==
    IF x >= row.n THEN {}
    ELSE IF ~row.dark[x] THEN f[x + 1]
    ELSE IF shape = "dot" /\ ~row.finder[x] THEN {<<x, x>>} \cup f[x + 1]
    ELSE {<<x, RunEnd(row, shape, x)>>} \cup f[RunEnd(row, shape, x) + 1]

\* A function that obeys the equations of the row from module k on.
Draws(f, row, shape, k) == f = [x \in k..row.n |-> Shapes(f, row, shape, x)]

\* The equations look only ahead.
LEMMA LooksAhead ==
    ASSUME NEW row, IsRow(row), NEW shape, NEW x \in 0..row.n, NEW f, NEW g,
           \A y \in (x + 1)..row.n : f[y] = g[y]
    PROVE  Shapes(f, row, shape, x) = Shapes(g, row, shape, x)
<1>1. PICK n \in Nat : n = row.n
  BY DEF IsRow
<1>2. CASE x >= n
  BY <1>1, <1>2 DEF Shapes
<1>3. CASE x < n /\ ~row.dark[x]
  <2>1. x + 1 \in (x + 1)..n
    BY <1>1, <1>3
  <2>2. f[x + 1] = g[x + 1]
    BY <1>1, <2>1
  <2>3. ~(x >= row.n)
    BY <1>1, <1>3
  <2> QED BY Zenon, <1>3, <2>2, <2>3 DEF Shapes
<1>4. CASE x < n /\ row.dark[x]
  <2>1. x \in 0..(row.n - 1)
    BY <1>1, <1>4
  <2>2. PICK e \in x..(n - 1) : e = RunEnd(row, shape, x)
    BY <1>1, <1>4, <2>1, RunInside
  <2>3. x + 1 \in (x + 1)..n /\ e + 1 \in (x + 1)..n
    BY <1>1, <1>4, <2>2
  <2>4. f[x + 1] = g[x + 1] /\ f[e + 1] = g[e + 1]
    BY <1>1, <2>3
  <2>5. ~(x >= row.n)
    BY <1>1, <1>4
  <2> QED BY Zenon, <1>4, <2>2, <2>4, <2>5 DEF Shapes
<1> QED BY <1>1, <1>2, <1>3, <1>4

\* The recursion is well founded: there is such a function.
LEMMA DrawExists ==
    ASSUME NEW row, IsRow(row), NEW shape
    PROVE  \E f : Draws(f, row, shape, 0)
<1>1. PICK n \in Nat : n = row.n
  BY DEF IsRow
<1> DEFINE S == {k \in 0..n : \E f : Draws(f, row, shape, k)}
<1>2. ASSUME NEW k \in 0..n, \A y \in (k + 1)..n : y \in S PROVE k \in S
  <2>1. PICK f : k < n => Draws(f, row, shape, k + 1)
    <3>1. CASE k < n
      <4>1. k + 1 \in S
        BY <1>2, <3>1
      <4> QED BY <4>1
    <3>2. CASE ~(k < n)
      BY <3>2
    <3> QED BY <3>1, <3>2
  <2>2. PICK g : g = [x \in k..n |-> IF x = k THEN Shapes(f, row, shape, k) ELSE f[x]]
    OBVIOUS
  <2>3. \A x \in (k + 1)..n : g[x] = f[x]
    BY <2>2
  <2>4. ASSUME NEW x \in k..n PROVE g[x] = Shapes(g, row, shape, x)
    <3>1. \A y \in (x + 1)..row.n : f[y] = g[y]
      BY <1>1, <2>3
    <3>2. x \in 0..row.n
      BY <1>1
    <3>3. Shapes(f, row, shape, x) = Shapes(g, row, shape, x)
      BY <3>1, <3>2, LooksAhead
    <3>4. CASE x = k
      BY <2>2, <3>3, <3>4
    <3>5. CASE x # k
      <4>1. x \in (k + 1)..n /\ k < n
        BY <3>5
      <4>2. f = [y \in (k + 1)..row.n |-> Shapes(f, row, shape, y)]
        BY Zenon, <2>1, <4>1 DEF Draws
      <4>3. f[x] = Shapes(f, row, shape, x)
        BY <1>1, <4>1, <4>2
      <4> QED BY <2>3, <3>3, <4>1, <4>3
    <3> QED BY <3>4, <3>5
  <2>5. g = [x \in k..n |-> Shapes(g, row, shape, x)]
    BY <2>2, <2>4
  <2>6. Draws(g, row, shape, k)
    BY Zenon, <1>1, <2>5 DEF Draws
  <2> QED BY <1>2, <2>6
<1>3. 0 \in S
  <2> HIDE DEF S
  <2>1. 0 \in 0..n
    OBVIOUS
  <2>2. \A x \in 0..n : x \in S
    BY <1>2, Backwards
  <2> QED BY <2>1, <2>2
<1> QED BY <1>3

\* The row is drawn by such a function, from its first module.
LEMMA GeometryDraws ==
    ASSUME NEW row, IsRow(row), NEW shape
    PROVE  \E f : Draws(f, row, shape, 0) /\ computeGeometry(row, shape) = f[0]
<1>1. PICK f : f = CHOOSE g : Draws(g, row, shape, 0)
  OBVIOUS
<1>2. Draws(f, row, shape, 0)
  BY <1>1, DrawExists
<1>3. computeGeometry(row, shape) = (CHOOSE g : g = [x \in 0..row.n |-> Shapes(g, row, shape, x)])[0]
  BY Zenon DEF computeGeometry, Shapes
<1>4. computeGeometry(row, shape) = f[0]
  BY Zenon, <1>1, <1>3 DEF Draws
<1> QED BY <1>2, <1>4

\* A shape of the row from module k on: a run that joins.
IsShape(s, row, shape, k) ==
    \E a, b \in Nat : s = <<a, b>> /\ k <= a /\ a <= b /\ b < row.n /\ Joins(row, shape, a, b)

\* The dark modules from k on are covered once, and nothing else is.
Covers(drawn, row, shape, k) ==
    /\ \A s \in drawn : IsShape(s, row, shape, k)
    /\ \A x \in k..(row.n - 1) : row.dark[x] => \E s \in drawn : x \in s[1]..s[2]
    /\ \A s, t \in drawn, x \in 0..(row.n - 1) : x \in s[1]..s[2] /\ x \in t[1]..t[2] => s = t

\* One shape more, before all others.
LEMMA CoversMore ==
    ASSUME NEW row, IsRow(row), NEW shape, NEW k \in 0..row.n, NEW e \in Nat,
           k <= e, e < row.n, Joins(row, shape, k, e), NEW rest, Covers(rest, row, shape, e + 1)
    PROVE  Covers({<<k, e>>} \cup rest, row, shape, k)
<1>1. PICK n \in Nat : n = row.n
  BY DEF IsRow
<1>2. k \in Nat /\ k <= n
  BY <1>1
<1>3. ASSUME NEW s \in rest PROVE /\ IsShape(s, row, shape, k) /\ s[1] \in Nat /\ s[2] \in Nat
                                  /\ s[1] > e
  <2>1. PICK a, b \in Nat : s = <<a, b>> /\ e + 1 <= a /\ a <= b /\ b < row.n /\ Joins(row, shape, a, b)
    BY DEF Covers, IsShape
  <2>2. k <= a /\ a > e
    BY <1>2, <2>1
  <2>3. s[1] = a /\ s[2] = b
    BY <2>1
  <2> QED BY <2>1, <2>2, <2>3 DEF IsShape
<1>4. IsShape(<<k, e>>, row, shape, k)
  BY <1>2 DEF IsShape
<1>5. PICK one : one = <<k, e>> /\ one[1] = k /\ one[2] = e
  <2>1. <<k, e>>[1] = k /\ <<k, e>>[2] = e
    OBVIOUS
  <2> QED BY Zenon, <2>1
<1>6. ASSUME NEW x \in k..(n - 1), row.dark[x] PROVE \E s \in {one} \cup rest : x \in s[1]..s[2]
  <2>1. CASE x <= e
    BY <1>2, <1>5, <2>1
  <2>2. CASE x > e
    <3>1. x \in (e + 1)..(n - 1)
      BY <2>2
    <3>2. \E s \in rest : x \in s[1]..s[2]
      BY <1>1, <1>6, <3>1 DEF Covers
    <3> QED BY <3>2
  <2> QED BY <1>2, <2>1, <2>2
<1>7. ASSUME NEW s \in {one} \cup rest, NEW t \in {one} \cup rest, NEW x \in 0..(n - 1),
             x \in s[1]..s[2], x \in t[1]..t[2]
      PROVE  s = t
  <2>1. CASE s = one /\ t \in rest
    <3>1. x <= e /\ x >= t[1] /\ t[1] > e /\ t[1] \in Nat
      BY <1>2, <1>3, <1>5, <1>7, <2>1
    <3> QED BY <3>1
  <2>2. CASE t = one /\ s \in rest
    <3>1. x <= e /\ x >= s[1] /\ s[1] > e /\ s[1] \in Nat
      BY <1>2, <1>3, <1>5, <1>7, <2>2
    <3> QED BY <3>1
  <2>3. CASE s \in rest /\ t \in rest
    BY <1>1, <1>7, <2>3 DEF Covers
  <2> QED BY <1>7, <2>1, <2>2, <2>3
<1>8. \A s \in {one} \cup rest : IsShape(s, row, shape, k)
  BY <1>3, <1>4, <1>5
<1>9. Covers({one} \cup rest, row, shape, k)
  BY <1>1, <1>6, <1>7, <1>8 DEF Covers
<1> QED BY <1>5, <1>9

\* A light module is passed over.
LEMMA CoversLight ==
    ASSUME NEW row, IsRow(row), NEW shape, NEW k \in 0..(row.n - 1), ~row.dark[k],
           NEW rest, Covers(rest, row, shape, k + 1)
    PROVE  Covers(rest, row, shape, k)
<1>1. PICK n \in Nat : n = row.n
  BY DEF IsRow
<1>2. ASSUME NEW s \in rest PROVE IsShape(s, row, shape, k)
  <2>1. PICK a, b \in Nat : s = <<a, b>> /\ k + 1 <= a /\ a <= b /\ b < row.n /\ Joins(row, shape, a, b)
    BY DEF Covers, IsShape
  <2>2. k <= a
    BY <1>1, <2>1
  <2> QED BY <2>1, <2>2 DEF IsShape
<1>3. ASSUME NEW x \in k..(n - 1), row.dark[x] PROVE \E s \in rest : x \in s[1]..s[2]
  <2>1. x # k
    BY <1>3
  <2>2. x \in (k + 1)..(n - 1)
    BY <1>1, <2>1
  <2> QED BY <1>1, <1>3, <2>2 DEF Covers
<1> QED BY <1>1, <1>2, <1>3 DEF Covers

\* Each suffix of the row is covered by the shapes drawn from there.
LEMMA DrawCovers ==
    ASSUME NEW row, IsRow(row), NEW shape, NEW f, Draws(f, row, shape, 0)
    PROVE  Covers(f[0], row, shape, 0)
<1>1. PICK n \in Nat : n = row.n
  BY DEF IsRow
<1> DEFINE S == {k \in 0..n : Covers(f[k], row, shape, k)}
<1>2. \A k \in 0..n : f[k] = Shapes(f, row, shape, k)
  <2>1. f = [x \in 0..n |-> Shapes(f, row, shape, x)]
    BY Zenon, <1>1 DEF Draws
  <2> QED BY <2>1
<1>3. ASSUME NEW k \in 0..n, \A y \in (k + 1)..n : y \in S PROVE k \in S
  <2>1. \A y \in (k + 1)..n : Covers(f[y], row, shape, y)
    BY <1>3
  <2>2. CASE k = n
    <3>1. f[k] = {}
      <4>1. k >= row.n
        BY <1>1, <2>2
      <4> QED BY Zenon, <1>2, <4>1 DEF Shapes
    <3>2. Covers({}, row, shape, k)
      BY <1>1, <2>2 DEF Covers
    <3> QED BY <3>1, <3>2
  <2>3. CASE k < n /\ ~row.dark[k]
    <3>1. f[k] = f[k + 1]
      <4>1. ~(k >= row.n)
        BY <1>1, <2>3
      <4> QED BY <1>2, <2>3, <4>1 DEF Shapes
    <3>2. k + 1 \in (k + 1)..n /\ k \in 0..(row.n - 1)
      BY <1>1, <2>3
    <3>3. Covers(f[k + 1], row, shape, k + 1)
      BY <2>1, <3>2
    <3>4. Covers(f[k + 1], row, shape, k)
      BY <2>3, <3>2, <3>3, CoversLight
    <3> QED BY <3>1, <3>4
  <2>4. CASE k < n /\ row.dark[k]
    <3>1. PICK e \in k..(n - 1) : f[k] = {<<k, e>>} \cup f[e + 1] /\ Joins(row, shape, k, e)
      <4>1. ~(k >= row.n) /\ k \in 0..(row.n - 1)
        BY <1>1, <2>4
      <4>2. CASE shape = "dot" /\ ~row.finder[k]
        <5>1. f[k] = {<<k, k>>} \cup f[k + 1]
          BY Zenon, <1>2, <2>4, <4>1, <4>2 DEF Shapes
        <5>2. k \in k..(n - 1) /\ Joins(row, shape, k, k)
          BY <1>1, <2>4 DEF Joins
        <5> QED BY <5>1, <5>2
      <4>3. CASE ~(shape = "dot" /\ ~row.finder[k])
        <5>1. f[k] = {<<k, RunEnd(row, shape, k)>>} \cup f[RunEnd(row, shape, k) + 1]
          BY Zenon, <1>2, <2>4, <4>1, <4>3 DEF Shapes
        <5>2. RunEnd(row, shape, k) \in k..(n - 1) /\ Joins(row, shape, k, RunEnd(row, shape, k))
          BY <1>1, <2>4, <4>1, RunInside
        <5> QED BY <5>1, <5>2
      <4> QED BY <4>2, <4>3
    <3>2. e + 1 \in (k + 1)..n /\ e \in Nat /\ k <= e /\ e < row.n /\ k \in 0..row.n
      BY <1>1, <3>1
    <3>3. Covers(f[e + 1], row, shape, e + 1)
      BY <2>1, <3>2
    <3>4. Covers({<<k, e>>} \cup f[e + 1], row, shape, k)
      BY <3>1, <3>2, <3>3, CoversMore
    <3> QED BY <3>1, <3>4
  <2> QED BY <2>2, <2>3, <2>4
<1>4. 0 \in S
  <2> HIDE DEF S
  <2>1. 0 \in 0..n
    OBVIOUS
  <2>2. \A x \in 0..n : x \in S
    BY <1>3, Backwards
  <2> QED BY <2>1, <2>2
<1> QED BY <1>4

\* computeGeometry draws every row right.
LEMMA RowsDrawnOnce ==
    ASSUME NEW row, IsRow(row), NEW shape
    PROVE  DrawnOnce(row, shape)
<1>1. PICK n \in Nat : n = row.n
  BY DEF IsRow
<1>2. PICK drawn : drawn = computeGeometry(row, shape) /\ Covers(drawn, row, shape, 0)
  BY GeometryDraws, DrawCovers
<1>3. ASSUME NEW s \in drawn
      PROVE  /\ s[1] \in Nat /\ s[2] \in Nat /\ s[1] <= s[2] /\ s[2] < n
             /\ \A x \in s[1]..s[2] : row.dark[x] /\ (shape = "square" \/ row.finder[x] = row.finder[s[1]])
  <2>1. PICK a, b \in Nat : s = <<a, b>> /\ a <= b /\ b < row.n /\ Joins(row, shape, a, b)
    BY <1>2 DEF Covers, IsShape
  <2>2. s[1] = a /\ s[2] = b
    BY <2>1
  <2> QED BY <1>1, <2>1, <2>2 DEF Joins
<1>4. ASSUME NEW x \in 0..(n - 1)
      PROVE  Cardinality({s \in drawn : x \in s[1]..s[2]}) = IF row.dark[x] THEN 1 ELSE 0
  <2> DEFINE over == {s \in drawn : x \in s[1]..s[2]}
  <2>1. CASE row.dark[x]
    <3>1. PICK t \in drawn : x \in t[1]..t[2]
      BY <1>1, <1>2, <2>1 DEF Covers
    <3>2. \A s \in over : s = t
      BY <1>1, <1>2, <3>1 DEF Covers
    <3>3. over = {t}
      BY <3>1, <3>2
    <3> QED BY <2>1, <3>3, FS_Singleton
  <2>2. CASE ~row.dark[x]
    <3>1. over = {}
      BY <1>3, <2>2
    <3> QED BY <2>2, <3>1, FS_EmptySet
  <2> QED BY <2>1, <2>2
<1> QED BY <1>1, <1>2, <1>3, <1>4 DEF DrawnOnce

\* While the worker draws, the symbol is one the encoder may have picked, at
\* the level and with the logo that Prepare settled on.
SymbolInv ==
    qr.worker = "draw" =>
        \E v \in Versions :
           qr.symbol = [version |-> v, level |-> Effective(qr.opts),
                        scale |-> IF HasLogo(qr.opts) THEN qr.opts.scale ELSE 0]

\* Nobody touches the symbol that is being drawn.
LEMMA SymbolKeeps == ASSUME ImageInv, SymbolInv, QrNext PROVE SymbolInv'
<1>1. CASE qr = Idle
  <2>1. qr.pc = "idle" /\ qr.worker = "none"
    BY <1>1 DEF Idle
  <2>2. PICK enc \in Encodings, r \in Requests : Receive(enc, r)
    BY <2>1 DEF QrNext, Worker, WorkerPrepare, WorkerDraw, WorkerSend, Select, Deadline,
                ClientLeaves, Finish
  <2>3. qr'.worker # "draw"
    BY <2>2 DEF Receive
  <2> QED BY <2>3 DEF SymbolInv
<1>2. CASE Under
  <2>1. DOMAIN qr = Fields /\ qr.pc # "idle"
    BY <1>2 DEF Under
  <2>2. ASSUME NEW to, Work(to) PROVE SymbolInv'
    <3>1. qr'.worker = "send"
      BY <2>1, <2>2 DEF Work, Fields
    <3> QED BY <3>1 DEF SymbolInv
  <2>3. ASSUME qr'.worker = qr.worker, qr'.symbol = qr.symbol, qr'.opts = qr.opts PROVE SymbolInv'
    BY Zenon, <2>3 DEF SymbolInv
  <2>4. CASE WorkerPrepare
    <3>1. ASSUME NEW v \in Versions,
                 qr' = [qr EXCEPT !.worker = "draw",
                          !.symbol = [version |-> v, level |-> Effective(qr.opts),
                                      scale |-> IF HasLogo(qr.opts) THEN qr.opts.scale ELSE 0]]
          PROVE  SymbolInv'
      <4>1. PICK s : s = [version |-> v, level |-> Effective(qr.opts),
                          scale |-> IF HasLogo(qr.opts) THEN qr.opts.scale ELSE 0]
        OBVIOUS
      <4>2. qr' = [qr EXCEPT !.worker = "draw", !.symbol = s]
        BY Zenon, <3>1, <4>1
      <4>3. qr'.symbol = s /\ qr'.opts = qr.opts
        BY <2>1, <4>2 DEF Fields
      <4> QED BY Zenon, <4>1, <4>3 DEF SymbolInv
    <3> QED BY Zenon, <2>2, <2>4, <3>1 DEF WorkerPrepare
  <2>5. CASE WorkerDraw
    <3>1. CASE qr' = [qr EXCEPT !.bands = @ - 1]
      <4>1. qr'.worker = qr.worker /\ qr'.symbol = qr.symbol /\ qr'.opts = qr.opts
        BY <2>1, <3>1 DEF Fields
      <4> QED BY <2>3, <4>1
    <3> QED BY Zenon, <2>2, <2>5, <3>1 DEF WorkerDraw
  <2>6. CASE WorkerSend
    <3>1. qr'.worker = "ended"
      BY <2>1, <2>6 DEF WorkerSend, Fields
    <3> QED BY <3>1 DEF SymbolInv
  <2>7. CASE Select
    <3>1. PICK a : Return(a)
      BY <2>7 DEF Select
    <3>2. PICK end : qr' = [qr EXCEPT !.pc = "answered", !.answer = a, !.why = qr.ctx, !.ctx = end]
      BY Zenon, <3>1 DEF Return
    <3>3. qr'.worker = qr.worker /\ qr'.symbol = qr.symbol /\ qr'.opts = qr.opts
      BY <2>1, <3>2 DEF Fields
    <3> QED BY <2>3, <3>3
  <2>8. CASE Deadline \/ ClientLeaves
    <3>1. qr'.worker = qr.worker /\ qr'.symbol = qr.symbol /\ qr'.opts = qr.opts
      BY <2>1, <2>8 DEF Deadline, ClientLeaves, Fields
    <3> QED BY <2>3, <3>1
  <2>9. CASE Finish
    <3>1. qr'.worker = "none"
      BY <2>9 DEF Finish, Idle
    <3> QED BY <3>1 DEF SymbolInv
  <2> QED BY <2>1, <2>4, <2>5, <2>6, <2>7, <2>8, <2>9 DEF QrNext, Worker
<1> QED BY <1>1, <1>2 DEF ImageInv

\* A logo is encoded at a level that bears it, never under the one asked for.
LEMMA EffectiveBears ==
    ASSUME NEW o, o.level \in Levels, Effective(o) # -1
    PROVE  /\ Effective(o) \in Levels /\ Effective(o) >= o.level
           /\ HasLogo(o) => o.scale <= logoBudget(Effective(o))
<1>1. o.level \in Nat /\ Levels \subseteq Nat
  BY DEF Levels
<1>2. CASE ~HasLogo(o)
  BY <1>1, <1>2 DEF Effective
<1>3. CASE HasLogo(o)
  <2>1. PICK B : B = Bearing(o.level, o.scale, o.raise)
    OBVIOUS
  <2>2. Effective(o) = IF B = {} THEN -1 ELSE Min(B)
    BY Zenon, <1>3, <2>1 DEF Effective, resolveLogoLevel
  <2>3. B # {} /\ Effective(o) = Min(B)
    BY Zenon, <2>2
  <2>4. B \subseteq Levels /\ B \subseteq Nat
    BY <1>1, <2>1 DEF Bearing
  <2>5. Min(B) \in B
    BY <2>3, <2>4, MinIsLeast
  <2>6. \A l \in B : l \in Levels /\ o.scale <= logoBudget(l) /\ (l = o.level \/ l > o.level)
    BY <2>1 DEF Bearing
  <2>7. PICK l \in B : l = Effective(o)
    BY <2>3, <2>5
  <2>8. l \in Nat /\ l \in Levels /\ o.scale <= logoBudget(l) /\ (l = o.level \/ l > o.level)
    BY <2>4, <2>6, <2>7
  <2>9. l >= o.level
    BY <1>1, <2>8
  <2> QED BY Zenon, <2>7, <2>8, <2>9
<1> QED BY <1>2, <1>3

\* What is drawn can be read.
LEMMA DrawnReadable == ImageInv /\ SymbolInv => SymbolReadable
<1> SUFFICES ASSUME ImageInv, SymbolInv, qr.worker = "draw" PROVE SymbolReadable
  BY DEF SymbolReadable
<1>1. Under
  BY DEF ImageInv, Idle
<1>2. PICK o : o = qr.opts /\ Renderable(o) /\ qr.req \in Requests /\ o = Options(qr.req)
  BY <1>1 DEF Under
<1>3. normalise(o) /\ Effective(o) # -1
  BY <1>2 DEF Renderable
<1>4. /\ o.shape \in {"square", "dot", "rounded"} /\ o.margin \in Nat /\ o.size \in Nat
      /\ o.level \in Levels
      /\ HasLogo(o) => o.scale > 0 /\ o.scale <= 25
  <2>1. o.size \in Int
    BY <1>2, OptionsTyped
  <2> QED BY <1>3, <2>1 DEF normalise, MaxLogoScale
<1>5. o.scale \in Int
  <2>1. qr.req.scale \in Int
    BY <1>2, RequestsAssumption
  <2> QED BY <1>2, <2>1 DEF Options, Num
<1>6. PICK v \in Versions :
        qr.symbol = [version |-> v, level |-> Effective(o), scale |-> IF HasLogo(o) THEN o.scale ELSE 0]
  BY Zenon, <1>2 DEF SymbolInv
<1>7. v \in 1..40
  BY SymbolsAssumption
<1>8. PICK scale : scale = IF HasLogo(o) THEN o.scale ELSE 0
  OBVIOUS
<1> DEFINE level == Effective(o)
<1>9. qr.symbol.version = v /\ qr.symbol.level = level /\ qr.symbol.scale = scale
  BY <1>6, <1>8
<1>10. level \in Levels /\ level >= o.level /\ (HasLogo(o) => o.scale <= logoBudget(level))
  BY Zenon, <1>3, <1>4, <1>8, EffectiveBears
<1> DEFINE hole == logoHole(v, scale)
           total == Side(v) + 2 * o.margin
<1>11. scale > 0 => /\ hole % 2 = 1 /\ hole >= 3 /\ (Side(v) - hole) \div 2 >= 8
                    /\ 100 * hole * hole <= logoBudget(level) * rawDataModules(v)
  <2> SUFFICES ASSUME scale > 0
               PROVE  /\ hole % 2 = 1 /\ hole >= 3 /\ (Side(v) - hole) \div 2 >= 8
                      /\ 100 * hole * hole <= logoBudget(level) * rawDataModules(v)
    OBVIOUS
  <2>1. HasLogo(o) /\ scale = o.scale
    <3>1. CASE ~HasLogo(o)
      <4>1. scale = 0
        BY Zenon, <1>8, <3>1
      <4> QED BY <4>1
    <3>2. CASE HasLogo(o)
      BY Zenon, <1>8, <3>2
    <3> QED BY <3>1, <3>2
  <2>2. scale \in 1..25
    BY <1>4, <1>5, <2>1
  <2>3. scale <= logoBudget(level)
    BY <1>10, <2>1
  <2> QED BY Zenon, <1>7, <1>10, <2>2, <2>3, HoleFits
<1>12. total \in Nat \ {0}
  BY <1>4, <1>7 DEF Side
<1>13. edge(o.size, total, 0) >= 0 /\ edge(o.size, total, total) <= o.size
  BY Zenon, <1>4, <1>12, EdgesInside
<1>14. o.shape \in DrawnRight
  <2>1. \A row \in Rows : DrawnOnce(row, o.shape)
    BY Zenon, SymbolsAssumption, RowsDrawnOnce DEF IsRow
  <2> QED BY <1>4, <2>1 DEF DrawnRight
<1> HIDE DEF hole, total, level
<1> QED BY Zenon, <1>2, <1>9, <1>10, <1>11, <1>13, <1>14 DEF SymbolReadable, hole, total

\* For every version of the standard and every row of modules, at any size,
\* margin, level, shape and logo a request may ask for: the picture that is
\* drawn can be read (logoHole, resolveLogoLevel, computeGeometry, edge).
THEOREM SymbolTheorem == FrontSpec => []SymbolReadable
<1>1. FrontInit => SymbolInv
  BY DEF FrontInit, QrInit, Idle, SymbolInv
<1>2. FrontInv /\ SymbolInv /\ [FrontNext]_frontVars => SymbolInv'
  <2> SUFFICES ASSUME FrontInv, SymbolInv, [FrontNext]_frontVars PROVE SymbolInv'
    OBVIOUS
  <2>1. qr' = qr => SymbolInv'
    BY Zenon DEF SymbolInv
  <2>2. CASE Imaging /\ QrNext
    BY <2>2, SymbolKeeps DEF FrontInv
  <2>3. qr' = qr \/ (Imaging /\ QrNext)
    BY DEF FrontNext, Gating, Listing, frontVars
  <2> QED BY <2>1, <2>2, <2>3
<1>3. FrontInv /\ SymbolInv => SymbolReadable
  BY DrawnReadable DEF FrontInv
<1> QED BY <1>1, <1>2, <1>3, FrontInvariant, PTL DEF FrontSpec

=============================================================================
