--------------------------- MODULE ResolverCache ---------------------------
(***************************************************************************)
(* The scan path's cache (internal/codes/cache.go): a bounded map from     *)
(* short codes to resolutions, each dropped TTL after it was created.  The *)
(* map itself is the otter library's; it is modelled from the options      *)
(* NewCache passes and the three calls the package makes.                  *)
(***************************************************************************)
EXTENDS CodeStore

CONSTANTS
  NotFound,     \* the cached negative, Resolution{Found: false}
  Absent,       \* no entry for the key
  TTL           \* CacheTTL, in ticks

VARIABLE cache  \* [ShortCode -> entry or Absent]

(* What Resolve remembers about a short code.                              *)
Resolution == [code : CodeId, dest : Dest, state : State] \cup {NotFound}

Entry == [res : Resolution, age : 0..(TTL - 1)]

ASSUME CacheAssumption ==
  /\ TTL \in Nat \ {0}
  /\ Absent \notin Entry
  /\ NotFound \notin [code : CodeId, dest : Dest, state : State]

CacheTypeOK == cache \in [ShortCode -> Entry \cup {Absent}]

CacheInit == cache = [s \in ShortCode |-> Absent]

Cached(s) == cache[s] # Absent

\* The resolution Resolve builds from its one store lookup.
Lookup(s) ==
  LET c == GetCodeByShortCode(s)
  IN  IF c = NoRow THEN NotFound
      ELSE [code |-> c, dest |-> codes[c].dest, state |-> codes[c].state]

\* What the redirect handler lets a scanner see: a destination, or the landing
\* page for unknown, disabled and deleted codes alike.
Landing == "landing"
Seen(r) == IF r # NotFound /\ r.state = "active" THEN r.dest ELSE Landing

-----------------------------------------------------------------------------
\* Mutant: a hit extends the entry's life (an access-based expiry).
BugHitExtends(s) == cache' = [cache EXCEPT ![s].age = 0]

\* Cache.Get on a present key: an ExpiryCreating entry does not age differently
\* for being read.
CacheHit(s) == UNCHANGED cache

\* Cache.Set: creating an entry starts its TTL, overwriting one does not.
CacheSet(s, r) ==
  cache' = [cache EXCEPT ![s] = [res |-> r,
                                 age |-> IF Cached(s) THEN cache[s].age ELSE 0]]

Invalidate(s) == cache' = [cache EXCEPT ![s] = Absent]

\* Time passes: every entry ages, and one whose TTL is over is gone.
CacheTick ==
  cache' = [s \in ShortCode |->
              IF ~Cached(s) \/ cache[s].age + 1 = TTL THEN Absent
              ELSE [res |-> cache[s].res, age |-> cache[s].age + 1]]

\* The map is at MaximumSize and gives an entry up.  ShortCode is a sample of
\* the keys in it, so that may happen at any time.
CacheEvict(s) == Cached(s) /\ cache' = [cache EXCEPT ![s] = Absent]
=============================================================================
