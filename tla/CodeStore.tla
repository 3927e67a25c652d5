----------------------------- MODULE CodeStore -----------------------------
(***************************************************************************)
(* The metadata store's codes and alias_reservations tables, one action    *)
(* per committed transaction (internal/store/sqlite, the reference driver: *)
(* one writer connection, so transactions are serial).                     *)
(*                                                                         *)
(* A row is never removed: DeleteCode is a soft delete.  A reservation     *)
(* row is never removed either: ReleaseAlias marks it released and a later *)
(* registration of the same short code re-arms it.                         *)
(*                                                                         *)
(* A call that fails changes nothing; what it answers is given by the      *)
(* ...Result and ...Errors operators, which CodesService branches on.      *)
(***************************************************************************)
EXTENDS Naturals, FiniteSets

CONSTANTS
  CodeId,      \* code identifiers (domain.NewCodeID): random, never reused
  ShortCode,   \* lower-cased short codes
  User,        \* owners
  Ref,         \* client references
  Dest,        \* destinations
  NoRow,       \* "this id has no row"
  NoRef,       \* client_ref IS NULL
  MaxVersion,  \* bound: a row takes no update once its version reaches it
  MaxBatch     \* bound: rows in one CreateCodes transaction

VARIABLES
  codes,       \* [CodeId -> row or NoRow]
  reservations \* [ShortCode -> the code id that holds it (or NoRow), released?]

storeVars == <<codes, reservations>>

Mode  == {"dynamic", "direct"}
State == {"active", "disabled", "deleted"}

(* What a caller supplies for a new row, and a row as it is stored.        *)
NewRow == [short : ShortCode, user : User, mode : Mode,
           ref : Ref \cup {NoRef}, dest : Dest, state : {"active", "disabled"}]

Row == [short : ShortCode, user : User, mode : Mode, ref : Ref \cup {NoRef},
        dest : Dest, state : State, version : Nat \ {0}]

ASSUME StoreAssumption ==
  /\ NoRow \notin CodeId
  /\ NoRow \notin Row
  /\ NoRef \notin Ref
  /\ MaxVersion \in Nat \ {0}
  /\ MaxBatch \in Nat \ {0}

Reservation == [code : CodeId \cup {NoRow}, released : BOOLEAN]

TypeOK ==
  /\ codes \in [CodeId -> Row \cup {NoRow}]
  /\ reservations \in [ShortCode -> Reservation]

-----------------------------------------------------------------------------
(* Reads.                                                                  *)

Stored == {c \in CodeId : codes[c] # NoRow}

Live == {c \in Stored : codes[c].state # "deleted"}

Owned(c, u) == c \in Stored /\ codes[c].user = u

Reserved(s) == reservations[s].code # NoRow /\ ~reservations[s].released

\* The rows GetCodeByShortCode's WHERE clause selects: the live row, or the
\* deleted one that still holds the reservation.
Resolvable(s) ==
  {c \in Stored : /\ codes[c].short = s
                  /\ \/ codes[c].state # "deleted"
                     \/ Reserved(s) /\ reservations[s].code = c}

\* ORDER BY (state = 'deleted'), ... LIMIT 1: a live row first.
GetCodeByShortCode(s) ==
  CASE Resolvable(s) \cap Live # {} -> CHOOSE c \in Resolvable(s) \cap Live : TRUE
    [] Resolvable(s) \cap Live = {} /\ Resolvable(s) # {} ->
                                       CHOOSE c \in Resolvable(s) : TRUE
    [] OTHER                        -> NoRow

GetCodeByClientRef(u, r) ==
  {c \in Stored : codes[c].user = u /\ codes[c].ref = r}

IsAliasAvailable(s) ==
  /\ \A c \in Live : codes[c].short # s
  /\ ~Reserved(s)

-----------------------------------------------------------------------------
(* Transactions.                                                           *)

\* Mutant: only the index on live rows guards the namespace.
BugIgnoreReservation(s) == \A c \in Live : codes[c].short # s

\* insertCode meets three obstacles: the partial unique index over live rows,
\* the unique (user, client_ref) index over all rows, and an upsert of the
\* reservation that touches no row while it is unreleased.
ShortFree(s) ==
  /\ \A c \in Live : codes[c].short # s
  /\ ~Reserved(s)

\* Mutant: the client_ref index covers live rows only.
BugRefAmongLive(u, r) == r = NoRef \/ GetCodeByClientRef(u, r) \cap Live = {}

RefFree(u, r) == r = NoRef \/ GetCodeByClientRef(u, r) = {}

SameRef(x, y) == x.ref # NoRef /\ x.ref = y.ref /\ x.user = y.user

\* rows is a function from fresh ids to NewRow.  The errors its transaction may
\* report: when both indexes are violated, whichever the driver meets first.
InsertErrors(rows) ==
  {e \in {"alias_taken", "client_ref_taken"} :
     CASE e = "alias_taken" ->
            \/ \E c \in DOMAIN rows : ~ShortFree(rows[c].short)
            \/ \E c, d \in DOMAIN rows : c # d /\ rows[c].short = rows[d].short
       [] e = "client_ref_taken" ->
            \/ \E c \in DOMAIN rows : ~RefFree(rows[c].user, rows[c].ref)
            \/ \E c, d \in DOMAIN rows : c # d /\ SameRef(rows[c], rows[d])}

StoredRow(r) ==
  [short |-> r.short, user |-> r.user, mode |-> r.mode, ref |-> r.ref,
   dest |-> r.dest, state |-> r.state, version |-> 1]

CreateCodes(rows) ==
  /\ DOMAIN rows \cap Stored = {}
  /\ InsertErrors(rows) = {}
  /\ codes' = [c \in CodeId |-> IF c \in DOMAIN rows THEN StoredRow(rows[c])
                                ELSE codes[c]]
  /\ reservations' =
       [s \in ShortCode |->
          IF \E c \in DOMAIN rows : rows[c].short = s
          THEN [code |-> CHOOSE c \in DOMAIN rows : rows[c].short = s,
                released |-> FALSE]
          ELSE reservations[s]]

\* Every UPDATE of a row also increments its version.
Amended(r, d, st) ==
  [short |-> r.short, user |-> r.user, mode |-> r.mode, ref |-> r.ref,
   dest |-> d, state |-> st, version |-> r.version + 1]

\* What a guarded UPDATE that may touch zero rows answers (ownedExists).
UpdateResult(c, u, v) ==
  CASE ~Owned(c, u)                                    -> "not_found"
    [] Owned(c, u) /\ (codes[c].version # v \/ c \notin Live) -> "conflict"
    [] OTHER                                           -> "ok"

UpdateDestination(c, u, d, v) ==
  /\ UpdateResult(c, u, v) = "ok"
  /\ v < MaxVersion
  /\ codes' = [codes EXCEPT ![c] = Amended(codes[c], d, codes[c].state)]
  /\ UNCHANGED reservations

\* Mutant: the UPDATE forgets AND state != 'deleted'.
BugReviveDeleted(c, u) == IF Owned(c, u) THEN "ok" ELSE "not_found"

SetStateResult(c, u) ==
  CASE ~Owned(c, u)                     -> "not_found"
    [] Owned(c, u) /\ c \notin Live     -> "conflict"
    [] OTHER                            -> "ok"

SetCodeState(c, u, st) ==
  /\ SetStateResult(c, u) = "ok"
  /\ st \in {"active", "disabled"}
  /\ codes[c].version < MaxVersion
  /\ codes' = [codes EXCEPT ![c] = Amended(codes[c], codes[c].dest, st)]
  /\ UNCHANGED reservations

\* Mutant: deleting a code frees its short code as well.
BugDeleteReleases(c, u) ==
  /\ Owned(c, u) /\ c \in Live
  /\ codes' = [codes EXCEPT ![c] = Amended(codes[c], codes[c].dest, "deleted")]
  /\ reservations' = [reservations EXCEPT ![codes[c].short].released = TRUE]

\* Deleting a deleted code succeeds and changes nothing; the reservation is
\* left alone either way.
DeleteCode(c, u) ==
  /\ Owned(c, u)
  /\ codes' = IF c \in Live
              THEN [codes EXCEPT ![c] = Amended(codes[c], codes[c].dest, "deleted")]
              ELSE codes
  /\ UNCHANGED reservations

\* Mutant: the count of live codes is not consulted.
BugReleaseLive(s) == IF Reserved(s) THEN "ok" ELSE "not_found"

ReleaseResult(s) ==
  CASE ~Reserved(s)                                                -> "not_found"
    [] Reserved(s) /\ \E c \in Live : codes[c].short = s           -> "conflict"
    [] OTHER                                                       -> "ok"

ReleaseAlias(s) ==
  /\ ReleaseResult(s) = "ok"
  /\ reservations' = [reservations EXCEPT ![s].released = TRUE]
  /\ UNCHANGED codes

-----------------------------------------------------------------------------
StoreInit ==
  /\ codes = [c \in CodeId |-> NoRow]
  /\ reservations = [s \in ShortCode |-> [code |-> NoRow, released |-> FALSE]]

BatchIds == {S \in SUBSET CodeId : S # {} /\ IsFiniteSet(S) /\ Cardinality(S) <= MaxBatch}

StoreNext ==
  \/ \E S \in BatchIds : S \cap Stored = {} /\ \E rows \in [S -> NewRow] : CreateCodes(rows)
  \/ \E c \in CodeId, u \in User :
       \/ \E d \in Dest, v \in 1..MaxVersion : UpdateDestination(c, u, d, v)
       \/ \E st \in State : SetCodeState(c, u, st)
       \/ DeleteCode(c, u)
  \/ \E s \in ShortCode : ReleaseAlias(s)

StoreSpec == StoreInit /\ [][StoreNext]_storeVars

-----------------------------------------------------------------------------
(* Properties.                                                             *)

\* Every live code holds the unreleased reservation of its short code, and a
\* reservation names a row that carries that short code: the two guards of the
\* namespace (the index on live codes and alias_reservations) never disagree.
LiveHoldsReservation ==
  /\ \A c \in Live : Reserved(codes[c].short) /\ reservations[codes[c].short].code = c
  /\ \A s \in ShortCode : reservations[s].code # NoRow =>
       reservations[s].code \in Stored /\ codes[reservations[s].code].short = s

\* A scan has one answer: the WHERE clause of GetCodeByShortCode never selects
\* two rows, although deleted rows may share a short code with a live one.
ScanUnambiguous ==
  \A s \in ShortCode : \A c, d \in Resolvable(s) : c = d

\* One row per (user, client_ref), deleted rows included: what makes retrying a
\* batch safe.
ClientRefUnique ==
  \A u \in User, r \in Ref : \A c, d \in GetCodeByClientRef(u, r) : c = d

\* Both lookups the service builds on, by short code and by client_ref, find at
\* most one row, although deleted rows keep either (sqlite.go GetCodeByShortCode
\* and GetCodeByClientRef).
LookupsUnambiguous == ScanUnambiguous /\ ClientRefUnique

\* No transaction hands a short code from one code to another: what a printed
\* code resolves to stays that code until an admin release empties it (FR-018).
NoSilentHijack ==
  [][\A s \in ShortCode : Resolvable(s) # {} => Resolvable(s)' \in {Resolvable(s), {}}]_storeVars

\* A row keeps its identity and only moves forward: every change bumps the
\* version by one, and a deleted row never changes again.
RowsOnlyMoveForward ==
  [][\A c \in Stored :
       codes'[c] # codes[c] =>
         /\ codes'[c].version = codes[c].version + 1
         /\ codes[c].state # "deleted"
         /\ codes'[c].short = codes[c].short /\ codes'[c].user = codes[c].user
         /\ codes'[c].mode = codes[c].mode /\ codes'[c].ref = codes[c].ref]_storeVars

(* The store implements the abstract namespace.                            *)
PhaseOf(s) ==
  IF ~Reserved(s) THEN "free"
  ELSE IF codes[reservations[s].code].state = "deleted" THEN "retired" ELSE "live"

HolderOf(s) == IF Reserved(s) THEN reservations[s].code ELSE NoRow

Namespace == INSTANCE AliasNamespace WITH
  Nobody <- NoRow,
  phase  <- [s \in ShortCode |-> PhaseOf(s)],
  holder <- [s \in ShortCode |-> HolderOf(s)],
  spent  <- Stored

\* Each transaction claims, retires or releases short codes as AliasNamespace
\* allows, or leaves the namespace alone.
ImplementsNamespace == Namespace!NamespaceSpec
=============================================================================
