------------------------------ MODULE PgStore ------------------------------
(***************************************************************************)
(* The PostgreSQL driver (internal/store/postgres), statement by statement *)
(* at READ COMMITTED, the level BeginTx(ctx, nil) asks for.  Each client   *)
(* has a pooled connection; what holds the statements of one transaction   *)
(* together is only what Postgres gives every transaction: its own writes  *)
(* are visible to itself, the rows it wrote or selected FOR UPDATE are     *)
(* locked until it ends, and an insert waits for a transaction in progress *)
(* that may hold the same key of a unique index.                           *)
(*                                                                         *)
(* A statement that waits is one that is not enabled: at READ COMMITTED it *)
(* re-evaluates its WHERE clause on the row it waited for, so it behaves   *)
(* as if it had started when the wait was over.                            *)
(*                                                                         *)
(* CodeStore says what the committed tables may do; this module is shown   *)
(* to implement it.                                                        *)
(***************************************************************************)
EXTENDS Naturals, Sequences, FiniteSets, Relation, Functions

CONSTANTS
  CodeId, ShortCode, User, Ref, Dest, NoRow, NoRef, MaxVersion, MaxBatch,
  Client,     \* the goroutines that call the driver
  Batches,    \* what callers insert: sequences of CodeStore's NewRow
  Expected,   \* the versions callers send with an update
  Kinds,      \* the operations callers use, a subset of Operations
  MaxCalls,   \* bound: calls in a behaviour
  MaxFaults   \* bound: statements that fail, commits refused or not confirmed

VARIABLES
  codes, reservations,  \* the committed tables, as in CodeStore
  tx,                   \* [Client -> the transaction it runs, or ran last]
  failed,               \* the ids of inserts whose transaction reported an error
  calls, faults         \* what the bounds count

pgVars == <<codes, reservations, tx, failed, calls, faults>>

Store == INSTANCE CodeStore

Operations == {"create", "update", "state", "delete", "release"}

ASSUME PgAssumption ==
  /\ NoRow \notin CodeId /\ NoRow \notin Store!Row /\ NoRef \notin Ref
  /\ MaxVersion \in Nat /\ MaxBatch \in Nat \ {0}
  /\ \A b \in Batches : b \in Seq(Store!NewRow) /\ Len(b) \in 1..MaxBatch
  /\ Kinds \subseteq Operations
  /\ MaxVersion > MaxCalls  \* CodeStore's bound is not met here
  /\ Expected \subseteq Nat \ {0}
  /\ MaxCalls \in Nat /\ MaxFaults \in Nat

(* A call: its operation and arguments; insert is a sequence of [id, row].  *)
Call(op, insert, id, user, dest, version, short) ==
  [op |-> op, insert |-> insert, id |-> id, user |-> user, dest |-> dest,
   version |-> version, short |-> short]

NoCall == Call("none", <<>>, NoRow, NoRow, NoRow, 0, NoRow)

(* A transaction: the statement it is at, its uncommitted writes, the       *)
(* reservations it holds FOR UPDATE, and what the call answered.            *)
Transaction(c, at) ==
  [call |-> c, at |-> at, n |-> 1, codes |-> <<>>, res |-> <<>>, locked |-> {},
   answer |-> "none"]

Running(p) == tx[p].at \notin {"idle", "done"}

Others(p) == {q \in Client \ {p} : Running(q)}

\* What a statement of p reads: the committed rows under p's own writes.
CodeSeen(p, c) == IF c \in DOMAIN tx[p].codes THEN tx[p].codes[c] ELSE codes[c]

ResSeen(p, s) == IF s \in DOMAIN tx[p].res THEN tx[p].res[s] ELSE reservations[s]

-----------------------------------------------------------------------------
(* Locks.                                                                  *)

CodeLocked(p, c) == {q \in Others(p) : c \in DOMAIN tx[q].codes}

ResLocked(p, s) == {q \in Others(p) : s \in DOMAIN tx[q].res \cup tx[q].locked}

IsLive(r) == r # NoRow /\ r.state # "deleted"

\* The transactions in progress that wrote a row one of whose versions clashes.
InDoubt(p, Clash(_)) ==
  {q \in Others(p) : \E c \in DOMAIN tx[q].codes :
                        Clash(tx[q].codes[c]) \/ Clash(codes[c])}

ShortClash(r, s) == IsLive(r) /\ r.short = s

RefClash(r, x) == r # NoRow /\ x.ref # NoRef /\ r.ref = x.ref /\ r.user = x.user

Current(p) == tx[p].call.insert[tx[p].n]

-----------------------------------------------------------------------------
(* How a transaction ends (withTx).                                        *)

Inserted(k) == {k.insert[i].id : i \in DOMAIN k.insert}

\* The call returns; its connection goes back to the pool.
Answer(p, answer) ==
  /\ tx' = [tx EXCEPT ![p] = [Transaction(NoCall, "done") EXCEPT !.answer = answer]]
  /\ failed' = IF answer = "error" THEN failed \cup Inserted(tx[p].call) ELSE failed

\* An error from a statement rolls back: its writes and its locks are gone.
Rollback(p, answer) ==
  /\ Answer(p, answer)
  /\ UNCHANGED <<codes, reservations, calls>>

Apply(p) ==
  /\ codes' = [c \in CodeId |-> CodeSeen(p, c)]
  /\ reservations' = [s \in ShortCode |-> ResSeen(p, s)]

Commit(p) ==
  /\ tx[p].at = "commit"
  /\ Apply(p)
  /\ Answer(p, "ok")
  /\ UNCHANGED <<calls, faults>>

\* The connection is lost after the server committed and before the client
\* read so: Commit returns an error for a transaction that happened.
CommitLost(p) ==
  /\ tx[p].at = "commit" /\ faults < MaxFaults
  /\ Apply(p)
  /\ Answer(p, "error")
  /\ faults' = faults + 1
  /\ UNCHANGED calls

\* BeginTx, a statement or COMMIT fails, or the request's context ends.
Fail(p) ==
  /\ Running(p) /\ faults < MaxFaults
  /\ Rollback(p, "error")
  /\ faults' = faults + 1

\* Statement p is at succeeds and moves on.
Step(p, t) ==
  /\ tx' = [tx EXCEPT ![p] = t]
  /\ UNCHANGED <<codes, reservations, failed, calls, faults>>

Refuse(p, answer) == Rollback(p, answer) /\ UNCHANGED faults

-----------------------------------------------------------------------------
(* insertCode: a row of codes, then its reservation, for each code of the  *)
(* batch in the caller's order.                                            *)

ShortWait(p) == InDoubt(p, LAMBDA r : ShortClash(r, Current(p).row.short))

RefWait(p) == InDoubt(p, LAMBDA r : RefClash(r, Current(p).row))

ShortTaken(p) == \E c \in CodeId : ShortClash(CodeSeen(p, c), Current(p).row.short)

RefTaken(p) == \E c \in CodeId : RefClash(CodeSeen(p, c), Current(p).row)

\* INSERT INTO codes: each unique index waits for the rows in doubt, then
\* refuses a duplicate (translate names the sentinel after the index).
InsertRow(p) ==
  /\ tx[p].at = "insert"
  /\ \/ /\ ShortWait(p) = {} /\ ShortTaken(p)
        /\ Refuse(p, "alias_taken")
     \/ /\ RefWait(p) = {} /\ RefTaken(p)
        /\ Refuse(p, "client_ref_taken")
     \/ /\ ShortWait(p) = {} /\ RefWait(p) = {}
        /\ ~ShortTaken(p) /\ ~RefTaken(p)
        /\ Step(p, [tx[p] EXCEPT !.at = "reserve",
              !.codes = [c \in DOMAIN @ \cup {Current(p).id} |->
                 IF c = Current(p).id THEN Store!StoredRow(Current(p).row) ELSE @[c]]])

\* ON CONFLICT (short_code) DO UPDATE ... WHERE released_at IS NOT NULL.
Rearmable(r) == r.code = NoRow \/ r.released

WriteRes(t, s, r) ==
  [t EXCEPT !.res = [x \in DOMAIN t.res \cup {s} |-> IF x = s THEN r ELSE t.res[x]]]

UpsertReservation(p) ==
  /\ tx[p].at = "reserve"
  /\ LET s == Current(p).row.short IN
     /\ ResLocked(p, s) = {}
     /\ \/ /\ ~Rearmable(ResSeen(p, s))
           /\ Refuse(p, "alias_taken")
        \/ /\ Rearmable(ResSeen(p, s))
           /\ Step(p, [WriteRes(tx[p], s, [code |-> Current(p).id, released |-> FALSE])
                        EXCEPT !.n = @ + 1,
                               !.at = IF tx[p].n < Len(tx[p].call.insert)
                                      THEN "insert" ELSE "commit"])

-----------------------------------------------------------------------------
(* UpdateDestination, SetCodeState and DeleteCode: one guarded UPDATE, and *)
(* a look at the row when it touched none.                                 *)

\* Mutant: the UPDATE does not compare versions.
BugNoVersionGuard(k, r) == r # NoRow /\ r.user = k.user /\ r.state # "deleted"

UpdateWhere(k, r) ==
  r # NoRow /\ r.user = k.user /\ r.version = k.version /\ r.state # "deleted"

StateWhere(k, r) == r # NoRow /\ r.user = k.user /\ r.state # "deleted"

Where(k, r) ==
  IF k.op = "update" THEN UpdateWhere(k, r) ELSE StateWhere(k, r)

SetTo(k, r) ==
  CASE k.op = "update" -> Store!Amended(r, k.dest, r.state)
    [] k.op = "state"  -> Store!Amended(r, r.dest, "disabled")
    [] k.op = "delete" -> Store!Amended(r, r.dest, "deleted")

\* A row that matches is locked first; one that does not is not waited for.
UpdateRow(p) ==
  /\ tx[p].at = "update"
  /\ LET k == tx[p].call IN
     \/ /\ Where(k, codes[k.id]) /\ CodeLocked(p, k.id) = {}
        /\ Step(p, [tx[p] EXCEPT !.at = "commit",
                      !.codes = [c \in {k.id} |-> SetTo(k, codes[c])]])
     \/ /\ ~Where(k, codes[k.id])
        /\ Step(p, [tx[p] EXCEPT !.at = "exists"])

OwnedExists(p) ==
  /\ tx[p].at = "exists"
  /\ LET k == tx[p].call
         there == codes[k.id] # NoRow /\ codes[k.id].user = k.user IN
     \/ ~there /\ Refuse(p, "not_found")
     \/ there /\ k.op # "delete" /\ Refuse(p, "conflict")
     \/ there /\ k.op = "delete" /\ Step(p, [tx[p] EXCEPT !.at = "commit"])

-----------------------------------------------------------------------------
(* ReleaseAlias: lock the reservation, count live codes, mark it released. *)

Unreleased(r) == r.code # NoRow /\ ~r.released

LockReservation(p) ==
  /\ tx[p].at = "lock"
  /\ LET s == tx[p].call.short IN
     \/ ~Unreleased(reservations[s]) /\ Refuse(p, "not_found")
     \/ /\ Unreleased(reservations[s]) /\ ResLocked(p, s) = {}
        /\ Step(p, [tx[p] EXCEPT !.at = "count", !.locked = {s}])

\* Mutant: the count forgets state <> 'deleted'.
BugCountAnyRow(p) ==
  /\ tx[p].at = "count"
  /\ LET any == \E c \in CodeId : codes[c] # NoRow /\ codes[c].short = tx[p].call.short IN
     \/ any /\ Refuse(p, "conflict")
     \/ ~any /\ Step(p, [tx[p] EXCEPT !.at = "mark"])

CountLive(p) ==
  /\ tx[p].at = "count"
  /\ LET live == \E c \in CodeId : ShortClash(codes[c], tx[p].call.short) IN
     \/ live /\ Refuse(p, "conflict")
     \/ ~live /\ Step(p, [tx[p] EXCEPT !.at = "mark"])

MarkReleased(p) ==
  /\ tx[p].at = "mark"
  /\ LET s == tx[p].call.short IN
     \/ /\ Unreleased(reservations[s]) /\ ResLocked(p, s) = {}
        /\ Step(p, [WriteRes(tx[p], s, [reservations[s] EXCEPT !.released = TRUE])
                     EXCEPT !.at = "commit"])
     \/ /\ ~Unreleased(reservations[s])
        /\ Step(p, [tx[p] EXCEPT !.at = "commit"])

-----------------------------------------------------------------------------
(* Who waits for whom, and Postgres's deadlock detector, which fails one   *)
(* transaction of a cycle (40P01, which translate passes on).              *)

WaitsFor(p) ==
  CASE tx[p].at = "insert"  -> ShortWait(p) \cup RefWait(p)
    [] tx[p].at = "reserve" -> ResLocked(p, Current(p).row.short)
    [] tx[p].at = "update"  -> IF Where(tx[p].call, codes[tx[p].call.id])
                               THEN CodeLocked(p, tx[p].call.id) ELSE {}
    [] tx[p].at = "lock"    -> IF Unreleased(reservations[tx[p].call.short])
                               THEN ResLocked(p, tx[p].call.short) ELSE {}
    [] OTHER                -> {}

Deadlocked(p) ==
  TransitiveClosure([e \in Client \X Client |-> e[2] \in WaitsFor(e[1])], Client)[p, p]

DeadlockDetected(p) ==
  /\ Running(p) /\ WaitsFor(p) # {} /\ Deadlocked(p)
  /\ Refuse(p, "error")

-----------------------------------------------------------------------------
(* Callers.                                                                *)

Begin(p, k, at) ==
  /\ ~Running(p) /\ calls < MaxCalls
  /\ k.op \in Kinds
  /\ tx' = [tx EXCEPT ![p] = Transaction(k, at)]
  /\ calls' = calls + 1
  /\ UNCHANGED <<codes, reservations, failed, faults>>

\* Ids are random and never reused, so which unused ones is immaterial.
Unused ==
  {c \in CodeId \ failed : /\ codes[c] = NoRow
                           /\ \A q \in Client : c \notin Inserted(tx[q].call)}

Numbered(rows) ==
  LET ids == CHOOSE f \in Injection(DOMAIN rows, Unused) : TRUE
  IN  [i \in DOMAIN rows |-> [id |-> ids[i], row |-> rows[i]]]

BeginCreate(p) ==
  \E rows \in Batches :
    /\ Injection(DOMAIN rows, Unused) # {}
    /\ Begin(p, Call("create", Numbered(rows), NoRow, NoRow, NoRow, 0, NoRow), "insert")

\* An id the caller was given, or (any one) that has no row.
Nameable ==
  Store!Stored \cup IF Unused = {} THEN {} ELSE {CHOOSE c \in Unused : TRUE}

BeginUpdate(p) ==
  \E c \in Nameable, u \in User :
    \/ \E d \in Dest, v \in Expected :
         Begin(p, Call("update", <<>>, c, u, d, v, NoRow), "update")
    \/ Begin(p, Call("state", <<>>, c, u, NoRow, 0, NoRow), "update")
    \/ Begin(p, Call("delete", <<>>, c, u, NoRow, 0, NoRow), "update")

BeginRelease(p) ==
  \E s \in ShortCode : Begin(p, Call("release", <<>>, NoRow, NoRow, NoRow, 0, s), "lock")

PgInit ==
  /\ Store!StoreInit
  /\ tx = [p \in Client |-> Transaction(NoCall, "idle")]
  /\ calls = 0 /\ faults = 0 /\ failed = {}

PgNext ==
  \E p \in Client :
    \/ BeginCreate(p) \/ BeginUpdate(p) \/ BeginRelease(p)
    \/ InsertRow(p) \/ UpsertReservation(p)
    \/ UpdateRow(p) \/ OwnedExists(p)
    \/ LockReservation(p) \/ CountLive(p) \/ MarkReleased(p)
    \/ Commit(p) \/ CommitLost(p) \/ Fail(p) \/ DeadlockDetected(p)

PgSpec == PgInit /\ [][PgNext]_pgVars

-----------------------------------------------------------------------------
(* Properties.                                                             *)

\* The rows of a call, as CodeStore's CreateCodes takes them.
RowsOf(k) ==
  [c \in Inserted(k) |->
     k.insert[CHOOSE i \in DOMAIN k.insert : k.insert[i].id = c].row]

\* The CodeStore transaction that p's call stands for.
StoreStep(p) ==
  LET k == tx[p].call IN
  /\ tx[p].at = "commit" /\ tx'[p].at = "done"
  /\ CASE k.op = "create"  -> Store!CreateCodes(RowsOf(k))
       [] k.op = "update"  -> Store!UpdateDestination(k.id, k.user, k.dest, k.version)
       [] k.op = "state"   -> Store!SetCodeState(k.id, k.user, "disabled")
       [] k.op = "delete"  -> Store!DeleteCode(k.id, k.user)
       [] k.op = "release" -> Store!ReleaseAlias(k.short)

\* Row locks, unique indexes and the re-check of a WHERE clause make every
\* transaction of the Postgres driver one step of CodeStore, the one its call
\* asks for: a release never frees a name that another transaction is
\* re-arming, a batch lands whole, a version is incremented once.  (StoreStep
\* names the disjunct of StoreNext, so this implies Store!StoreSpec.)
ImplementsStore ==
  Store!StoreInit /\ [][\E p \in Client : StoreStep(p)]_<<codes, reservations>>

\* A refusal is true when it is given: an insert told that its alias or its
\* client_ref is taken, and a release told there is nothing to release or that
\* a live code owns the alias, were not misled by a transaction that had yet to
\* commit or that rolled back.
RefusalsAreTrue ==
  [][\A p \in Client :
       (Running(p) /\ tx'[p].at = "done") =>
         LET k == tx[p].call IN
         CASE tx'[p].answer \in {"alias_taken", "client_ref_taken"} ->
                tx'[p].answer \in Store!InsertErrors(RowsOf(k))
           [] k.op = "release" /\ tx'[p].answer \in {"not_found", "conflict"} ->
                tx'[p].answer = Store!ReleaseResult(k.short)
           [] OTHER -> TRUE]_pgVars

\* "nothing was written, so remove every image" (codes/service.go:772): an
\* insert that reports an error left no row.
FailedInsertWroteNothing == \A c \in failed : codes[c] = NoRow
=============================================================================
