--------------------------- MODULE PgStoreProofs ---------------------------
(***************************************************************************)
(* Proofs about PgStore for every number of clients, calls, batches and    *)
(* lost connections: each transaction of the Postgres driver is one        *)
(* transaction of CodeStore, and what a refused call is told is true.      *)
(***************************************************************************)
EXTENDS PgStore, FiniteSetTheorems, TLAPS

-----------------------------------------------------------------------------
(* The inductive invariant.                                                *)

Item == [id : CodeId, row : Store!NewRow]

CallRecord ==
  [op : Operations \cup {"none"}, insert : Seq(Item), id : CodeId \cup {NoRow},
   user : User \cup {NoRow}, dest : Dest \cup {NoRow}, version : Nat,
   short : ShortCode \cup {NoRow}]

Steps == {"idle", "done", "insert", "reserve", "update", "exists", "lock", "count", "mark",
          "commit"}

RowWrites == UNION {[D -> Store!Row] : D \in SUBSET CodeId}

ResWrites == UNION {[D -> Store!Reservation] : D \in SUBSET ShortCode}

Answers == {"none", "ok", "error", "alias_taken", "client_ref_taken", "not_found", "conflict"}

TxRecord ==
  [call : CallRecord, at : Steps, n : Nat, codes : RowWrites, res : ResWrites,
   locked : SUBSET ShortCode, answer : Answers]

PgTypeOK == Store!TypeOK /\ tx \in [Client -> TxRecord]

\* Every bump of a version is a call of its own, so that no version reaches
\* CodeStore's bound: a row's version and the calls under way fit in the calls.
Busy == {p \in Client : Running(p)}

CallsCounted ==
  /\ calls \in 0..MaxCalls
  /\ IsFiniteSet(Busy) /\ Cardinality(Busy) <= calls
  /\ \A c \in CodeId : codes[c] # NoRow => codes[c].version + Cardinality(Busy) <= calls

\* The steps of each operation.
StepOK(x) ==
  /\ x.at \in {"idle", "done"} =>
       x.call = NoCall /\ DOMAIN x.codes = {} /\ DOMAIN x.res = {} /\ x.locked = {}
  /\ x.at \in {"insert", "reserve"} => x.call.op = "create"
  /\ x.at \in {"update", "exists"} => x.call.op \in {"update", "state", "delete"}
  /\ x.at \in {"lock", "count", "mark"} => x.call.op = "release"
  /\ x.at = "commit" => x.call.op \in Operations

\* The rows of a batch that have been inserted, and those reserved as well.
RowsIn(x) == {i \in DOMAIN x.call.insert : i < x.n \/ (i = x.n /\ x.at = "reserve")}

ResIn(x) == {i \in DOMAIN x.call.insert : i < x.n}

Short(x, i) == x.call.insert[i].row.short

\* A batch under way: what it has written is its first rows, and nothing that
\* was committed since stands in their way.
BatchOK(x) ==
  /\ x.call.insert # <<>> /\ Len(x.call.insert) <= MaxBatch
  /\ \A i, j \in DOMAIN x.call.insert : x.call.insert[i].id = x.call.insert[j].id => i = j
  /\ \A i \in DOMAIN x.call.insert : codes[x.call.insert[i].id] = NoRow
  /\ x.n \in 1..(Len(x.call.insert) + 1)
  /\ x.n = Len(x.call.insert) + 1 <=> x.at = "commit"
  /\ x.locked = {}

RowsOK(x) ==
  /\ DOMAIN x.codes = {x.call.insert[i].id : i \in RowsIn(x)}
  /\ \A i \in RowsIn(x) :
       /\ x.codes[x.call.insert[i].id] = Store!StoredRow(x.call.insert[i].row)
       /\ \A c \in CodeId : /\ ~ShortClash(codes[c], Short(x, i))
                            /\ ~RefClash(codes[c], x.call.insert[i].row)
  /\ \A i, j \in RowsIn(x) : i # j =>
       /\ Short(x, i) # Short(x, j)
       /\ ~Store!SameRef(x.call.insert[i].row, x.call.insert[j].row)

ReservedOK(x) ==
  /\ DOMAIN x.res = {Short(x, i) : i \in ResIn(x)}
  /\ \A i \in ResIn(x) :
       /\ x.res[Short(x, i)] = [code |-> x.call.insert[i].id, released |-> FALSE]
       /\ Rearmable(reservations[Short(x, i)])

CreateOK(x) == x.call.op = "create" => BatchOK(x) /\ RowsOK(x) /\ ReservedOK(x)

\* A row that an update has written is locked: it still is what it was then.
UpdateOK(x) ==
  x.call.op \in {"update", "state", "delete"} =>
    /\ x.call.insert = <<>> /\ x.call.id \in CodeId /\ x.call.user \in User
    /\ x.call.op = "update" => x.call.dest \in Dest
    /\ DOMAIN x.res = {} /\ x.locked = {}
    /\ DOMAIN x.codes # {} =>
         /\ x.at = "commit" /\ DOMAIN x.codes = {x.call.id}
         /\ Where(x.call, codes[x.call.id])
         /\ x.codes[x.call.id] = SetTo(x.call, codes[x.call.id])

\* A reservation that a release has locked is unreleased until it ends, and
\* once it has counted, no live code gets that name.
ReleaseOK(x) ==
  x.call.op = "release" =>
    /\ x.call.insert = <<>> /\ x.call.short \in ShortCode /\ DOMAIN x.codes = {}
    /\ x.at = "lock" => x.locked = {}
    /\ x.at # "lock" => x.locked = {x.call.short} /\ Unreleased(reservations[x.call.short])
    /\ x.at \in {"mark", "commit"} => \A c \in CodeId : ~ShortClash(codes[c], x.call.short)
    /\ DOMAIN x.res # {} =>
         /\ x.at = "commit" /\ DOMAIN x.res = {x.call.short}
         /\ x.res[x.call.short] = [code |-> reservations[x.call.short].code, released |-> TRUE]

TxOK(x) == StepOK(x) /\ CreateOK(x) /\ UpdateOK(x) /\ ReleaseOK(x)

\* Two transactions never have the same row, reservation or index key in hand.
Apart(x, y) ==
  /\ DOMAIN x.codes \cap DOMAIN y.codes = {}
  /\ (DOMAIN x.res \cup x.locked) \cap (DOMAIN y.res \cup y.locked) = {}
  /\ Inserted(x.call) \cap Inserted(y.call) = {}
  /\ (x.call.op = "create" /\ y.call.op = "create") =>
       \A c \in DOMAIN x.codes, d \in DOMAIN y.codes :
         /\ x.codes[c].short # y.codes[d].short
         /\ ~Store!SameRef(x.codes[c], y.codes[d])

PgInv ==
  /\ PgTypeOK
  /\ CallsCounted
  /\ \A p \in Client : TxOK(tx[p])
  /\ \A p, q \in Client : p # q => Apart(tx[p], tx[q])

-----------------------------------------------------------------------------
(* Steps that leave the tables alone.                                      *)

\* What a client that is not in a transaction has.
Ended(answer) == [Transaction(NoCall, "done") EXCEPT !.answer = answer]

\* Nothing, so that it stands in no other's way.
LEMMA EndedOK ==
  ASSUME NEW a \in Answers
  PROVE  /\ Ended(a) \in TxRecord /\ Ended(a).at = "done" /\ TxOK(Ended(a))
         /\ \A x : Apart(Ended(a), x)
<1>1. NoCall = [op |-> "none", insert |-> <<>>, id |-> NoRow, user |-> NoRow, dest |-> NoRow,
                version |-> 0, short |-> NoRow]
  BY DEF NoCall, Call
<1>0. Ended(a) = [call |-> NoCall, at |-> "done", n |-> 1, codes |-> <<>>, res |-> <<>>,
                  locked |-> {}, answer |-> a]
  <2>1. PICK k : k = NoCall
    OBVIOUS
  <2>2. PICK e : e = <<>>
    OBVIOUS
  <2>3. Ended(a) = [[call |-> k, at |-> "done", n |-> 1, codes |-> e, res |-> e, locked |-> {},
                     answer |-> "none"] EXCEPT !.answer = a]
    BY <2>1, <2>2, Zenon DEF Ended, Transaction
  <2>4. Ended(a) = [call |-> k, at |-> "done", n |-> 1, codes |-> e, res |-> e, locked |-> {},
                    answer |-> a]
    BY <2>3
  <2> QED BY <2>1, <2>2, <2>4, Zenon
<1>2. <<>> \in RowWrites /\ <<>> \in ResWrites /\ <<>> \in Seq(Item)
  <2>1. <<>> \in [{} -> Store!Row] /\ <<>> \in [{} -> Store!Reservation]
    OBVIOUS
  <2>2. {} \in SUBSET CodeId /\ {} \in SUBSET ShortCode
    OBVIOUS
  <2>3. <<>> \in RowWrites
    BY <2>1, <2>2, Zenon DEF RowWrites
  <2>4. <<>> \in ResWrites
    BY <2>1, <2>2, Zenon DEF ResWrites
  <2> QED BY <2>3, <2>4
<1>3. NoCall \in CallRecord
  BY <1>1, <1>2 DEF CallRecord
<1>4. Ended(a) \in TxRecord
  BY <1>0, <1>2, <1>3 DEF TxRecord, Steps
<1>5. TxOK(Ended(a))
  BY <1>0, <1>1 DEF TxOK, StepOK, CreateOK, UpdateOK, ReleaseOK
<1>6. \A x : Apart(Ended(a), x)
  BY <1>0, <1>1 DEF Apart, Inserted
<1>7. Ended(a).at = "done"
  BY <1>0
<1> QED BY <1>4, <1>5, <1>6, <1>7

\* Neither transaction is the other's obstacle.
LEMMA ApartSymmetric ==
  ASSUME NEW x, NEW y, Apart(x, y) PROVE Apart(y, x)
  BY DEF Apart, Store!SameRef

\* A transaction stays as good as it was while the tables do not change.
LEMMA TxOKUnchanged ==
  ASSUME NEW x, TxOK(x), UNCHANGED <<codes, reservations>> PROVE TxOK(x)'
<1>1. codes' = codes /\ reservations' = reservations
  OBVIOUS
<1>2. StepOK(x)'
  BY DEF TxOK, StepOK
<1>3. CreateOK(x)'
  BY <1>1 DEF TxOK, CreateOK, BatchOK, RowsOK, ReservedOK
<1>4. UpdateOK(x)'
  BY <1>1 DEF TxOK, UpdateOK
<1>5. ReleaseOK(x)'
  BY <1>1 DEF TxOK, ReleaseOK
<1> QED BY <1>2, <1>3, <1>4, <1>5 DEF TxOK

\* One transaction moves on, and keeps apart from the others.
LEMMA OneMoves ==
  ASSUME PgInv, NEW p \in Client, NEW y \in TxRecord, tx' = [tx EXCEPT ![p] = y],
         UNCHANGED <<codes, reservations>>, TxOK(y),
         \A q \in Client : q # p => Apart(y, tx[q]),
         CallsCounted'
  PROVE  PgInv'
<1>1. /\ tx \in [Client -> TxRecord] /\ tx' \in [Client -> TxRecord]
      /\ tx'[p] = y /\ \A q \in Client : q # p => tx'[q] = tx[q]
  BY DEF PgInv, PgTypeOK
<1>2. PgTypeOK'
  BY <1>1 DEF PgInv, PgTypeOK, Store!TypeOK
<1>3. ASSUME NEW q \in Client PROVE TxOK(tx[q])'
  <2>1. PICK x : x = tx'[q]
    OBVIOUS
  <2>2. TxOK(x)
    BY <1>1, <2>1 DEF PgInv
  <2>3. TxOK(x)'
    BY <2>2, TxOKUnchanged
  <2> QED BY <2>1, <2>3
<1>4. ASSUME NEW q \in Client, NEW r \in Client, q # r PROVE Apart(tx'[q], tx'[r])
  <2>1. CASE q = p
    BY <1>1, <1>4, <2>1
  <2>2. CASE r = p
    BY <1>1, <1>4, <2>2, ApartSymmetric
  <2>3. CASE q # p /\ r # p
    BY <1>1, <1>4, <2>3 DEF PgInv
  <2> QED BY <2>1, <2>2, <2>3
<1>5. \A q, r \in Client : q # r => Apart(tx[q], tx[r])'
  <2> SUFFICES ASSUME NEW q \in Client, NEW r \in Client, q # r PROVE Apart(tx[q], tx[r])'
    OBVIOUS
  <2>1. Apart(tx'[q], tx'[r])
    BY <1>4
  <2> QED BY <2>1 DEF Apart, Inserted, Store!SameRef
<1> QED BY <1>2, <1>3, <1>5 DEF PgInv

\* A statement of a call leaves the count of calls alone.
LEMMA CountStays ==
  ASSUME PgInv, NEW p \in Client, NEW y \in TxRecord, tx' = [tx EXCEPT ![p] = y],
         UNCHANGED <<codes, calls>>, Running(p), y.at \notin {"idle", "done"}
  PROVE  CallsCounted'
<1>1. tx \in [Client -> TxRecord] /\ tx'[p] = y /\ \A q \in Client : q # p => tx'[q] = tx[q]
  BY DEF PgInv, PgTypeOK
<1>2. Busy' = Busy
  BY <1>1 DEF Busy, Running
<1> QED BY <1>2 DEF PgInv, CallsCounted

\* A call that ends is no longer counted as under way.
LEMMA CountEnds ==
  ASSUME PgInv, NEW p \in Client, NEW y \in TxRecord, tx' = [tx EXCEPT ![p] = y],
         Running(p), y.at = "done"
  PROVE  /\ IsFiniteSet(Busy') /\ Cardinality(Busy) \in Nat /\ Cardinality(Busy') \in Nat
         /\ Cardinality(Busy) = Cardinality(Busy') + 1
<1>1. tx \in [Client -> TxRecord] /\ tx'[p] = y /\ \A q \in Client : q # p => tx'[q] = tx[q]
  BY DEF PgInv, PgTypeOK
<1>2. Busy' = Busy \ {p} /\ p \in Busy
  BY <1>1 DEF Busy, Running
<1>3. IsFiniteSet(Busy)
  BY DEF PgInv, CallsCounted
<1>4. IsFiniteSet(Busy') /\ Cardinality(Busy') = Cardinality(Busy) - 1
  BY <1>2, <1>3, FS_RemoveElement
<1>5. Cardinality(Busy) \in Nat /\ Cardinality(Busy') \in Nat
  BY <1>3, <1>4, FS_CardinalityType
<1> QED BY <1>4, <1>5

\* A statement that fails or is refused, and a connection that breaks.
LEMMA RollbackKeeps ==
  ASSUME PgInv, NEW p \in Client, Running(p), NEW a \in Answers, Rollback(p, a)
  PROVE  PgInv'
<1>1. tx' = [tx EXCEPT ![p] = Ended(a)] /\ UNCHANGED <<codes, reservations, calls>>
  BY DEF Rollback, Answer, Ended
<1>2. Ended(a) \in TxRecord /\ Ended(a).at = "done" /\ TxOK(Ended(a)) /\ \A x : Apart(Ended(a), x)
  BY EndedOK
<1>3. PICK y : y = Ended(a)
  OBVIOUS
<1>4. CallsCounted'
  <2>1. /\ IsFiniteSet(Busy') /\ Cardinality(Busy) \in Nat /\ Cardinality(Busy') \in Nat
        /\ Cardinality(Busy) = Cardinality(Busy') + 1
    BY <1>1, <1>2, <1>3, CountEnds
  <2>2. calls \in 0..MaxCalls /\ Cardinality(Busy) <= calls /\ calls' = calls /\ codes' = codes
    BY <1>1 DEF PgInv, CallsCounted
  <2>3. ASSUME NEW c \in CodeId, codes[c] # NoRow PROVE codes[c].version + Cardinality(Busy') <= calls
    <3>1. codes[c].version \in Nat
      BY <2>3 DEF PgInv, PgTypeOK, Store!TypeOK, Store!Row
    <3>2. codes[c].version + Cardinality(Busy) <= calls
      BY <2>3 DEF PgInv, CallsCounted
    <3> QED BY <2>1, <2>2, <3>1, <3>2
  <2>4. calls' \in 0..MaxCalls /\ Cardinality(Busy') <= calls'
    BY <2>1, <2>2
  <2>5. \A c \in CodeId : codes'[c] # NoRow => codes'[c].version + Cardinality(Busy') <= calls'
    BY <2>2, <2>3
  <2> QED BY <2>1, <2>4, <2>5 DEF CallsCounted
<1> QED BY <1>1, <1>2, <1>3, <1>4, OneMoves

\* The same, as a statement that refuses does it.
LEMMA RefusalKeeps ==
  ASSUME PgInv, NEW p \in Client, Running(p), NEW a \in Answers, Refuse(p, a)
  PROVE  PgInv'
<1>1. Rollback(p, a)
  BY Zenon DEF Refuse
<1> QED BY <1>1, RollbackKeeps

-----------------------------------------------------------------------------
(* What a transaction has written.                                         *)

\* A row that a caller supplies is live, and stays itself when it is stored.
LEMMA StoredRowOK ==
  ASSUME NEW r \in Store!NewRow
  PROVE  /\ Store!StoredRow(r) \in Store!Row /\ IsLive(Store!StoredRow(r))
         /\ Store!StoredRow(r).short = r.short /\ Store!StoredRow(r).ref = r.ref
         /\ Store!StoredRow(r).user = r.user /\ Store!StoredRow(r).version = 1
<1>1. PICK y : y = Store!StoredRow(r)
  OBVIOUS
<1>2. y = [short |-> r.short, user |-> r.user, mode |-> r.mode, ref |-> r.ref,
           dest |-> r.dest, state |-> r.state, version |-> 1]
  BY <1>1 DEF Store!StoredRow
<1>3. y \in Store!Row /\ y.state # "deleted"
  BY <1>2 DEF Store!Row, Store!NewRow, Store!Mode, Store!State
<1>4. y # NoRow
  BY <1>3, PgAssumption
<1> QED BY <1>1, <1>2, <1>3, <1>4 DEF IsLive

\* An insert is a sequence of items.
LEMMA ItemTyped ==
  ASSUME NEW x \in TxRecord, NEW i \in DOMAIN x.call.insert
  PROVE  /\ x.call.insert[i].id \in CodeId /\ x.call.insert[i].row \in Store!NewRow
         /\ Short(x, i) \in ShortCode /\ i \in 1..Len(x.call.insert) /\ i \in Nat
<1>1. x.call.insert \in Seq(Item)
  BY DEF TxRecord, CallRecord
<1>2. i \in 1..Len(x.call.insert) /\ x.call.insert[i] \in Item
  BY <1>1
<1>3. x.call.insert[i].id \in CodeId /\ x.call.insert[i].row \in Store!NewRow
  BY <1>2 DEF Item
<1> QED BY <1>2, <1>3 DEF Short, Store!NewRow

\* The rows a batch has written are its first ones, and have no committed row.
LEMMA CreateWrites ==
  ASSUME NEW x \in TxRecord, TxOK(x), x.call.op = "create", NEW c \in DOMAIN x.codes
  PROVE  \E i \in RowsIn(x) :
           /\ c = x.call.insert[i].id /\ c \in CodeId /\ c \in Inserted(x.call)
           /\ codes[c] = NoRow
           /\ x.call.insert[i].row \in Store!NewRow
           /\ x.codes[c] = Store!StoredRow(x.call.insert[i].row)
<1>1. PICK i \in RowsIn(x) : c = x.call.insert[i].id
  BY DEF TxOK, CreateOK, RowsOK
<1>2. i \in DOMAIN x.call.insert
  BY <1>1 DEF RowsIn
<1>3. c \in CodeId /\ c \in Inserted(x.call) /\ x.call.insert[i].row \in Store!NewRow
  BY <1>1, <1>2, ItemTyped DEF Inserted
<1>4. codes[c] = NoRow /\ x.codes[c] = Store!StoredRow(x.call.insert[i].row)
  BY <1>1, <1>2 DEF TxOK, CreateOK, RowsOK, BatchOK
<1> QED BY <1>1, <1>3, <1>4

\* A written row is a new one of a batch, or the amended one of an update.
LEMMA WritesRow ==
  ASSUME NEW x \in TxRecord, TxOK(x), NEW c \in DOMAIN x.codes
  PROVE  \/ x.call.op = "create"
         \/ /\ x.call.op \in {"update", "state", "delete"} /\ x.at = "commit"
            /\ c = x.call.id /\ Where(x.call, codes[c]) /\ codes[c] # NoRow
            /\ x.codes[c] = SetTo(x.call, codes[c])
<1>1. x.at \in Steps
  BY DEF TxRecord
<1>2. x.at \notin {"idle", "done"}
  BY DEF TxOK, StepOK
<1>3. x.call.op \in Operations
  BY <1>1, <1>2 DEF TxOK, StepOK, Steps, Operations
<1>4. x.call.op # "release"
  BY DEF TxOK, ReleaseOK
<1>5. CASE x.call.op \in {"update", "state", "delete"}
  BY <1>5 DEF TxOK, UpdateOK, Where, UpdateWhere, StateWhere
<1> QED BY <1>3, <1>4, <1>5 DEF Operations

\* A step that leaves the call what it was keeps its transaction apart from
\* another when its writes and locks do.
LEMMA StaysApart ==
  ASSUME NEW x, NEW y, NEW z, Apart(x, z), y.call = x.call,
         DOMAIN y.codes \cap DOMAIN z.codes = {},
         (DOMAIN y.res \cup y.locked) \cap (DOMAIN z.res \cup z.locked) = {},
         (x.call.op = "create" /\ z.call.op = "create") =>
           \A c \in DOMAIN y.codes, d \in DOMAIN z.codes :
             y.codes[c].short # z.codes[d].short /\ ~Store!SameRef(y.codes[c], z.codes[d])
  PROVE  Apart(y, z)
  BY DEF Apart

\* A statement succeeds.
LEMMA StatementKeeps ==
  ASSUME PgInv, NEW p \in Client, Running(p), NEW y \in TxRecord, Step(p, y),
         y.at \notin {"idle", "done"}, TxOK(y),
         \A q \in Client : q # p => Apart(y, tx[q])
  PROVE  PgInv'
<1>1. tx' = [tx EXCEPT ![p] = y] /\ UNCHANGED <<codes, reservations, calls>>
  BY DEF Step
<1>2. CallsCounted'
  BY <1>1, CountStays
<1> QED BY <1>1, <1>2, OneMoves

\* The transactions of others, one by one.
LEMMA TxFacts ==
  ASSUME PgInv, NEW p \in Client
  PROVE  /\ tx[p] \in TxRecord /\ TxOK(tx[p])
         /\ ~Running(p) => DOMAIN tx[p].codes = {} /\ DOMAIN tx[p].res = {} /\ tx[p].locked = {}
<1>1. tx[p] \in TxRecord /\ TxOK(tx[p])
  BY DEF PgInv, PgTypeOK
<1>2. ~Running(p) => DOMAIN tx[p].codes = {} /\ DOMAIN tx[p].res = {} /\ tx[p].locked = {}
  BY <1>1 DEF Running, TxOK, StepOK
<1> QED BY <1>1, <1>2

-----------------------------------------------------------------------------
(* insertCode.                                                             *)

\* The row that a batch is at.
LEMMA CurrentOK ==
  ASSUME NEW x \in TxRecord, TxOK(x), x.at \in {"insert", "reserve"}
  PROVE  /\ x.call.op = "create" /\ x.n \in DOMAIN x.call.insert
         /\ x.n \in 1..Len(x.call.insert) /\ x.n \in Nat /\ Len(x.call.insert) \in Nat
         /\ x.call.insert[x.n].row \in Store!NewRow /\ x.call.insert[x.n].id \in CodeId
         /\ Short(x, x.n) \in ShortCode
<1>1. x.call.op = "create"
  BY DEF TxOK, StepOK
<1>2. x.call.insert \in Seq(Item) /\ x.n \in Nat
  BY DEF TxRecord, CallRecord
<1>3. x.n \in 1..(Len(x.call.insert) + 1) /\ x.n # Len(x.call.insert) + 1
  BY <1>1 DEF TxOK, CreateOK, BatchOK
<1>4. Len(x.call.insert) \in Nat /\ DOMAIN x.call.insert = 1..Len(x.call.insert)
  BY <1>2
<1>5. x.n \in 1..Len(x.call.insert)
  BY <1>2, <1>3, <1>4
<1> QED BY <1>1, <1>2, <1>4, <1>5, ItemTyped

\* A batch's record after its INSERT INTO codes.
RowAdded(x, y) ==
  /\ y.call = x.call /\ y.n = x.n /\ y.res = x.res /\ y.locked = x.locked /\ y.at = "reserve"
  /\ DOMAIN y.codes = DOMAIN x.codes \cup {x.call.insert[x.n].id}
  /\ y.codes[x.call.insert[x.n].id] = Store!StoredRow(x.call.insert[x.n].row)
  /\ \A c \in DOMAIN x.codes : c # x.call.insert[x.n].id => y.codes[c] = x.codes[c]

\* The ids of one row more.
LEMMA IdsOfOneMore ==
  ASSUME NEW f, NEW S, NEW n
  PROVE  {f[i].id : i \in S \cup {n}} = {f[i].id : i \in S} \cup {f[n].id}
  OBVIOUS

\* The batch and the rows before it are what they were.
LEMMA AddedFrame ==
  ASSUME NEW x \in TxRecord, TxOK(x), x.at = "insert", NEW y \in TxRecord, RowAdded(x, y)
  PROVE  /\ x.call.op = "create" /\ BatchOK(x) /\ RowsOK(x) /\ ReservedOK(x)
         /\ y.call.insert = x.call.insert
         /\ RowsIn(y) = RowsIn(x) \cup {x.n} /\ x.n \notin RowsIn(x)
         /\ RowsIn(x) \subseteq DOMAIN x.call.insert
         /\ \A i : Short(y, i) = Short(x, i)
         /\ BatchOK(y) /\ ReservedOK(y) /\ StepOK(y) /\ UpdateOK(y) /\ ReleaseOK(y)
<1>1. /\ x.call.op = "create" /\ x.n \in DOMAIN x.call.insert /\ x.n \in Nat
      /\ Len(x.call.insert) \in Nat /\ x.n \in 1..Len(x.call.insert)
  BY CurrentOK
<1>2. BatchOK(x) /\ RowsOK(x) /\ ReservedOK(x)
  BY <1>1, Zenon DEF TxOK, CreateOK
<1>3. /\ y.call = x.call /\ y.call.insert = x.call.insert /\ y.n = x.n /\ y.res = x.res
      /\ y.locked = x.locked /\ y.at = "reserve"
  BY Zenon DEF RowAdded
<1>4. RowsIn(x) = {i \in DOMAIN x.call.insert : i < x.n}
  BY DEF RowsIn
<1>5. RowsIn(y) = RowsIn(x) \cup {x.n} /\ x.n \notin RowsIn(x)
  <2>1. RowsIn(y) = {i \in DOMAIN x.call.insert : i < x.n \/ i = x.n}
    BY <1>3 DEF RowsIn
  <2>2. PICK m \in Nat : m = x.n
    BY <1>1
  <2>3. m \notin RowsIn(x)
    BY <1>4, <2>2
  <2> QED BY <1>1, <1>4, <2>1, <2>2, <2>3
<1>6. y.n # Len(y.call.insert) + 1
  BY <1>1, <1>3
<1>7. BatchOK(y)
  BY <1>2, <1>3, <1>6, Zenon DEF BatchOK
<1>8. ResIn(y) = ResIn(x)
  BY <1>3, Zenon DEF ResIn
<1>9. \A i : Short(y, i) = Short(x, i)
  BY <1>3, Zenon DEF Short
<1>10. ReservedOK(y)
  <2>1. DOMAIN y.res = {Short(y, i) : i \in ResIn(y)}
    BY <1>2, <1>3, <1>8, <1>9, Zenon DEF ReservedOK
  <2> QED BY <1>2, <1>3, <1>8, <1>9, <2>1, Zenon DEF ReservedOK
<1>11. StepOK(y) /\ UpdateOK(y) /\ ReleaseOK(y)
  BY <1>1, <1>3 DEF StepOK, UpdateOK, ReleaseOK
<1> QED BY <1>1, <1>2, <1>3, <1>4, <1>5, <1>7, <1>9, <1>10, <1>11

\* Nothing that a batch could see clashes with the row it inserts.
LEMMA InsertedRowOK ==
  ASSUME PgInv, NEW p \in Client, tx[p].at = "insert", ~ShortTaken(p), ~RefTaken(p),
         NEW y \in TxRecord, RowAdded(tx[p], y)
  PROVE  TxOK(y)
<1>0. PICK x : x = tx[p]
  OBVIOUS
<1>00. PICK ins, n : ins = x.call.insert /\ n = x.n
  OBVIOUS
<1>1. x \in TxRecord /\ TxOK(x) /\ x.at = "insert" /\ RowAdded(x, y)
  BY <1>0, TxFacts
<1>2. x.call.op = "create" /\ ins[n].row \in Store!NewRow /\ ins[n].id \in CodeId
  BY <1>00, <1>1, CurrentOK
<1>3. /\ BatchOK(x) /\ RowsOK(x) /\ y.call.insert = ins
      /\ RowsIn(y) = RowsIn(x) \cup {n} /\ n \notin RowsIn(x) /\ n \in RowsIn(y)
      /\ RowsIn(x) \subseteq DOMAIN ins /\ \A i : Short(y, i) = Short(x, i)
      /\ BatchOK(y) /\ ReservedOK(y) /\ StepOK(y) /\ UpdateOK(y) /\ ReleaseOK(y)
  BY <1>00, <1>1, AddedFrame
<1>4. /\ DOMAIN y.codes = DOMAIN x.codes \cup {ins[n].id}
      /\ y.codes[ins[n].id] = Store!StoredRow(ins[n].row)
      /\ \A c \in DOMAIN x.codes : c # ins[n].id => y.codes[c] = x.codes[c]
  BY <1>00, <1>1, Zenon DEF RowAdded
<1>5. ASSUME NEW c \in CodeId
      PROVE  /\ ~ShortClash(CodeSeen(p, c), ins[n].row.short)
             /\ ~RefClash(CodeSeen(p, c), ins[n].row)
  BY <1>0, <1>00, Zenon DEF ShortTaken, RefTaken, Current
<1>6. ASSUME NEW i \in RowsIn(x)
      PROVE  /\ y.codes[ins[i].id] = Store!StoredRow(ins[i].row)
             /\ Short(x, i) # Short(x, n)
             /\ ~Store!SameRef(ins[i].row, ins[n].row) /\ ~Store!SameRef(ins[n].row, ins[i].row)
  <2>1. i \in DOMAIN ins /\ i # n /\ n \in DOMAIN ins
    <3>1. n \in DOMAIN ins
      BY <1>00, <1>1, CurrentOK
    <3> QED BY <1>3, <3>1
  <2>2. /\ ins[i].id # ins[n].id /\ ins[i].id \in DOMAIN x.codes /\ ins[i].id \in CodeId
        /\ ins[i].row \in Store!NewRow
    <3>1. ins[i].id # ins[n].id
      BY <1>00, <1>3, <2>1, Zenon DEF BatchOK
    <3>2. ins[i].id \in DOMAIN x.codes
      BY <1>00, <1>3 DEF RowsOK
    <3> QED BY <1>00, <1>1, <2>1, <3>1, <3>2, ItemTyped
  <2>3. x.codes[ins[i].id] = Store!StoredRow(ins[i].row)
    BY <1>00, <1>3, Zenon DEF RowsOK
  <2>4. CodeSeen(p, ins[i].id) = Store!StoredRow(ins[i].row)
    BY <1>0, <2>2, <2>3 DEF CodeSeen
  <2>5. PICK r : r = Store!StoredRow(ins[i].row)
    OBVIOUS
  <2>6. /\ r \in Store!Row /\ IsLive(r) /\ r.short = ins[i].row.short /\ r.ref = ins[i].row.ref
        /\ r.user = ins[i].row.user
    BY <2>2, <2>5, StoredRowOK
  <2>7. ~ShortClash(r, ins[n].row.short) /\ ~RefClash(r, ins[n].row)
    BY <1>5, <2>2, <2>4, <2>5
  <2>8. Short(x, i) # Short(x, n)
    BY <1>00, <2>6, <2>7 DEF ShortClash, Short
  <2>9. ~Store!SameRef(ins[i].row, ins[n].row) /\ ~Store!SameRef(ins[n].row, ins[i].row)
    <3>1. r # NoRow
      BY <2>6 DEF IsLive
    <3>2. \/ ins[n].row.ref = NoRef \/ r.ref # ins[n].row.ref \/ r.user # ins[n].row.user
      BY <2>7, <3>1 DEF RefClash
    <3> QED BY <2>6, <3>2, Zenon DEF Store!SameRef
  <2>10. y.codes[ins[i].id] = Store!StoredRow(ins[i].row)
    BY <1>4, <2>2, <2>3
  <2> QED BY <2>8, <2>9, <2>10
<1>7. ASSUME NEW c \in CodeId
      PROVE  ~ShortClash(codes[c], ins[n].row.short) /\ ~RefClash(codes[c], ins[n].row)
  <2>1. CASE c \in DOMAIN x.codes
    <3>1. codes[c] = NoRow
      BY <1>1, <1>2, <2>1, CreateWrites
    <3> QED BY <3>1 DEF ShortClash, RefClash, IsLive
  <2>2. CASE c \notin DOMAIN x.codes
    BY <1>0, <1>5, <2>2 DEF CodeSeen
  <2> QED BY <2>1, <2>2
<1>8. RowsOK(y)
  <2>1. DOMAIN y.codes = {ins[i].id : i \in RowsIn(y)}
    <3>1. DOMAIN x.codes = {ins[i].id : i \in RowsIn(x)}
      BY <1>00, <1>3, Zenon DEF RowsOK
    <3>2. {ins[i].id : i \in RowsIn(x) \cup {n}} = {ins[i].id : i \in RowsIn(x)} \cup {ins[n].id}
      BY IdsOfOneMore
    <3> QED BY <1>3, <1>4, <3>1, <3>2, Zenon
  <2>2. ASSUME NEW i \in RowsIn(y)
        PROVE  /\ y.codes[ins[i].id] = Store!StoredRow(ins[i].row)
               /\ \A c \in CodeId : ~ShortClash(codes[c], Short(y, i)) /\ ~RefClash(codes[c], ins[i].row)
    <3>0. Short(y, i) = ins[i].row.short
      BY <1>3, Zenon DEF Short
    <3>1. CASE i = n
      BY <1>4, <1>7, <3>0, <3>1, Zenon
    <3>2. CASE i \in RowsIn(x)
      <4>1. \A c \in CodeId : ~ShortClash(codes[c], Short(x, i)) /\ ~RefClash(codes[c], ins[i].row)
        BY <1>00, <1>3, <3>2, Zenon DEF RowsOK
      <4> QED BY <1>3, <1>6, <3>2, <4>1, Zenon
    <3> QED BY <1>3, <2>2, <3>1, <3>2
  <2>3. ASSUME NEW i \in RowsIn(y), NEW j \in RowsIn(y), i # j
        PROVE  Short(y, i) # Short(y, j) /\ ~Store!SameRef(ins[i].row, ins[j].row)
    <3>1. Short(y, i) = Short(x, i) /\ Short(y, j) = Short(x, j)
      BY <1>3
    <3>2. CASE i \in RowsIn(x) /\ j \in RowsIn(x)
      BY <1>00, <1>3, <2>3, <3>1, <3>2, Zenon DEF RowsOK
    <3>3. CASE i \in RowsIn(x) /\ j = n
      BY <1>6, <3>1, <3>3, Zenon
    <3>4. CASE i = n /\ j \in RowsIn(x)
      BY <1>6, <3>1, <3>4, Zenon
    <3>5. (i \in RowsIn(x) \/ i = n) /\ (j \in RowsIn(x) \/ j = n)
      BY <1>3, <2>3
    <3> QED BY <2>3, <3>2, <3>3, <3>4, <3>5
  <2> QED BY <1>3, <2>1, <2>2, <2>3, Zenon DEF RowsOK
<1> QED BY <1>3, <1>8, Zenon DEF TxOK, CreateOK

\* A row of another transaction in progress that clashes is one to wait for.
LEMMA NotInDoubt ==
  ASSUME NEW p \in Client, NEW q \in Client, q # p, Running(q), NEW c \in DOMAIN tx[q].codes,
         ShortWait(p) = {}, RefWait(p) = {}
  PROVE  /\ ~ShortClash(tx[q].codes[c], Current(p).row.short)
         /\ ~RefClash(tx[q].codes[c], Current(p).row)
<1>1. q \in Others(p)
  BY DEF Others
<1>2. ~ShortClash(tx[q].codes[c], Current(p).row.short)
  BY <1>1, Zenon DEF ShortWait, InDoubt
<1>3. ~RefClash(tx[q].codes[c], Current(p).row)
  BY <1>1, Zenon DEF RefWait, InDoubt
<1> QED BY <1>2, <1>3

\* The record that INSERT INTO codes leaves.
WithRow(x, id, r) ==
  [x EXCEPT !.at = "reserve",
            !.codes = [c \in DOMAIN @ \cup {id} |-> IF c = id THEN r ELSE @[c]]]

\* It differs from the one before in that row alone.
LEMMA RowAddedType ==
  ASSUME NEW x \in TxRecord, NEW id \in CodeId, NEW r \in Store!Row, NEW y,
         y = WithRow(x, id, r)
  PROVE  /\ y \in TxRecord
         /\ y.call = x.call /\ y.n = x.n /\ y.res = x.res /\ y.locked = x.locked
         /\ y.at = "reserve" /\ DOMAIN y.codes = DOMAIN x.codes \cup {id} /\ y.codes[id] = r
         /\ \A c \in DOMAIN x.codes : c # id => y.codes[c] = x.codes[c]
<1>1. PICK w : w = [c \in DOMAIN x.codes \cup {id} |-> IF c = id THEN r ELSE x.codes[c]]
  OBVIOUS
<1>2. y = [x EXCEPT !.at = "reserve", !.codes = w]
  BY <1>1, Zenon DEF WithRow
<1>3. PICK D \in SUBSET CodeId : x.codes \in [D -> Store!Row]
  BY DEF TxRecord, RowWrites
<1>4. w \in [D \cup {id} -> Store!Row] /\ DOMAIN x.codes = D
  BY <1>1, <1>3
<1>5. w \in RowWrites
  BY <1>4, Zenon DEF RowWrites
<1>6. "reserve" \in Steps
  BY DEF Steps
<1>7. /\ y \in TxRecord /\ y.call = x.call /\ y.n = x.n /\ y.res = x.res /\ y.locked = x.locked
      /\ y.at = "reserve" /\ y.codes = w
  BY <1>2, <1>5, <1>6 DEF TxRecord
<1>8. DOMAIN w = DOMAIN x.codes \cup {id} /\ w[id] = r /\ \A c \in DOMAIN x.codes : c # id => w[c] = x.codes[c]
  BY <1>1
<1> QED BY <1>7, <1>8

\* INSERT INTO codes keeps the rows in hand apart: it waited for what clashes.
LEMMA InsertKeeps ==
  ASSUME PgInv, NEW p \in Client, InsertRow(p) PROVE PgInv'
<1>1. tx[p].at = "insert" /\ Running(p)
  BY DEF InsertRow, Running
<1>2. ASSUME NEW a \in Answers, Refuse(p, a) PROVE PgInv'
  BY <1>1, <1>2, RefusalKeeps
<1>3. CASE /\ ShortWait(p) = {} /\ RefWait(p) = {} /\ ~ShortTaken(p) /\ ~RefTaken(p)
           /\ Step(p, [tx[p] EXCEPT !.at = "reserve",
                !.codes = [c \in DOMAIN @ \cup {Current(p).id} |->
                   IF c = Current(p).id THEN Store!StoredRow(Current(p).row) ELSE @[c]]])
  <2>0. PICK x : x = tx[p]
    OBVIOUS
  <2>1. PICK id, r, k : id = Current(p).id /\ k = Current(p).row /\ r = Store!StoredRow(k)
    OBVIOUS
  <2>2. PICK y : y = WithRow(x, id, r)
    OBVIOUS
  <2>3. Step(p, y)
    BY <1>3, <2>0, <2>1, <2>2, Zenon DEF WithRow
  <2>4. x \in TxRecord /\ TxOK(x) /\ x.at = "insert"
    BY <1>1, <2>0, TxFacts
  <2>5. /\ x.call.op = "create" /\ x.n \in DOMAIN x.call.insert
        /\ id = x.call.insert[x.n].id /\ k = x.call.insert[x.n].row
        /\ id \in CodeId /\ k \in Store!NewRow
    BY <2>0, <2>1, <2>4, CurrentOK DEF Current
  <2>6. /\ r \in Store!Row /\ IsLive(r) /\ r.short = k.short /\ r.ref = k.ref /\ r.user = k.user
    BY <2>1, <2>5, StoredRowOK
  <2>7. /\ y \in TxRecord /\ y.call = x.call /\ y.n = x.n /\ y.res = x.res /\ y.locked = x.locked
        /\ y.at = "reserve" /\ DOMAIN y.codes = DOMAIN x.codes \cup {id} /\ y.codes[id] = r
        /\ \A c \in DOMAIN x.codes : c # id => y.codes[c] = x.codes[c]
    <3>1. x \in TxRecord /\ id \in CodeId /\ r \in Store!Row
      BY <2>4, <2>5, <2>6
    <3> QED BY <2>2, <3>1, RowAddedType
  <2>8. TxOK(y)
    <3>1. RowAdded(tx[p], y)
      BY <2>0, <2>1, <2>5, <2>7, Zenon DEF RowAdded
    <3> QED BY <1>1, <1>3, <2>7, <3>1, InsertedRowOK
  <2>9. ASSUME NEW q \in Client, q # p PROVE Apart(y, tx[q])
    <3>1. PICK z : z = tx[q]
      OBVIOUS
    <3>2. z \in TxRecord /\ TxOK(z) /\ Apart(x, z)
      BY <2>0, <2>9, <3>1, TxFacts DEF PgInv
    <3>3. id \in Inserted(x.call) /\ codes[id] = NoRow
      BY <2>4, <2>5, Zenon DEF Inserted, TxOK, CreateOK, BatchOK
    <3>4. id \notin DOMAIN z.codes
      <4>1. CASE id \in DOMAIN z.codes
        <5>1. z.call.op = "create"
          BY <3>2, <3>3, <4>1, WritesRow
        <5>2. id \in Inserted(z.call)
          BY <3>2, <4>1, <5>1, CreateWrites
        <5> QED BY <3>2, <3>3, <5>2 DEF Apart
      <4> QED BY <4>1
    <3>5. DOMAIN y.codes \cap DOMAIN z.codes = {}
      BY <2>7, <3>2, <3>4 DEF Apart
    <3>6. (DOMAIN y.res \cup y.locked) \cap (DOMAIN z.res \cup z.locked) = {}
      BY <2>7, <3>2 DEF Apart
    <3>7. ASSUME z.call.op = "create", NEW c \in DOMAIN y.codes, NEW d \in DOMAIN z.codes
          PROVE  y.codes[c].short # z.codes[d].short /\ ~Store!SameRef(y.codes[c], z.codes[d])
      <4>1. CASE c # id
        <5>1. c \in DOMAIN x.codes /\ y.codes[c] = x.codes[c]
          BY <2>7, <4>1
        <5> QED BY <2>5, <3>2, <3>7, <5>1, Zenon DEF Apart
      <4>2. CASE c = id
        <5>1. Running(q)
          BY <3>1, TxFacts
        <5>2. PICK w : w = z.codes[d]
          OBVIOUS
        <5>3. ~ShortClash(w, k.short) /\ ~RefClash(w, k)
          BY <1>3, <2>1, <2>9, <3>1, <5>1, <5>2, NotInDoubt
        <5>4. PICK i \in RowsIn(z) : /\ z.call.insert[i].row \in Store!NewRow
                                     /\ w = Store!StoredRow(z.call.insert[i].row)
          BY <3>2, <3>7, <5>2, CreateWrites
        <5>5. IsLive(w)
          BY <5>4, StoredRowOK
        <5>6. w.short # k.short
          BY <5>3, <5>5 DEF ShortClash
        <5>7. k.ref = NoRef \/ w.ref # k.ref \/ w.user # k.user
          BY <5>3, <5>5 DEF RefClash, IsLive
        <5>8. y.codes[c] = r
          BY <2>7, <4>2
        <5> QED BY <2>6, <5>2, <5>6, <5>7, <5>8, Zenon DEF Store!SameRef
      <4> QED BY <4>1, <4>2
    <3> QED BY <2>7, <3>1, <3>2, <3>5, <3>6, <3>7, StaysApart
  <2> QED BY <1>1, <2>3, <2>7, <2>8, <2>9, StatementKeeps
<1>4. "alias_taken" \in Answers /\ "client_ref_taken" \in Answers
  BY DEF Answers
<1> QED BY <1>2, <1>3, <1>4, Zenon DEF InsertRow

\* The record that the upsert of a reservation leaves.
NextRow(x, s, r) ==
  [WriteRes(x, s, r) EXCEPT !.n = @ + 1,
                            !.at = IF x.n < Len(x.call.insert) THEN "insert" ELSE "commit"]

\* A reservation is written, and nothing else.
LEMMA WriteResType ==
  ASSUME NEW x \in TxRecord, NEW s \in ShortCode, NEW r \in Store!Reservation
  PROVE  /\ WriteRes(x, s, r) \in TxRecord
         /\ WriteRes(x, s, r).call = x.call /\ WriteRes(x, s, r).at = x.at
         /\ WriteRes(x, s, r).n = x.n /\ WriteRes(x, s, r).codes = x.codes
         /\ WriteRes(x, s, r).locked = x.locked
         /\ DOMAIN WriteRes(x, s, r).res = DOMAIN x.res \cup {s}
         /\ WriteRes(x, s, r).res[s] = r
         /\ \A t \in DOMAIN x.res : t # s => WriteRes(x, s, r).res[t] = x.res[t]
<1>1. PICK w : w = [t \in DOMAIN x.res \cup {s} |-> IF t = s THEN r ELSE x.res[t]]
  OBVIOUS
<1>2. WriteRes(x, s, r) = [x EXCEPT !.res = w]
  BY <1>1, Zenon DEF WriteRes
<1>3. PICK D \in SUBSET ShortCode : x.res \in [D -> Store!Reservation]
  BY DEF TxRecord, ResWrites
<1>4. w \in [D \cup {s} -> Store!Reservation] /\ DOMAIN x.res = D
  BY <1>1, <1>3
<1>5. w \in ResWrites
  BY <1>4, Zenon DEF ResWrites
<1>6. PICK y : y = WriteRes(x, s, r)
  OBVIOUS
<1>7. /\ y \in TxRecord /\ y.call = x.call /\ y.at = x.at /\ y.n = x.n /\ y.codes = x.codes
      /\ y.locked = x.locked /\ y.res = w
  BY <1>2, <1>5, <1>6 DEF TxRecord
<1>8. /\ DOMAIN w = DOMAIN x.res \cup {s} /\ w[s] = r
      /\ \A t \in DOMAIN x.res : t # s => w[t] = x.res[t]
  BY <1>1
<1> QED BY <1>6, <1>7, <1>8, Zenon

\* The batch is at its next row, or at COMMIT.
LEMMA NextRowType ==
  ASSUME NEW x \in TxRecord, NEW s \in ShortCode, NEW r \in Store!Reservation, NEW y,
         y = NextRow(x, s, r)
  PROVE  /\ y \in TxRecord /\ y.call = x.call /\ y.n = x.n + 1 /\ y.codes = x.codes
         /\ y.locked = x.locked
         /\ y.at = IF x.n < Len(x.call.insert) THEN "insert" ELSE "commit"
         /\ DOMAIN y.res = DOMAIN x.res \cup {s} /\ y.res[s] = r
         /\ \A t \in DOMAIN x.res : t # s => y.res[t] = x.res[t]
<1>1. PICK w : w = WriteRes(x, s, r)
  OBVIOUS
<1>2. /\ w \in TxRecord /\ w.call = x.call /\ w.n = x.n /\ w.codes = x.codes
      /\ w.locked = x.locked /\ DOMAIN w.res = DOMAIN x.res \cup {s} /\ w.res[s] = r
      /\ \A t \in DOMAIN x.res : t # s => w.res[t] = x.res[t]
  BY <1>1, WriteResType, Zenon
<1>3. PICK a \in {"insert", "commit"} :
        a = IF x.n < Len(x.call.insert) THEN "insert" ELSE "commit"
  OBVIOUS
<1>4. w \in TxRecord /\ w.n \in Nat /\ a \in Steps
  BY <1>2, <1>3 DEF TxRecord, Steps
<1>5. PICK m \in Nat : m = w.n + 1
  BY <1>4
<1>6. y = [w EXCEPT !.n = m, !.at = a]
  BY <1>1, <1>3, <1>5, Zenon DEF NextRow
<1>7. /\ y \in TxRecord /\ y.call = w.call /\ y.n = m /\ y.codes = w.codes
      /\ y.locked = w.locked /\ y.at = a /\ y.res = w.res
  BY <1>4, <1>6 DEF TxRecord
<1> QED BY <1>2, <1>3, <1>5, <1>7, Zenon

\* The short codes of one row more.
LEMMA ShortsOfOneMore ==
  ASSUME NEW x, NEW S, NEW n
  PROVE  {Short(x, i) : i \in S \cup {n}} = {Short(x, i) : i \in S} \cup {Short(x, n)}
  OBVIOUS

\* What the upsert changes in a batch's record.
ResAdded(x, y) ==
  /\ y.call = x.call /\ y.n = x.n + 1 /\ y.codes = x.codes /\ y.locked = x.locked
  /\ y.at = IF x.n < Len(x.call.insert) THEN "insert" ELSE "commit"
  /\ DOMAIN y.res = DOMAIN x.res \cup {Short(x, x.n)}
  /\ y.res[Short(x, x.n)] = [code |-> x.call.insert[x.n].id, released |-> FALSE]
  /\ \A t \in DOMAIN x.res : t # Short(x, x.n) => y.res[t] = x.res[t]

\* The name of the row that a batch is at is not one that it has reserved.
LEMMA NotYetReserved ==
  ASSUME NEW x \in TxRecord, TxOK(x), x.at = "reserve"
  PROVE  /\ x.call.op = "create" /\ BatchOK(x) /\ RowsOK(x) /\ ReservedOK(x)
         /\ RowsIn(x) = ResIn(x) \cup {x.n} /\ x.n \notin ResIn(x)
         /\ \A i \in ResIn(x) : Short(x, i) # Short(x, x.n)
         /\ Short(x, x.n) \notin DOMAIN x.res
<1>1. x.call.op = "create" /\ x.n \in DOMAIN x.call.insert /\ x.n \in Nat
  BY CurrentOK
<1>2. BatchOK(x) /\ RowsOK(x) /\ ReservedOK(x)
  BY <1>1, Zenon DEF TxOK, CreateOK
<1>3. RowsIn(x) = ResIn(x) \cup {x.n}
  BY <1>1 DEF RowsIn, ResIn
<1>4. x.n \notin ResIn(x)
  BY <1>1 DEF ResIn
<1>5. ASSUME NEW i \in ResIn(x) PROVE Short(x, i) # Short(x, x.n)
  <2>1. i \in RowsIn(x) /\ x.n \in RowsIn(x) /\ i # x.n
    BY <1>3, <1>4
  <2> QED BY <1>2, <2>1, Zenon DEF RowsOK
<1>6. Short(x, x.n) \notin DOMAIN x.res
  BY <1>2, <1>5, Zenon DEF ReservedOK
<1> QED BY <1>1, <1>2, <1>3, <1>4, <1>5, <1>6

\* A batch reserves a name that nobody holds.
LEMMA ReservedRowOK ==
  ASSUME NEW x \in TxRecord, TxOK(x), x.at = "reserve", NEW y \in TxRecord, ResAdded(x, y),
         Rearmable(reservations[Short(x, x.n)])
  PROVE  TxOK(y)
<1>0. PICK n \in Nat, len \in Nat : n = x.n /\ len = Len(x.call.insert) /\ n \in 1..len
  BY CurrentOK
<1>1. /\ x.call.op = "create" /\ BatchOK(x) /\ RowsOK(x) /\ ReservedOK(x)
      /\ RowsIn(x) = ResIn(x) \cup {n} /\ n \notin ResIn(x)
      /\ \A i \in ResIn(x) : Short(x, i) # Short(x, n)
      /\ Short(x, n) \notin DOMAIN x.res
  BY <1>0, NotYetReserved
<1>2. /\ y.call = x.call /\ y.call.insert = x.call.insert /\ y.n = n + 1 /\ y.codes = x.codes
      /\ y.locked = x.locked
      /\ y.at = IF n < len THEN "insert" ELSE "commit"
      /\ DOMAIN y.res = DOMAIN x.res \cup {Short(x, n)}
      /\ y.res[Short(x, n)] = [code |-> x.call.insert[n].id, released |-> FALSE]
      /\ \A t \in DOMAIN x.res : t # Short(x, n) => y.res[t] = x.res[t]
  BY <1>0, Zenon DEF ResAdded
<1>3. y.n \in 1..(len + 1) /\ (y.n = len + 1 <=> y.at = "commit")
  <2>1. y.n = n + 1 /\ y.at = IF n < len THEN "insert" ELSE "commit"
    BY <1>2
  <2> QED BY <1>0, <2>1
<1>4. BatchOK(y)
  BY <1>0, <1>1, <1>2, <1>3, Zenon DEF BatchOK
<1>5. \A i : Short(y, i) = Short(x, i)
  BY <1>2, Zenon DEF Short
<1>6. RowsIn(y) = RowsIn(x) /\ ResIn(y) = RowsIn(x)
  <2>1. y.n = n + 1 /\ y.at # "reserve" /\ DOMAIN y.call.insert = DOMAIN x.call.insert
    BY <1>2
  <2>2. ASSUME NEW i \in DOMAIN x.call.insert PROVE i < n + 1 <=> (i < n \/ i = n)
    <3>1. i \in Nat
      BY ItemTyped
    <3> QED BY <1>0, <3>1
  <2>3. RowsIn(x) = {i \in DOMAIN x.call.insert : i < n \/ i = n}
    BY <1>0 DEF RowsIn
  <2>4. RowsIn(y) = {i \in DOMAIN x.call.insert : i < n + 1}
    BY <2>1, Zenon DEF RowsIn
  <2>5. ResIn(y) = {i \in DOMAIN x.call.insert : i < n + 1}
    BY <2>1, Zenon DEF ResIn
  <2> QED BY <2>2, <2>3, <2>4, <2>5, Zenon
<1>7. RowsOK(y)
  <2>1. DOMAIN y.codes = {y.call.insert[i].id : i \in RowsIn(y)}
    <3>1. DOMAIN x.codes = {x.call.insert[i].id : i \in RowsIn(x)}
      BY <1>1, Zenon DEF RowsOK
    <3>2. PICK f, S : f = x.call.insert /\ S = RowsIn(x)
      OBVIOUS
    <3>3. y.call.insert = f /\ RowsIn(y) = S /\ DOMAIN y.codes = {f[i].id : i \in S}
      BY <1>2, <1>6, <3>1, <3>2, Zenon
    <3> QED BY <3>3, Zenon
  <2>2. ASSUME NEW i \in RowsIn(y)
        PROVE  /\ y.codes[y.call.insert[i].id] = Store!StoredRow(y.call.insert[i].row)
               /\ \A c \in CodeId : /\ ~ShortClash(codes[c], Short(y, i))
                                    /\ ~RefClash(codes[c], y.call.insert[i].row)
    <3>1. i \in RowsIn(x)
      BY <1>6
    <3> QED BY <1>1, <1>2, <1>5, <3>1, Zenon DEF RowsOK
  <2>3. ASSUME NEW i \in RowsIn(y), NEW j \in RowsIn(y), i # j
        PROVE  /\ Short(y, i) # Short(y, j)
               /\ ~Store!SameRef(y.call.insert[i].row, y.call.insert[j].row)
    <3>1. i \in RowsIn(x) /\ j \in RowsIn(x)
      BY <1>6
    <3> QED BY <1>1, <1>2, <1>5, <2>3, <3>1, Zenon DEF RowsOK
  <2> QED BY <2>1, <2>2, <2>3, Zenon DEF RowsOK
<1>8. ReservedOK(y)
  <2>1. DOMAIN y.res = {Short(y, i) : i \in ResIn(y)}
    <3>1. DOMAIN x.res = {Short(x, i) : i \in ResIn(x)}
      BY <1>1, Zenon DEF ReservedOK
    <3>2. {Short(x, i) : i \in ResIn(x) \cup {n}} = {Short(x, i) : i \in ResIn(x)} \cup {Short(x, n)}
      BY ShortsOfOneMore
    <3>3. {Short(y, i) : i \in ResIn(y)} = {Short(x, i) : i \in ResIn(y)}
      BY <1>5
    <3> QED BY <1>1, <1>2, <1>6, <3>1, <3>2, <3>3, Zenon
  <2>2. ASSUME NEW i \in ResIn(y)
        PROVE  /\ y.res[Short(y, i)] = [code |-> y.call.insert[i].id, released |-> FALSE]
               /\ Rearmable(reservations[Short(y, i)])
    <3>1. CASE i = n
      BY <1>0, <1>2, <1>5, <3>1, Zenon
    <3>2. CASE i \in ResIn(x)
      <4>1. Short(x, i) \in DOMAIN x.res /\ Short(x, i) # Short(x, n)
        BY <1>1, <3>2, Zenon DEF ReservedOK
      <4> QED BY <1>1, <1>2, <1>5, <3>2, <4>1, Zenon DEF ReservedOK
    <3> QED BY <1>1, <1>6, <2>2, <3>1, <3>2
  <2> QED BY <2>1, <2>2, Zenon DEF ReservedOK
<1>9. StepOK(y) /\ UpdateOK(y) /\ ReleaseOK(y)
  BY <1>1, <1>2 DEF StepOK, UpdateOK, ReleaseOK, Operations
<1> QED BY <1>4, <1>7, <1>8, <1>9, Zenon DEF TxOK, CreateOK

\* A reservation of another transaction is one to wait for.
LEMMA NotLocked ==
  ASSUME PgInv, NEW p \in Client, NEW q \in Client, q # p, NEW s, ResLocked(p, s) = {}
  PROVE  s \notin DOMAIN tx[q].res \cup tx[q].locked
<1>1. CASE Running(q)
  BY <1>1, Zenon DEF ResLocked, Others
<1>2. CASE ~Running(q)
  BY <1>2, TxFacts
<1> QED BY <1>1, <1>2

\* The upsert keeps the reservations in hand apart: it waited for a locked one.
LEMMA UpsertKeeps ==
  ASSUME PgInv, NEW p \in Client, UpsertReservation(p) PROVE PgInv'
<1>1. tx[p].at = "reserve" /\ Running(p)
  BY DEF UpsertReservation, Running
<1>2. ASSUME NEW a \in Answers, Refuse(p, a) PROVE PgInv'
  BY <1>1, <1>2, RefusalKeeps
<1>3. ASSUME NEW s, s = Current(p).row.short, ResLocked(p, s) = {}, Rearmable(ResSeen(p, s)),
             Step(p, NextRow(tx[p], s, [code |-> Current(p).id, released |-> FALSE]))
      PROVE  PgInv'
  <2>0. PICK x : x = tx[p]
    OBVIOUS
  <2>1. PICK r : r = [code |-> Current(p).id, released |-> FALSE]
    OBVIOUS
  <2>2. PICK y : y = NextRow(x, s, r)
    OBVIOUS
  <2>3. Step(p, y)
    BY <1>3, <2>0, <2>1, <2>2, Zenon
  <2>4. x \in TxRecord /\ TxOK(x) /\ x.at = "reserve"
    BY <1>1, <2>0, TxFacts
  <2>5. /\ x.call.op = "create" /\ s = Short(x, x.n) /\ s \in ShortCode
        /\ Current(p).id = x.call.insert[x.n].id /\ Current(p).id \in CodeId
    BY <1>3, <2>0, <2>4, CurrentOK DEF Current, Short
  <2>6. r \in Store!Reservation
    BY <2>1, <2>5 DEF Store!Reservation
  <2>7. /\ y \in TxRecord /\ y.call = x.call /\ y.n = x.n + 1 /\ y.codes = x.codes
        /\ y.locked = x.locked
        /\ y.at = IF x.n < Len(x.call.insert) THEN "insert" ELSE "commit"
        /\ DOMAIN y.res = DOMAIN x.res \cup {s} /\ y.res[s] = r
        /\ \A t \in DOMAIN x.res : t # s => y.res[t] = x.res[t]
    <3>1. x \in TxRecord /\ s \in ShortCode
      BY <2>4, <2>5
    <3> QED BY <2>2, <2>6, <3>1, NextRowType
  <2>8. TxOK(y)
    <3>1. ResAdded(x, y)
      BY <2>1, <2>5, <2>7, Zenon DEF ResAdded
    <3>2. s \notin DOMAIN x.res
      BY <2>4, <2>5, NotYetReserved
    <3>3. Rearmable(reservations[s])
      BY <1>3, <2>0, <3>2, Zenon DEF ResSeen
    <3> QED BY <2>4, <2>5, <2>7, <3>1, <3>3, ReservedRowOK
  <2>9. ASSUME NEW q \in Client, q # p PROVE Apart(y, tx[q])
    <3>1. PICK z : z = tx[q]
      OBVIOUS
    <3>2. Apart(x, z)
      BY <2>0, <2>9, <3>1 DEF PgInv
    <3>3. s \notin DOMAIN z.res \cup z.locked
      BY <1>3, <2>9, <3>1, NotLocked
    <3>4. (DOMAIN y.res \cup y.locked) \cap (DOMAIN z.res \cup z.locked) = {}
      BY <2>7, <3>2, <3>3 DEF Apart
    <3>5. DOMAIN y.codes \cap DOMAIN z.codes = {}
      BY <2>7, <3>2, Zenon DEF Apart
    <3>6. (x.call.op = "create" /\ z.call.op = "create") =>
             \A c \in DOMAIN y.codes, d \in DOMAIN z.codes :
               y.codes[c].short # z.codes[d].short /\ ~Store!SameRef(y.codes[c], z.codes[d])
      BY <2>7, <3>2, Zenon DEF Apart
    <3> QED BY <2>7, <3>1, <3>2, <3>4, <3>5, <3>6, StaysApart
  <2>10. y.at \notin {"idle", "done"}
    BY <2>7
  <2> QED BY <1>1, <2>3, <2>7, <2>8, <2>9, <2>10, StatementKeeps
<1>4. "alias_taken" \in Answers
  BY DEF Answers
<1> QED BY <1>2, <1>3, <1>4, Zenon DEF UpsertReservation, NextRow

-----------------------------------------------------------------------------
(* UpdateDestination, SetCodeState and DeleteCode.                         *)

\* A statement that writes nothing.
LEMMA MovesTo ==
  ASSUME NEW x \in TxRecord, NEW a \in Steps, NEW y, y = [x EXCEPT !.at = a]
  PROVE  /\ y \in TxRecord /\ y.call = x.call /\ y.n = x.n /\ y.codes = x.codes /\ y.res = x.res
         /\ y.locked = x.locked /\ y.at = a
  BY DEF TxRecord

\* It stands in nobody's way that it did not stand in before.
LEMMA MovesApart ==
  ASSUME NEW x, NEW y, NEW z, Apart(x, z), y.call = x.call, y.codes = x.codes, y.res = x.res,
         y.locked = x.locked
  PROVE  Apart(y, z)
  BY Zenon DEF Apart

\* What an UPDATE makes of a row keeps its identity and is one version on.
LEMMA SetToType ==
  ASSUME NEW k \in CallRecord, k.op \in {"update", "state", "delete"},
         k.op = "update" => k.dest \in Dest, NEW r \in Store!Row
  PROVE  /\ SetTo(k, r) \in Store!Row /\ SetTo(k, r).version = r.version + 1
         /\ SetTo(k, r).short = r.short /\ SetTo(k, r).ref = r.ref
         /\ SetTo(k, r).user = r.user
<1>1. ASSUME NEW d \in Dest, NEW st \in Store!State, NEW w, w = Store!Amended(r, d, st)
      PROVE  /\ w \in Store!Row /\ w.version = r.version + 1 /\ w.short = r.short
             /\ w.ref = r.ref /\ w.user = r.user
  <2>1. PICK v : v = r.version + 1
    OBVIOUS
  <2>2. r.version \in Nat \ {0}
    BY DEF Store!Row
  <2>3. v \in Nat \ {0}
    BY <2>1, <2>2
  <2>4. w = [short |-> r.short, user |-> r.user, mode |-> r.mode, ref |-> r.ref,
             dest |-> d, state |-> st, version |-> v]
    BY <1>1, <2>1, Zenon DEF Store!Amended
  <2>5. w \in Store!Row
    BY <2>3, <2>4 DEF Store!Row
  <2> QED BY <2>1, <2>4, <2>5
<1>2. r.dest \in Dest /\ r.state \in Store!State
  BY DEF Store!Row
<1>3. "disabled" \in Store!State /\ "deleted" \in Store!State
  BY DEF Store!State
<1>4. CASE k.op = "update"
  <2>1. SetTo(k, r) = Store!Amended(r, k.dest, r.state)
    BY <1>4 DEF SetTo
  <2> QED BY <1>1, <1>2, <1>4, <2>1
<1>5. CASE k.op = "state"
  <2>1. SetTo(k, r) = Store!Amended(r, r.dest, "disabled")
    BY <1>5 DEF SetTo
  <2> QED BY <1>1, <1>2, <1>3, <2>1
<1>6. CASE k.op = "delete"
  <2>1. SetTo(k, r) = Store!Amended(r, r.dest, "deleted")
    BY <1>6 DEF SetTo
  <2> QED BY <1>1, <1>2, <1>3, <2>1
<1> QED BY <1>4, <1>5, <1>6

\* An UPDATE that has written nothing.
LEMMA UpdateFacts ==
  ASSUME NEW x \in TxRecord, TxOK(x), x.at \in {"update", "exists"}
  PROVE  /\ x.call \in CallRecord /\ x.call.op \in {"update", "state", "delete"}
         /\ x.call.insert = <<>> /\ x.call.id \in CodeId /\ x.call.user \in User
         /\ x.call.op = "update" => x.call.dest \in Dest
         /\ DOMAIN x.res = {} /\ x.locked = {} /\ DOMAIN x.codes = {}
<1>1. x.call \in CallRecord
  BY DEF TxRecord
<1>2. x.call.op \in {"update", "state", "delete"}
  BY DEF TxOK, StepOK
<1>3. UpdateOK(x)
  BY DEF TxOK
<1> QED BY <1>1, <1>2, <1>3 DEF UpdateOK

\* The record that the UPDATE leaves.
WithUpdate(x, id, w) == [x EXCEPT !.at = "commit", !.codes = [c \in {id} |-> w]]

\* It holds one row.
LEMMA WithUpdateType ==
  ASSUME NEW x \in TxRecord, NEW id \in CodeId, NEW w \in Store!Row, NEW y,
         y = WithUpdate(x, id, w)
  PROVE  /\ y \in TxRecord /\ y.call = x.call /\ y.n = x.n /\ y.res = x.res
         /\ y.locked = x.locked /\ y.at = "commit"
         /\ DOMAIN y.codes = {id} /\ y.codes[id] = w
<1>1. PICK f : f = [c \in {id} |-> w]
  OBVIOUS
<1>2. f \in [{id} -> Store!Row] /\ {id} \in SUBSET CodeId
  BY <1>1
<1>3. f \in RowWrites /\ "commit" \in Steps
  <2>1. f \in RowWrites
    BY <1>2, Zenon DEF RowWrites
  <2> QED BY <2>1 DEF Steps
<1>4. y = [x EXCEPT !.at = "commit", !.codes = f]
  BY <1>1, Zenon DEF WithUpdate
<1>5. /\ y \in TxRecord /\ y.call = x.call /\ y.n = x.n /\ y.res = x.res
      /\ y.locked = x.locked /\ y.at = "commit" /\ y.codes = f
  BY <1>3, <1>4 DEF TxRecord
<1>6. DOMAIN f = {id} /\ f[id] = w
  BY <1>1
<1> QED BY <1>5, <1>6

\* The UPDATE locks the row that it matched.
LEMMA UpdateKeeps ==
  ASSUME PgInv, NEW p \in Client, UpdateRow(p) PROVE PgInv'
<1>0. PICK x, k : x = tx[p] /\ k = tx[p].call
  OBVIOUS
<1>1. tx[p].at = "update" /\ Running(p)
  BY Zenon DEF UpdateRow, Running
<1>2. x \in TxRecord /\ TxOK(x) /\ x.at = "update" /\ x.call = k
  BY <1>0, <1>1, TxFacts
<1>3. /\ k \in CallRecord /\ k.op \in {"update", "state", "delete"} /\ k.insert = <<>>
      /\ k.id \in CodeId /\ k.user \in User /\ (k.op = "update" => k.dest \in Dest)
      /\ DOMAIN x.res = {} /\ x.locked = {} /\ DOMAIN x.codes = {}
  BY <1>2, UpdateFacts
<1>4. \A q \in Client : q # p => tx[q] \in TxRecord /\ TxOK(tx[q]) /\ Apart(x, tx[q])
  BY <1>0, TxFacts DEF PgInv
<1>5. CASE /\ Where(k, codes[k.id]) /\ CodeLocked(p, k.id) = {}
           /\ Step(p, WithUpdate(x, k.id, SetTo(k, codes[k.id])))
  <2>1. PICK w : w = SetTo(k, codes[k.id])
    OBVIOUS
  <2>2. codes[k.id] \in Store!Row
    <3>1. codes[k.id] # NoRow
      BY <1>5 DEF Where, UpdateWhere, StateWhere
    <3> QED BY <1>3, <3>1 DEF PgInv, PgTypeOK, Store!TypeOK
  <2>3. w \in Store!Row
    BY <1>3, <2>1, <2>2, SetToType
  <2>4. PICK y : y = WithUpdate(x, k.id, w)
    OBVIOUS
  <2>5. /\ y \in TxRecord /\ y.call = k /\ y.n = x.n /\ y.res = x.res
        /\ y.locked = x.locked /\ y.at = "commit"
        /\ DOMAIN y.codes = {k.id} /\ y.codes[k.id] = w
    <3>1. x \in TxRecord /\ k.id \in CodeId /\ x.call = k
      BY <1>2, <1>3
    <3> QED BY <2>3, <2>4, <3>1, WithUpdateType
  <2>6. Step(p, y)
    BY <1>5, <2>1, <2>4, Zenon
  <2>7. TxOK(y)
    <3>1. StepOK(y) /\ CreateOK(y) /\ ReleaseOK(y)
      BY <1>3, <2>5 DEF StepOK, CreateOK, ReleaseOK, Operations
    <3>2. UpdateOK(y)
      BY <1>3, <1>5, <2>1, <2>5, Zenon DEF UpdateOK
    <3> QED BY <3>1, <3>2 DEF TxOK
  <2>8. ASSUME NEW q \in Client, q # p PROVE Apart(y, tx[q])
    <3>1. PICK z : z = tx[q]
      OBVIOUS
    <3>2. k.id \notin DOMAIN z.codes
      <4>1. CASE Running(q)
        BY <1>5, <2>8, <3>1, <4>1, Zenon DEF CodeLocked, Others
      <4>2. CASE ~Running(q)
        BY <3>1, <4>2, TxFacts
      <4> QED BY <4>1, <4>2
    <3>3. Apart(x, z) /\ x.call.op # "create" /\ x.call = k
      BY <1>2, <1>3, <1>4, <2>8, <3>1
    <3>4. DOMAIN y.codes \cap DOMAIN z.codes = {}
      BY <2>5, <3>2
    <3>5. (DOMAIN y.res \cup y.locked) \cap (DOMAIN z.res \cup z.locked) = {}
      BY <1>3, <2>5
    <3> QED BY <2>5, <3>1, <3>3, <3>4, <3>5, StaysApart
  <2> QED BY <1>1, <2>5, <2>6, <2>7, <2>8, StatementKeeps
<1>6. CASE Step(p, [tx[p] EXCEPT !.at = "exists"])
  <2>1. PICK y : y = [x EXCEPT !.at = "exists"]
    OBVIOUS
  <2>2. /\ y \in TxRecord /\ y.call = k /\ y.n = x.n /\ y.codes = x.codes /\ y.res = x.res
        /\ y.locked = x.locked /\ y.at = "exists"
    <3>1. "exists" \in Steps
      BY DEF Steps
    <3> QED BY <1>2, <2>1, <3>1, MovesTo
  <2>3. Step(p, y)
    BY <1>0, <1>6, <2>1, Zenon
  <2>4. TxOK(y)
    BY <1>3, <2>2 DEF TxOK, StepOK, CreateOK, UpdateOK, ReleaseOK
  <2>5. \A q \in Client : q # p => Apart(y, tx[q])
    BY <1>2, <1>4, <2>2, MovesApart
  <2> QED BY <1>1, <2>2, <2>3, <2>4, <2>5, StatementKeeps
<1>7. [tx[p] EXCEPT !.at = "commit", !.codes = [c \in {k.id} |-> SetTo(k, codes[c])]]
        = WithUpdate(x, k.id, SetTo(k, codes[k.id]))
  <2>1. [c \in {k.id} |-> SetTo(k, codes[c])] = [c \in {k.id} |-> SetTo(k, codes[k.id])]
    OBVIOUS
  <2> QED BY <1>0, <2>1, Zenon DEF WithUpdate
<1>8. UpdateRow(p) => \/ /\ Where(k, codes[k.id]) /\ CodeLocked(p, k.id) = {}
                         /\ Step(p, [tx[p] EXCEPT !.at = "commit",
                                      !.codes = [c \in {k.id} |-> SetTo(k, codes[c])]])
                      \/ Step(p, [tx[p] EXCEPT !.at = "exists"])
  BY <1>0, Zenon DEF UpdateRow
<1> QED BY <1>5, <1>6, <1>7, <1>8, Zenon

\* The look at the row that an UPDATE did not touch.
LEMMA ExistsKeeps ==
  ASSUME PgInv, NEW p \in Client, OwnedExists(p) PROVE PgInv'
<1>0. PICK x : x = tx[p]
  OBVIOUS
<1>1. tx[p].at = "exists" /\ Running(p)
  BY Zenon DEF OwnedExists, Running
<1>2. ASSUME NEW a \in Answers, Refuse(p, a) PROVE PgInv'
  BY <1>1, <1>2, RefusalKeeps
<1>3. CASE Step(p, [tx[p] EXCEPT !.at = "commit"])
  <2>1. PICK y : y = [x EXCEPT !.at = "commit"]
    OBVIOUS
  <2>2. x \in TxRecord /\ TxOK(x) /\ x.at = "exists"
    BY <1>0, <1>1, TxFacts
  <2>3. /\ x.call.op \in {"update", "state", "delete"} /\ x.call.insert = <<>>
        /\ x.call.id \in CodeId /\ x.call.user \in User
        /\ x.call.op = "update" => x.call.dest \in Dest
        /\ DOMAIN x.res = {} /\ x.locked = {} /\ DOMAIN x.codes = {}
    BY <2>2, UpdateFacts
  <2>4. /\ y \in TxRecord /\ y.call = x.call /\ y.n = x.n /\ y.codes = x.codes /\ y.res = x.res
        /\ y.locked = x.locked /\ y.at = "commit"
    <3>1. "commit" \in Steps
      BY DEF Steps
    <3> QED BY <2>1, <2>2, <3>1, MovesTo
  <2>5. Step(p, y)
    BY <1>0, <1>3, <2>1, Zenon
  <2>6. TxOK(y)
    BY <2>3, <2>4 DEF TxOK, StepOK, CreateOK, UpdateOK, ReleaseOK, Operations
  <2>7. \A q \in Client : q # p => Apart(y, tx[q])
    <3>1. \A q \in Client : q # p => Apart(x, tx[q])
      BY <1>0 DEF PgInv
    <3> QED BY <2>4, <3>1, MovesApart
  <2> QED BY <1>1, <2>4, <2>5, <2>6, <2>7, StatementKeeps
<1>4. "not_found" \in Answers /\ "conflict" \in Answers
  BY DEF Answers
<1> QED BY <1>2, <1>3, <1>4, Zenon DEF OwnedExists

-----------------------------------------------------------------------------
(* ReleaseAlias.                                                           *)

\* A release that has written nothing.
LEMMA ReleaseFacts ==
  ASSUME NEW x \in TxRecord, TxOK(x), x.at \in {"lock", "count", "mark"}
  PROVE  /\ x.call.op = "release" /\ x.call.insert = <<>> /\ x.call.short \in ShortCode
         /\ DOMAIN x.codes = {} /\ DOMAIN x.res = {}
         /\ x.at = "lock" => x.locked = {}
         /\ x.at # "lock" => x.locked = {x.call.short} /\ Unreleased(reservations[x.call.short])
         /\ x.at = "mark" => \A c \in CodeId : ~ShortClash(codes[c], x.call.short)
<1>1. x.call.op = "release"
  BY DEF TxOK, StepOK
<1>2. ReleaseOK(x)
  BY DEF TxOK
<1>3. x.at # "commit"
  OBVIOUS
<1> QED BY <1>1, <1>2, <1>3 DEF ReleaseOK

\* SELECT ... FOR UPDATE waits until nobody else has the reservation.
LEMMA LockKeeps ==
  ASSUME PgInv, NEW p \in Client, LockReservation(p) PROVE PgInv'
<1>0. PICK x, s : x = tx[p] /\ s = tx[p].call.short
  OBVIOUS
<1>1. tx[p].at = "lock" /\ Running(p)
  BY Zenon DEF LockReservation, Running
<1>2. ASSUME NEW a \in Answers, Refuse(p, a) PROVE PgInv'
  BY <1>1, <1>2, RefusalKeeps
<1>3. CASE /\ Unreleased(reservations[s]) /\ ResLocked(p, s) = {}
           /\ Step(p, [tx[p] EXCEPT !.at = "count", !.locked = {s}])
  <2>1. PICK y : y = [x EXCEPT !.at = "count", !.locked = {s}]
    OBVIOUS
  <2>2. x \in TxRecord /\ TxOK(x) /\ x.at = "lock"
    BY <1>0, <1>1, TxFacts
  <2>3. /\ x.call.op = "release" /\ x.call.insert = <<>> /\ x.call.short = s /\ s \in ShortCode
        /\ DOMAIN x.codes = {} /\ DOMAIN x.res = {}
    BY <1>0, <2>2, ReleaseFacts
  <2>4. /\ y \in TxRecord /\ y.call = x.call /\ y.n = x.n /\ y.codes = x.codes /\ y.res = x.res
        /\ y.locked = {s} /\ y.at = "count"
    <3>1. "count" \in Steps /\ {s} \in SUBSET ShortCode
      BY <2>3 DEF Steps
    <3> QED BY <2>1, <2>2, <3>1 DEF TxRecord
  <2>5. Step(p, y)
    BY <1>0, <1>3, <2>1, Zenon
  <2>6. TxOK(y)
    <3>1. StepOK(y) /\ CreateOK(y) /\ UpdateOK(y)
      BY <2>3, <2>4 DEF StepOK, CreateOK, UpdateOK
    <3>2. ReleaseOK(y)
      <4>1. y.call.short = s
        BY <2>3, <2>4
      <4> QED BY <1>3, <2>3, <2>4, <4>1 DEF ReleaseOK
    <3> QED BY <3>1, <3>2 DEF TxOK
  <2>7. ASSUME NEW q \in Client, q # p PROVE Apart(y, tx[q])
    <3>1. PICK z : z = tx[q]
      OBVIOUS
    <3>2. Apart(x, z)
      BY <1>0, <2>7, <3>1 DEF PgInv
    <3>3. s \notin DOMAIN z.res \cup z.locked
      BY <1>3, <2>7, <3>1, NotLocked
    <3>4. (DOMAIN y.res \cup y.locked) \cap (DOMAIN z.res \cup z.locked) = {}
      BY <2>3, <2>4, <3>3
    <3>5. DOMAIN y.codes \cap DOMAIN z.codes = {} /\ x.call.op # "create"
      BY <2>3, <2>4
    <3> QED BY <2>4, <3>1, <3>2, <3>4, <3>5, StaysApart
  <2> QED BY <1>1, <2>4, <2>5, <2>6, <2>7, StatementKeeps
<1>4. "not_found" \in Answers
  BY DEF Answers
<1> QED BY <1>0, <1>2, <1>3, <1>4, Zenon DEF LockReservation

\* The count of live codes.
LEMMA CountKeeps ==
  ASSUME PgInv, NEW p \in Client, CountLive(p) PROVE PgInv'
<1>0. PICK x, s : x = tx[p] /\ s = tx[p].call.short
  OBVIOUS
<1>1. tx[p].at = "count" /\ Running(p)
  BY Zenon DEF CountLive, Running
<1>2. ASSUME NEW a \in Answers, Refuse(p, a) PROVE PgInv'
  BY <1>1, <1>2, RefusalKeeps
<1>3. CASE /\ ~\E c \in CodeId : ShortClash(codes[c], s)
           /\ Step(p, [tx[p] EXCEPT !.at = "mark"])
  <2>1. PICK y : y = [x EXCEPT !.at = "mark"]
    OBVIOUS
  <2>2. x \in TxRecord /\ TxOK(x) /\ x.at = "count"
    BY <1>0, <1>1, TxFacts
  <2>3. /\ x.call.op = "release" /\ x.call.insert = <<>> /\ x.call.short = s /\ s \in ShortCode
        /\ DOMAIN x.codes = {} /\ DOMAIN x.res = {} /\ x.locked = {s}
        /\ Unreleased(reservations[s])
    BY <1>0, <2>2, ReleaseFacts
  <2>4. /\ y \in TxRecord /\ y.call = x.call /\ y.n = x.n /\ y.codes = x.codes /\ y.res = x.res
        /\ y.locked = x.locked /\ y.at = "mark"
    <3>1. "mark" \in Steps
      BY DEF Steps
    <3> QED BY <2>1, <2>2, <3>1, MovesTo
  <2>5. Step(p, y)
    BY <1>0, <1>3, <2>1, Zenon
  <2>6. TxOK(y)
    <3>1. StepOK(y) /\ CreateOK(y) /\ UpdateOK(y)
      BY <2>3, <2>4 DEF StepOK, CreateOK, UpdateOK
    <3>2. ReleaseOK(y)
      <4>1. y.call.short = s /\ y.locked = {s}
        BY <2>3, <2>4
      <4>2. \A c \in CodeId : ~ShortClash(codes[c], y.call.short)
        BY <1>3, <4>1, Zenon
      <4> QED BY <2>3, <2>4, <4>1, <4>2 DEF ReleaseOK
    <3> QED BY <3>1, <3>2 DEF TxOK
  <2>7. \A q \in Client : q # p => Apart(y, tx[q])
    <3>1. \A q \in Client : q # p => Apart(x, tx[q])
      BY <1>0 DEF PgInv
    <3> QED BY <2>4, <3>1, MovesApart
  <2> QED BY <1>1, <2>4, <2>5, <2>6, <2>7, StatementKeeps
<1>4. "conflict" \in Answers
  BY DEF Answers
<1> QED BY <1>0, <1>2, <1>3, <1>4, Zenon DEF CountLive

\* The UPDATE that marks the reservation released.
LEMMA MarkKeeps ==
  ASSUME PgInv, NEW p \in Client, MarkReleased(p) PROVE PgInv'
<1>0. PICK x, s : x = tx[p] /\ s = tx[p].call.short
  OBVIOUS
<1>1. tx[p].at = "mark" /\ Running(p)
  BY Zenon DEF MarkReleased, Running
<1>2. x \in TxRecord /\ TxOK(x) /\ x.at = "mark"
  BY <1>0, <1>1, TxFacts
<1>3. /\ x.call.op = "release" /\ x.call.insert = <<>> /\ x.call.short = s /\ s \in ShortCode
      /\ DOMAIN x.codes = {} /\ DOMAIN x.res = {} /\ x.locked = {s}
      /\ Unreleased(reservations[s]) /\ \A c \in CodeId : ~ShortClash(codes[c], s)
  BY <1>0, <1>2, ReleaseFacts
<1>4. PICK r : r = [reservations[s] EXCEPT !.released = TRUE]
  OBVIOUS
<1>5. r \in Store!Reservation /\ r = [code |-> reservations[s].code, released |-> TRUE]
  <2>1. reservations[s] \in Store!Reservation
    BY <1>3 DEF PgInv, PgTypeOK, Store!TypeOK
  <2> QED BY <1>4, <2>1 DEF Store!Reservation
<1>6. PICK w : w = WriteRes(x, s, r)
  OBVIOUS
<1>7. /\ w \in TxRecord /\ w.call = x.call /\ w.n = x.n /\ w.codes = x.codes
      /\ w.locked = x.locked /\ DOMAIN w.res = DOMAIN x.res \cup {s} /\ w.res[s] = r
  <2>1. x \in TxRecord /\ s \in ShortCode /\ r \in Store!Reservation
    BY <1>2, <1>3, <1>5
  <2> QED BY <1>6, <2>1, WriteResType, Zenon
<1>8. PICK y : y = [w EXCEPT !.at = "commit"]
  OBVIOUS
<1>9. /\ y \in TxRecord /\ y.call = x.call /\ y.n = x.n /\ y.codes = x.codes
      /\ y.locked = x.locked /\ y.at = "commit" /\ DOMAIN y.res = {s} /\ y.res[s] = r
  <2>1. "commit" \in Steps
    BY DEF Steps
  <2>2. /\ y \in TxRecord /\ y.call = w.call /\ y.n = w.n /\ y.codes = w.codes /\ y.res = w.res
        /\ y.locked = w.locked /\ y.at = "commit"
    BY <1>7, <1>8, <2>1, MovesTo
  <2> QED BY <1>3, <1>7, <2>2
<1>10. Step(p, y)
  <2>1. MarkReleased(p) => \/ Step(p, [WriteRes(tx[p], s, [reservations[s] EXCEPT !.released = TRUE])
                                        EXCEPT !.at = "commit"])
                           \/ ~Unreleased(reservations[s])
    BY <1>0, Zenon DEF MarkReleased
  <2> QED BY <1>0, <1>3, <1>4, <1>6, <1>8, <2>1, Zenon
<1>11. TxOK(y)
  <2>1. StepOK(y) /\ CreateOK(y) /\ UpdateOK(y)
    BY <1>3, <1>9 DEF StepOK, CreateOK, UpdateOK, Operations
  <2>2. ReleaseOK(y)
    <3>1. y.call.short = s /\ y.locked = {s}
      BY <1>3, <1>9
    <3> QED BY <1>3, <1>5, <1>9, <3>1, Zenon DEF ReleaseOK
  <2> QED BY <2>1, <2>2 DEF TxOK
<1>12. ASSUME NEW q \in Client, q # p PROVE Apart(y, tx[q])
  <2>1. PICK z : z = tx[q]
    OBVIOUS
  <2>2. Apart(x, z)
    BY <1>0, <1>12, <2>1 DEF PgInv
  <2>3. (DOMAIN y.res \cup y.locked) \cap (DOMAIN z.res \cup z.locked) = {}
    BY <1>3, <1>9, <2>2 DEF Apart
  <2>4. DOMAIN y.codes \cap DOMAIN z.codes = {} /\ x.call.op # "create"
    BY <1>3, <1>9
  <2> QED BY <1>9, <2>1, <2>2, <2>3, <2>4, StaysApart
<1> QED BY <1>1, <1>9, <1>10, <1>11, <1>12, StatementKeeps

-----------------------------------------------------------------------------
(* Callers.                                                                *)

\* A call begins: its transaction holds nothing yet.
LEMMA BeginKeeps ==
  ASSUME PgInv, NEW p \in Client, NEW k \in CallRecord, NEW a \in Steps, a \notin {"idle", "done"},
         Begin(p, k, a), NEW y, y = Transaction(k, a), TxOK(y),
         \A q \in Client : q # p => Inserted(k) \cap Inserted(tx[q].call) = {}
  PROVE  PgInv'
<1>1. /\ tx' = [tx EXCEPT ![p] = y] /\ UNCHANGED <<codes, reservations>> /\ calls' = calls + 1
      /\ ~Running(p) /\ calls < MaxCalls
  BY Zenon DEF Begin
<1>2. y = [call |-> k, at |-> a, n |-> 1, codes |-> <<>>, res |-> <<>>, locked |-> {},
           answer |-> "none"]
  BY Zenon DEF Transaction
<1>3. <<>> \in RowWrites /\ <<>> \in ResWrites
  <2>1. <<>> \in [{} -> Store!Row] /\ <<>> \in [{} -> Store!Reservation]
    OBVIOUS
  <2>2. {} \in SUBSET CodeId /\ {} \in SUBSET ShortCode
    OBVIOUS
  <2>3. <<>> \in RowWrites
    BY <2>1, <2>2, Zenon DEF RowWrites
  <2>4. <<>> \in ResWrites
    BY <2>1, <2>2, Zenon DEF ResWrites
  <2> QED BY <2>3, <2>4
<1>4. "none" \in Answers
  BY DEF Answers
<1>5. /\ y \in TxRecord /\ y.call = k /\ y.at = a /\ DOMAIN y.codes = {} /\ DOMAIN y.res = {}
      /\ y.locked = {}
  BY <1>2, <1>3, <1>4 DEF TxRecord
<1>6. CallsCounted'
  <2>1. tx \in [Client -> TxRecord] /\ tx'[p] = y /\ \A q \in Client : q # p => tx'[q] = tx[q]
    BY <1>1 DEF PgInv, PgTypeOK
  <2>2. Busy' = Busy \cup {p} /\ p \notin Busy
    BY <1>1, <1>5, <2>1 DEF Busy, Running
  <2>3. IsFiniteSet(Busy)
    BY DEF PgInv, CallsCounted
  <2>4. IsFiniteSet(Busy') /\ Cardinality(Busy') = Cardinality(Busy) + 1
    BY <2>2, <2>3, FS_AddElement
  <2>5. Cardinality(Busy) \in Nat
    BY <2>3, FS_CardinalityType
  <2>6. calls \in 0..MaxCalls /\ Cardinality(Busy) <= calls /\ codes' = codes
    BY <1>1 DEF PgInv, CallsCounted
  <2>7. ASSUME NEW c \in CodeId, codes[c] # NoRow
        PROVE  codes[c].version + Cardinality(Busy') <= calls'
    <3>1. codes[c].version \in Nat
      BY <2>7 DEF PgInv, PgTypeOK, Store!TypeOK, Store!Row
    <3>2. codes[c].version + Cardinality(Busy) <= calls
      BY <2>7 DEF PgInv, CallsCounted
    <3> QED BY <1>1, <2>4, <2>5, <2>6, <3>1, <3>2
  <2>8. calls' \in 0..MaxCalls /\ Cardinality(Busy') <= calls'
    BY <1>1, <2>4, <2>5, <2>6, PgAssumption
  <2>9. \A c \in CodeId : codes'[c] # NoRow => codes'[c].version + Cardinality(Busy') <= calls'
    BY <2>6, <2>7
  <2> QED BY <2>4, <2>8, <2>9 DEF CallsCounted
<1>7. ASSUME NEW q \in Client, q # p PROVE Apart(y, tx[q])
  <2>1. Inserted(k) \cap Inserted(tx[q].call) = {}
    BY <1>7
  <2> QED BY <1>5, <2>1 DEF Apart
<1> QED BY <1>1, <1>5, <1>6, <1>7, OneMoves

\* Ids are drawn anew for every row of every batch.
LEMMA NumberedOK ==
  ASSUME PgInv, NEW rows \in Batches, Injection(DOMAIN rows, Unused) # {}, NEW ins, ins = Numbered(rows)
  PROVE  /\ ins \in Seq(Item) /\ ins # <<>> /\ Len(ins) \in Nat \ {0} /\ DOMAIN ins = 1..Len(ins)
         /\ Len(ins) <= MaxBatch
         /\ \A i \in DOMAIN ins : /\ ins[i].id \in Unused /\ ins[i].id \in CodeId
                                  /\ codes[ins[i].id] = NoRow
         /\ \A i, j \in DOMAIN ins : ins[i].id = ins[j].id => i = j
<1>1. rows \in Seq(Store!NewRow) /\ Len(rows) \in 1..MaxBatch /\ MaxBatch \in Nat
  BY PgAssumption
<1>2. PICK n \in Nat : n = Len(rows) /\ n # 0 /\ DOMAIN rows = 1..n
  BY <1>1
<1>3. PICK f : f = CHOOSE g \in Injection(DOMAIN rows, Unused) : TRUE
  OBVIOUS
<1>4. f \in Injection(DOMAIN rows, Unused)
  BY <1>3, Zenon
<1>5. f \in [1..n -> Unused] /\ \A i, j \in 1..n : f[i] = f[j] => i = j
  BY <1>2, <1>4 DEF Injection, IsInjective
<1>6. ins = [i \in 1..n |-> [id |-> f[i], row |-> rows[i]]]
  BY <1>2, <1>3, Zenon DEF Numbered
<1>7. Unused \subseteq CodeId /\ \A c \in Unused : codes[c] = NoRow
  BY DEF Unused
<1>8. ASSUME NEW i \in 1..n
      PROVE  /\ ins[i] \in Item /\ ins[i].id = f[i] /\ ins[i].id \in Unused
             /\ ins[i].id \in CodeId /\ codes[ins[i].id] = NoRow
  <2>1. rows[i] \in Store!NewRow
    BY <1>1, <1>2
  <2>2. ins[i] = [id |-> f[i], row |-> rows[i]] /\ f[i] \in Unused
    BY <1>5, <1>6
  <2> QED BY <1>7, <2>1, <2>2 DEF Item
<1>9. ins \in [1..n -> Item]
  BY <1>6, <1>8
<1>10. ins \in Seq(Item) /\ Len(ins) = n /\ DOMAIN ins = 1..n
  BY <1>9
<1>11. ins # <<>>
  BY <1>2, <1>10
<1>12. n <= MaxBatch
  BY <1>1, <1>2
<1> QED BY <1>2, <1>5, <1>8, <1>10, <1>11, <1>12

\* CreateCodes is called.
LEMMA BeginCreateKeeps ==
  ASSUME PgInv, NEW p \in Client, BeginCreate(p) PROVE PgInv'
<1>1. PICK rows \in Batches :
        /\ Injection(DOMAIN rows, Unused) # {}
        /\ Begin(p, Call("create", Numbered(rows), NoRow, NoRow, NoRow, 0, NoRow), "insert")
  BY Zenon DEF BeginCreate
<1>2. PICK ins : ins = Numbered(rows)
  OBVIOUS
<1>3. PICK k : k = Call("create", ins, NoRow, NoRow, NoRow, 0, NoRow)
  OBVIOUS
<1>4. k = [op |-> "create", insert |-> ins, id |-> NoRow, user |-> NoRow, dest |-> NoRow,
           version |-> 0, short |-> NoRow]
  BY <1>3, Zenon DEF Call
<1>5. /\ ins \in Seq(Item) /\ ins # <<>> /\ Len(ins) \in Nat \ {0} /\ DOMAIN ins = 1..Len(ins)
      /\ Len(ins) <= MaxBatch
      /\ \A i \in DOMAIN ins : /\ ins[i].id \in Unused /\ ins[i].id \in CodeId
                               /\ codes[ins[i].id] = NoRow
      /\ \A i, j \in DOMAIN ins : ins[i].id = ins[j].id => i = j
  BY <1>1, <1>2, NumberedOK
<1>6. k \in CallRecord
  BY <1>4, <1>5 DEF CallRecord, Operations
<1>7. PICK y : y = Transaction(k, "insert")
  OBVIOUS
<1>8. /\ y.call = k /\ y.call.op = "create" /\ y.call.insert = ins /\ y.at = "insert" /\ y.n = 1
      /\ DOMAIN y.codes = {} /\ DOMAIN y.res = {} /\ y.locked = {}
  BY <1>4, <1>7 DEF Transaction
<1>9. RowsIn(y) = {} /\ ResIn(y) = {}
  <2>1. \A i \in DOMAIN ins : ~(i < 1)
    BY <1>5
  <2>2. RowsIn(y) = {i \in DOMAIN ins : i < 1}
    BY <1>8 DEF RowsIn
  <2>3. ResIn(y) = {i \in DOMAIN ins : i < 1}
    BY <1>8 DEF ResIn
  <2> QED BY <2>1, <2>2, <2>3
<1>10. BatchOK(y)
  <2>1. 1 \in 1..(Len(ins) + 1) /\ 1 # Len(ins) + 1
    BY <1>5
  <2>2. y.n \in 1..(Len(y.call.insert) + 1) /\ y.n # Len(y.call.insert) + 1
    BY <1>8, <2>1
  <2> QED BY <1>5, <1>8, <2>2, Zenon DEF BatchOK
<1>11. RowsOK(y) /\ ReservedOK(y)
  BY <1>8, <1>9 DEF RowsOK, ReservedOK
<1>12. StepOK(y) /\ UpdateOK(y) /\ ReleaseOK(y)
  BY <1>8 DEF StepOK, UpdateOK, ReleaseOK
<1>13. TxOK(y)
  BY <1>10, <1>11, <1>12, Zenon DEF TxOK, CreateOK
<1>14. ASSUME NEW q \in Client PROVE Inserted(k) \cap Inserted(tx[q].call) = {}
  <2>1. k.insert = ins
    BY <1>4
  <2>2. \A c \in Unused : c \notin Inserted(tx[q].call)
    BY DEF Unused
  <2>3. ASSUME NEW c \in Inserted(k) PROVE c \in Unused
    BY <1>5, <2>1, <2>3 DEF Inserted
  <2> QED BY <2>2, <2>3
<1>15. Begin(p, k, "insert") /\ "insert" \in Steps
  <2>1. Begin(p, k, "insert")
    BY <1>1, <1>2, <1>3, Zenon
  <2> QED BY <2>1 DEF Steps
<1> QED BY <1>6, <1>7, <1>13, <1>14, <1>15, BeginKeeps

\* A call that inserts nothing.
LEMMA BeginOtherKeeps ==
  ASSUME PgInv, NEW p \in Client, NEW k \in CallRecord, k.insert = <<>>, NEW a \in Steps,
         Begin(p, k, a),
         \/ /\ a = "update" /\ k.op \in {"update", "state", "delete"} /\ k.id \in CodeId
            /\ k.user \in User /\ (k.op = "update" => k.dest \in Dest)
         \/ a = "lock" /\ k.op = "release" /\ k.short \in ShortCode
  PROVE  PgInv'
<1>1. PICK y : y = Transaction(k, a)
  OBVIOUS
<1>2. /\ y.call = k /\ y.at = a /\ DOMAIN y.codes = {} /\ DOMAIN y.res = {} /\ y.locked = {}
  BY <1>1 DEF Transaction
<1>3. TxOK(y)
  BY <1>2 DEF TxOK, StepOK, CreateOK, UpdateOK, ReleaseOK
<1>4. Inserted(k) = {}
  BY DEF Inserted
<1>5. a \notin {"idle", "done"}
  OBVIOUS
<1>6. \A q \in Client : q # p => Inserted(k) \cap Inserted(tx[q].call) = {}
  BY <1>4
<1> QED BY <1>1, <1>3, <1>5, <1>6, BeginKeeps

\* UpdateDestination, SetCodeState or DeleteCode is called.
LEMMA BeginUpdateKeeps ==
  ASSUME PgInv, NEW p \in Client, BeginUpdate(p) PROVE PgInv'
<1>0. "update" \in Steps /\ <<>> \in Seq(Item)
  BY DEF Steps
<1>1. PICK c \in Nameable, u \in User :
        \/ \E d \in Dest, v \in Expected :
             Begin(p, Call("update", <<>>, c, u, d, v, NoRow), "update")
        \/ Begin(p, Call("state", <<>>, c, u, NoRow, 0, NoRow), "update")
        \/ Begin(p, Call("delete", <<>>, c, u, NoRow, 0, NoRow), "update")
  BY Zenon DEF BeginUpdate
<1>2. c \in CodeId
  <2>1. Unused \subseteq CodeId /\ Store!Stored \subseteq CodeId
    BY DEF Unused, Store!Stored
  <2>2. Unused # {} => (CHOOSE e \in Unused : TRUE) \in Unused
    BY Zenon
  <2> QED BY <2>1, <2>2 DEF Nameable
<1>3. ASSUME NEW op \in {"update", "state", "delete"}, NEW d \in Dest \cup {NoRow}, NEW v \in Nat,
             op = "update" => d \in Dest, Begin(p, Call(op, <<>>, c, u, d, v, NoRow), "update")
      PROVE  PgInv'
  <2>1. PICK k : k = Call(op, <<>>, c, u, d, v, NoRow)
    OBVIOUS
  <2>2. k = [op |-> op, insert |-> <<>>, id |-> c, user |-> u, dest |-> d, version |-> v,
             short |-> NoRow]
    BY <2>1, Zenon DEF Call
  <2>3. k \in CallRecord
    BY <1>0, <1>2, <2>2 DEF CallRecord, Operations
  <2>4. /\ k.insert = <<>> /\ k.op \in {"update", "state", "delete"} /\ k.id \in CodeId
        /\ k.user \in User /\ (k.op = "update" => k.dest \in Dest)
    BY <1>2, <1>3, <2>2
  <2>5. Begin(p, k, "update")
    BY <1>3, <2>1, Zenon
  <2> QED BY <1>0, <2>3, <2>4, <2>5, BeginOtherKeeps
<1>4. ASSUME NEW d \in Dest, NEW v \in Expected,
             Begin(p, Call("update", <<>>, c, u, d, v, NoRow), "update")
      PROVE  PgInv'
  <2>1. v \in Nat /\ d \in Dest \cup {NoRow} /\ "update" \in {"update", "state", "delete"}
    BY PgAssumption
  <2> QED BY <1>3, <1>4, <2>1
<1>5. CASE \/ Begin(p, Call("state", <<>>, c, u, NoRow, 0, NoRow), "update")
           \/ Begin(p, Call("delete", <<>>, c, u, NoRow, 0, NoRow), "update")
  <2>1. /\ 0 \in Nat /\ NoRow \in Dest \cup {NoRow} /\ "state" # "update" /\ "delete" # "update"
        /\ "state" \in {"update", "state", "delete"} /\ "delete" \in {"update", "state", "delete"}
    OBVIOUS
  <2> QED BY <1>3, <1>5, <2>1
<1> QED BY <1>1, <1>4, <1>5, Zenon

\* ReleaseAlias is called.
LEMMA BeginReleaseKeeps ==
  ASSUME PgInv, NEW p \in Client, BeginRelease(p) PROVE PgInv'
<1>1. PICK s \in ShortCode : Begin(p, Call("release", <<>>, NoRow, NoRow, NoRow, 0, s), "lock")
  BY Zenon DEF BeginRelease
<1>2. PICK k : k = Call("release", <<>>, NoRow, NoRow, NoRow, 0, s)
  OBVIOUS
<1>3. k = [op |-> "release", insert |-> <<>>, id |-> NoRow, user |-> NoRow, dest |-> NoRow,
           version |-> 0, short |-> s]
  BY <1>2, Zenon DEF Call
<1>4. "lock" \in Steps /\ <<>> \in Seq(Item)
  BY DEF Steps
<1>5. k \in CallRecord /\ k.insert = <<>> /\ k.op = "release" /\ k.short \in ShortCode
  BY <1>3, <1>4 DEF CallRecord, Operations
<1>6. Begin(p, k, "lock")
  BY <1>1, <1>2, Zenon
<1> QED BY <1>4, <1>5, <1>6, BeginOtherKeeps

-----------------------------------------------------------------------------
(* COMMIT.                                                                 *)

\* What becomes visible: a new row whose name is reserved in the same
\* transaction, or a live row amended.
WriteOK(x, c) ==
  /\ c \in CodeId /\ x.codes[c] \in Store!Row
  /\ \/ /\ x.call.op = "create" /\ codes[c] = NoRow /\ c \in Inserted(x.call)
        /\ x.codes[c].version = 1 /\ x.codes[c].short \in DOMAIN x.res
     \/ /\ x.call.op # "create" /\ codes[c] \in Store!Row /\ IsLive(codes[c])
        /\ x.codes[c].version = codes[c].version + 1
        /\ x.codes[c].short = codes[c].short /\ x.codes[c].ref = codes[c].ref
        /\ x.codes[c].user = codes[c].user

\* A batch that is complete has reserved every row.
LEMMA CompleteBatch ==
  ASSUME NEW x \in TxRecord, TxOK(x), x.call.op = "create", x.at = "commit"
  PROVE  RowsIn(x) = DOMAIN x.call.insert /\ ResIn(x) = DOMAIN x.call.insert
<1>1. x.n = Len(x.call.insert) + 1
  BY DEF TxOK, CreateOK, BatchOK
<1>2. ASSUME NEW i \in DOMAIN x.call.insert PROVE i < x.n
  <2>1. i \in 1..Len(x.call.insert) /\ i \in Nat
    BY ItemTyped
  <2>2. Len(x.call.insert) \in Nat
    BY DEF TxRecord, CallRecord
  <2> QED BY <1>1, <2>1, <2>2
<1> QED BY <1>2 DEF RowsIn, ResIn

\* So every write at COMMIT is one of the two.
LEMMA CommitWrites ==
  ASSUME Store!TypeOK, NEW x \in TxRecord, TxOK(x), x.at = "commit", NEW c \in DOMAIN x.codes
  PROVE  WriteOK(x, c)
<1>1. c \in CodeId /\ x.codes[c] \in Store!Row
  <2>1. PICK D \in SUBSET CodeId : x.codes \in [D -> Store!Row]
    BY DEF TxRecord, RowWrites
  <2> QED BY <2>1
<1>2. CASE x.call.op = "create"
  <2>1. PICK i \in RowsIn(x) :
           /\ c = x.call.insert[i].id /\ c \in CodeId /\ c \in Inserted(x.call)
           /\ codes[c] = NoRow
           /\ x.call.insert[i].row \in Store!NewRow
           /\ x.codes[c] = Store!StoredRow(x.call.insert[i].row)
    BY <1>2, CreateWrites
  <2>2. i \in ResIn(x)
    BY <1>2, <2>1, CompleteBatch
  <2>3. Short(x, i) \in DOMAIN x.res
    BY <1>2, <2>2, Zenon DEF TxOK, CreateOK, ReservedOK
  <2>4. x.codes[c].short = Short(x, i) /\ x.codes[c].version = 1
    BY <2>1, StoredRowOK DEF Short
  <2> QED BY <1>1, <1>2, <2>1, <2>3, <2>4, Zenon DEF WriteOK
<1>3. CASE x.call.op # "create"
  <2>1. /\ x.call.op \in {"update", "state", "delete"} /\ c = x.call.id
        /\ Where(x.call, codes[c]) /\ codes[c] # NoRow /\ x.codes[c] = SetTo(x.call, codes[c])
    BY <1>3, WritesRow
  <2>2. codes[c] \in Store!Row
    BY <1>1, <2>1 DEF Store!TypeOK
  <2>3. IsLive(codes[c])
    BY <2>1 DEF Where, UpdateWhere, StateWhere, IsLive
  <2>4. x.call \in CallRecord /\ (x.call.op = "update" => x.call.dest \in Dest)
    <3>1. UpdateOK(x)
      BY DEF TxOK
    <3> QED BY <2>1, <3>1 DEF TxRecord, UpdateOK
  <2>5. /\ x.codes[c].version = codes[c].version + 1 /\ x.codes[c].short = codes[c].short
        /\ x.codes[c].ref = codes[c].ref /\ x.codes[c].user = codes[c].user
    BY <2>1, <2>2, <2>4, SetToType
  <2> QED BY <1>1, <1>3, <2>2, <2>3, <2>5, Zenon DEF WriteOK
<1> QED BY <1>2, <1>3

\* The tables after x has committed.
Lands(x) ==
  /\ \A c \in CodeId : codes'[c] = IF c \in DOMAIN x.codes THEN x.codes[c] ELSE codes[c]
  /\ \A s \in ShortCode : reservations'[s] = IF s \in DOMAIN x.res THEN x.res[s] ELSE reservations[s]
  /\ \A c \in DOMAIN x.codes : WriteOK(x, c)

\* A batch in progress meets nothing new.
LEMMA BatchSurvives ==
  ASSUME NEW x, Lands(x), NEW z \in TxRecord, TxOK(z), Apart(x, z), z.call.op = "create"
  PROVE  BatchOK(z)' /\ RowsOK(z)' /\ ReservedOK(z)'
<1>1. BatchOK(z) /\ RowsOK(z) /\ ReservedOK(z)
  BY Zenon DEF TxOK, CreateOK
<1>2. ASSUME NEW i \in DOMAIN z.call.insert PROVE codes'[z.call.insert[i].id] = NoRow
  <2>1. PICK c : c = z.call.insert[i].id
    OBVIOUS
  <2>2. c \in CodeId /\ codes[c] = NoRow /\ c \in Inserted(z.call)
    BY <1>1, <2>1, ItemTyped DEF BatchOK, Inserted
  <2>3. c \notin DOMAIN x.codes
    <3>1. CASE c \in DOMAIN x.codes
      <4>1. WriteOK(x, c) /\ Inserted(x.call) \cap Inserted(z.call) = {}
        BY <3>1, Zenon DEF Lands, Apart
      <4> QED BY <2>2, <4>1 DEF WriteOK, IsLive
    <3> QED BY <3>1
  <2> QED BY <2>1, <2>2, <2>3 DEF Lands
<1>3. BatchOK(z)'
  BY <1>1, <1>2 DEF BatchOK
<1>4. ASSUME NEW i \in RowsIn(z), NEW c \in CodeId
      PROVE  ~ShortClash(codes'[c], Short(z, i)) /\ ~RefClash(codes'[c], z.call.insert[i].row)
  <2>1. PICK d, r : d = z.call.insert[i].id /\ r = z.call.insert[i].row
    OBVIOUS
  <2>2. d \in DOMAIN z.codes /\ z.codes[d] = Store!StoredRow(r) /\ Short(z, i) = r.short
    BY <1>1, <2>1, Zenon DEF RowsOK, Short
  <2>3. r \in Store!NewRow
    BY <2>1, ItemTyped DEF RowsIn
  <2>4. z.codes[d].short = r.short /\ z.codes[d].ref = r.ref /\ z.codes[d].user = r.user
    BY <2>2, <2>3, StoredRowOK
  <2>5. ~ShortClash(codes[c], r.short) /\ ~RefClash(codes[c], r)
    BY <1>1, <2>1, <2>2, Zenon DEF RowsOK
  <2>6. CASE c \notin DOMAIN x.codes
    BY <2>1, <2>2, <2>5, <2>6 DEF Lands
  <2>7. CASE c \in DOMAIN x.codes
    <3>1. codes'[c] = x.codes[c] /\ WriteOK(x, c)
      BY <2>7 DEF Lands
    <3>2. PICK w : w = x.codes[c]
      OBVIOUS
    <3>3. CASE x.call.op = "create"
      <4>1. w.short # z.codes[d].short /\ ~Store!SameRef(w, z.codes[d])
        BY <2>2, <2>7, <3>2, <3>3, Zenon DEF Apart
      <4>2. w.short # r.short /\ (w.ref = NoRef \/ w.ref # r.ref \/ w.user # r.user)
        BY <2>4, <4>1, Zenon DEF Store!SameRef
      <4>3. ~ShortClash(w, r.short) /\ ~RefClash(w, r)
        BY <4>2, Zenon DEF ShortClash, RefClash
      <4> QED BY <2>1, <2>2, <3>1, <3>2, <4>3, Zenon
    <3>4. CASE x.call.op # "create"
      <4>1. IsLive(codes[c]) /\ w.short = codes[c].short /\ w.ref = codes[c].ref
            /\ w.user = codes[c].user
        BY <3>1, <3>2, <3>4, Zenon DEF WriteOK
      <4>2. ~ShortClash(w, r.short) /\ ~RefClash(w, r)
        BY <2>5, <4>1, Zenon DEF ShortClash, RefClash, IsLive
      <4> QED BY <2>1, <2>2, <3>1, <3>2, <4>2, Zenon
    <3> QED BY <3>3, <3>4
  <2> QED BY <2>6, <2>7
<1>5. RowsOK(z)'
  <2>1. \A i \in RowsIn(z) :
          /\ z.codes[z.call.insert[i].id] = Store!StoredRow(z.call.insert[i].row)
          /\ \A c \in CodeId : /\ ~ShortClash(codes'[c], Short(z, i))
                               /\ ~RefClash(codes'[c], z.call.insert[i].row)
    BY <1>1, <1>4, Zenon DEF RowsOK
  <2>2. /\ DOMAIN z.codes = {z.call.insert[i].id : i \in RowsIn(z)}
        /\ \A i, j \in RowsIn(z) : i # j =>
             /\ Short(z, i) # Short(z, j)
             /\ ~Store!SameRef(z.call.insert[i].row, z.call.insert[j].row)
    BY <1>1, Zenon DEF RowsOK
  <2> QED BY <2>1, <2>2 DEF RowsOK
<1>6. ReservedOK(z)'
  <2>1. ASSUME NEW i \in ResIn(z) PROVE Rearmable(reservations'[Short(z, i)])
    <3>1. Short(z, i) \in DOMAIN z.res /\ Rearmable(reservations[Short(z, i)])
      BY <1>1, Zenon DEF ReservedOK
    <3>2. Short(z, i) \in ShortCode
      BY ItemTyped DEF ResIn
    <3>3. Short(z, i) \notin DOMAIN x.res
      BY <3>1 DEF Apart
    <3> QED BY <3>1, <3>2, <3>3 DEF Lands
  <2>2. /\ DOMAIN z.res = {Short(z, i) : i \in ResIn(z)}
        /\ \A i \in ResIn(z) : z.res[Short(z, i)] = [code |-> z.call.insert[i].id, released |-> FALSE]
    BY <1>1, Zenon DEF ReservedOK
  <2> QED BY <2>1, <2>2 DEF ReservedOK
<1> QED BY <1>3, <1>5, <1>6

\* A live row whose name differs keeps it; a new row has a reserved one.
LEMMA NameStaysFree ==
  ASSUME NEW x, Lands(x), NEW s, s \notin DOMAIN x.res, NEW c \in CodeId,
         ~ShortClash(codes[c], s)
  PROVE  ~ShortClash(codes'[c], s)
<1>1. CASE c \notin DOMAIN x.codes
  BY <1>1 DEF Lands
<1>2. CASE c \in DOMAIN x.codes
  <2>1. codes'[c] = x.codes[c] /\ WriteOK(x, c)
    BY <1>2 DEF Lands
  <2>2. x.codes[c].short # s
    <3>1. CASE x.codes[c].short \in DOMAIN x.res
      BY <3>1
    <3>2. CASE IsLive(codes[c]) /\ x.codes[c].short = codes[c].short
      BY <3>2, Zenon DEF ShortClash
    <3> QED BY <2>1, <3>1, <3>2, Zenon DEF WriteOK
  <2> QED BY <2>1, <2>2, Zenon DEF ShortClash
<1> QED BY <1>1, <1>2

\* A transaction in progress outlives the commit of another.
LEMMA OthersSurvive ==
  ASSUME NEW x, Lands(x), NEW z \in TxRecord, TxOK(z), Apart(x, z)
  PROVE  TxOK(z)'
<1>1. StepOK(z)'
  BY DEF TxOK, StepOK
<1>2. CreateOK(z)'
  BY BatchSurvives DEF CreateOK
<1>3. UpdateOK(z)'
  <2> SUFFICES ASSUME z.call.op \in {"update", "state", "delete"} PROVE UpdateOK(z)'
    BY DEF UpdateOK
  <2>1. UpdateOK(z)
    BY DEF TxOK
  <2>2. DOMAIN z.codes # {} => codes'[z.call.id] = codes[z.call.id]
    <3>1. z.call.id \in CodeId /\ (DOMAIN z.codes # {} => DOMAIN z.codes = {z.call.id})
      BY <2>1 DEF UpdateOK
    <3>2. DOMAIN x.codes \cap DOMAIN z.codes = {}
      BY DEF Apart
    <3> QED BY <3>1, <3>2 DEF Lands
  <2> QED BY <2>1, <2>2 DEF UpdateOK
<1>4. ReleaseOK(z)'
  <2> SUFFICES ASSUME z.call.op = "release" PROVE ReleaseOK(z)'
    BY DEF ReleaseOK
  <2>1. ReleaseOK(z)
    BY DEF TxOK
  <2>2. PICK s : s = z.call.short
    OBVIOUS
  <2>3. CASE z.at = "lock"
    <3>1. s \in ShortCode /\ z.call.insert = <<>> /\ DOMAIN z.codes = {} /\ z.locked = {} /\ DOMAIN z.res = {}
      BY <2>1, <2>2, <2>3 DEF ReleaseOK
    <3> QED BY <2>2, <2>3, <3>1 DEF ReleaseOK
  <2>4. CASE z.at # "lock"
    <3>1. s \in ShortCode /\ z.locked = {s} /\ Unreleased(reservations[s])
      BY <2>1, <2>2, <2>4, Zenon DEF ReleaseOK
    <3>2. s \notin DOMAIN x.res
      BY <3>1 DEF Apart
    <3>3. reservations'[s] = reservations[s]
      BY <3>1, <3>2 DEF Lands
    <3>4. z.at \in {"mark", "commit"} => \A c \in CodeId : ~ShortClash(codes'[c], s)
      <4> SUFFICES ASSUME z.at \in {"mark", "commit"}, NEW c \in CodeId
                   PROVE  ~ShortClash(codes'[c], s)
        OBVIOUS
      <4>1. ~ShortClash(codes[c], s)
        BY <2>1, <2>2, Zenon DEF ReleaseOK
      <4> QED BY <3>2, <4>1, NameStaysFree
    <3>5. /\ z.call.insert = <<>> /\ DOMAIN z.codes = {}
          /\ DOMAIN z.res # {} => /\ z.at = "commit" /\ DOMAIN z.res = {s}
                                  /\ z.res[s] = [code |-> reservations[s].code, released |-> TRUE]
      BY <2>1, <2>2, Zenon DEF ReleaseOK
    <3> QED BY <2>2, <2>4, <3>1, <3>3, <3>4, <3>5 DEF ReleaseOK
  <2> QED BY <2>3, <2>4
<1> QED BY <1>1, <1>2, <1>3, <1>4 DEF TxOK

\* COMMIT makes the writes of one transaction the tables' rows.
LEMMA ApplyLands ==
  ASSUME PgInv, NEW p \in Client, tx[p].at = "commit", Apply(p)
  PROVE  Lands(tx[p]) /\ Store!TypeOK'
<1>0. PICK x : x = tx[p]
  OBVIOUS
<1>1. x \in TxRecord /\ TxOK(x) /\ x.at = "commit" /\ Store!TypeOK
  BY <1>0, TxFacts DEF PgInv, PgTypeOK
<1>2. /\ codes' = [c \in CodeId |-> IF c \in DOMAIN x.codes THEN x.codes[c] ELSE codes[c]]
      /\ reservations' = [s \in ShortCode |-> IF s \in DOMAIN x.res THEN x.res[s] ELSE reservations[s]]
  BY <1>0, Zenon DEF Apply, CodeSeen, ResSeen
<1>3. \A c \in DOMAIN x.codes : WriteOK(x, c)
  BY <1>1, CommitWrites
<1>4. Lands(x)
  BY <1>2, <1>3 DEF Lands
<1>5. codes' \in [CodeId -> Store!Row \cup {NoRow}]
  <2>1. \A c \in DOMAIN x.codes : x.codes[c] \in Store!Row
    BY <1>3, Zenon DEF WriteOK
  <2> QED BY <1>1, <1>2, <2>1 DEF Store!TypeOK
<1>6. reservations' \in [ShortCode -> Store!Reservation]
  <2>1. \A s \in DOMAIN x.res : x.res[s] \in Store!Reservation
    BY <1>1 DEF TxRecord, ResWrites
  <2> QED BY <1>1, <1>2, <2>1 DEF Store!TypeOK
<1> QED BY <1>0, <1>4, <1>5, <1>6 DEF Store!TypeOK

\* A commit, whatever its client is told.
LEMMA CommitKeeps ==
  ASSUME PgInv, NEW p \in Client, tx[p].at = "commit", Apply(p), NEW a \in Answers,
         Answer(p, a), UNCHANGED calls
  PROVE  PgInv'
<1>0. PICK x, y : x = tx[p] /\ y = Ended(a)
  OBVIOUS
<1>1. tx' = [tx EXCEPT ![p] = y] /\ Running(p)
  BY <1>0 DEF Answer, Ended, Running
<1>2. y \in TxRecord /\ y.at = "done" /\ TxOK(y) /\ \A z : Apart(y, z)
  BY <1>0, EndedOK
<1>3. Lands(x) /\ Store!TypeOK'
  BY <1>0, ApplyLands
<1>4. /\ tx \in [Client -> TxRecord] /\ tx' \in [Client -> TxRecord]
      /\ tx'[p] = y /\ \A q \in Client : q # p => tx'[q] = tx[q]
  BY <1>1, <1>2 DEF PgInv, PgTypeOK
<1>5. ASSUME NEW q \in Client PROVE TxOK(tx[q])'
  <2>1. CASE q = p
    <3>1. TxOK(y)'
      BY <1>0 DEF Ended, Transaction, NoCall, Call, TxOK, StepOK, CreateOK, UpdateOK, ReleaseOK
    <3> QED BY <1>4, <2>1, <3>1
  <2>2. CASE q # p
    <3>1. PICK z : z = tx[q]
      OBVIOUS
    <3>2. z \in TxRecord /\ TxOK(z) /\ Apart(x, z) /\ tx'[q] = z
      BY <1>0, <1>4, <2>2, <3>1, TxFacts DEF PgInv
    <3>3. TxOK(z)'
      BY <1>3, <3>2, OthersSurvive
    <3> QED BY <3>2, <3>3
  <2> QED BY <2>1, <2>2
<1>6. ASSUME NEW q \in Client, NEW r \in Client, q # r PROVE Apart(tx[q], tx[r])'
  <2>1. CASE q = p
    <3>1. Apart(tx'[q], tx'[r])
      BY <1>2, <1>4, <2>1
    <3> QED BY <3>1 DEF Apart, Inserted, Store!SameRef
  <2>2. CASE r = p
    <3>1. Apart(tx'[q], tx'[r])
      BY <1>2, <1>4, <2>2, ApartSymmetric
    <3> QED BY <3>1 DEF Apart, Inserted, Store!SameRef
  <2>3. CASE q # p /\ r # p
    <3>1. Apart(tx'[q], tx'[r])
      BY <1>4, <1>6, <2>3 DEF PgInv
    <3> QED BY <3>1 DEF Apart, Inserted, Store!SameRef
  <2> QED BY <2>1, <2>2, <2>3
<1>7. CallsCounted'
  <2>1. PICK b, b1 : b = Cardinality(Busy) /\ b1 = Cardinality(Busy')
    OBVIOUS
  <2>2. IsFiniteSet(Busy') /\ b \in Nat /\ b1 \in Nat /\ b = b1 + 1
    BY <1>1, <1>2, <2>1, CountEnds
  <2>3. calls \in 0..MaxCalls /\ b <= calls /\ calls' = calls /\ calls \in Nat
    BY <2>1, PgAssumption DEF PgInv, CallsCounted
  <2>4. ASSUME NEW c \in CodeId, codes'[c] # NoRow PROVE codes'[c].version + b1 <= calls
    <3>0. ASSUME codes[c] \in Store!Row PROVE codes[c].version + b <= calls /\ codes[c].version \in Nat
      <4>1. codes[c] # NoRow /\ codes[c].version \in Nat
        BY <3>0, PgAssumption DEF Store!Row
      <4> QED BY <2>1, <4>1 DEF PgInv, CallsCounted
    <3>1. CASE c \notin DOMAIN x.codes
      <4>1. codes'[c] = codes[c]
        BY <1>3, <3>1 DEF Lands
      <4>2. codes[c] \in Store!Row
        BY <2>4, <4>1 DEF PgInv, PgTypeOK, Store!TypeOK
      <4> QED BY <2>2, <2>3, <3>0, <4>1, <4>2
    <3>2. CASE c \in DOMAIN x.codes
      <4>1. codes'[c] = x.codes[c] /\ WriteOK(x, c)
        BY <1>3, <3>2 DEF Lands
      <4>2. CASE x.codes[c].version = 1
        BY <2>2, <2>3, <4>1, <4>2
      <4>3. CASE codes[c] \in Store!Row /\ x.codes[c].version = codes[c].version + 1
        BY <2>2, <2>3, <3>0, <4>1, <4>3
      <4> QED BY <4>1, <4>2, <4>3, Zenon DEF WriteOK
    <3> QED BY <3>1, <3>2
  <2>5. calls' \in 0..MaxCalls /\ b1 <= calls'
    BY <2>2, <2>3
  <2> QED BY <2>1, <2>2, <2>3, <2>4, <2>5, Zenon DEF CallsCounted
<1> QED BY <1>3, <1>4, <1>5, <1>6, <1>7 DEF PgInv, PgTypeOK

-----------------------------------------------------------------------------
(* The invariant.                                                          *)

\* No row, and every client idle.
LEMMA PgInvInit == PgInit => PgInv
<1> SUFFICES ASSUME PgInit PROVE PgInv
  OBVIOUS
<1>0. PICK y : y = Transaction(NoCall, "idle")
  OBVIOUS
<1>1. /\ codes = [c \in CodeId |-> NoRow]
      /\ reservations = [s \in ShortCode |-> [code |-> NoRow, released |-> FALSE]]
      /\ tx = [p \in Client |-> y] /\ calls = 0
  BY <1>0, Zenon DEF PgInit, Store!StoreInit
<1>2. Store!TypeOK
  BY <1>1 DEF Store!TypeOK, Store!Reservation
<1>3. PICK e, w : e = <<>> /\ w = Ended("ok")
  OBVIOUS
<1>4. w \in TxRecord /\ \A x : Apart(w, x)
  <2>1. "ok" \in Answers
    BY DEF Answers
  <2> QED BY <1>3, <2>1, EndedOK
<1>5. PICK k : k = NoCall
  OBVIOUS
<1>6. y = [call |-> k, at |-> "idle", n |-> 1, codes |-> e, res |-> e, locked |-> {},
           answer |-> "none"]
  BY <1>0, <1>3, <1>5, Zenon DEF Transaction
<1>7. w = [[call |-> k, at |-> "done", n |-> 1, codes |-> e, res |-> e, locked |-> {},
            answer |-> "none"] EXCEPT !.answer = "ok"]
  BY <1>3, <1>5, Zenon DEF Ended, Transaction
<1>8. "idle" \in Steps /\ "none" \in Answers
  BY DEF Steps, Answers
<1>9. /\ y \in TxRecord /\ y.call = w.call /\ y.codes = w.codes /\ y.res = w.res
      /\ y.locked = w.locked
  BY <1>4, <1>6, <1>7, <1>8 DEF TxRecord
<1>10. TxOK(y)
  <2>1. k.op = "none"
    BY <1>5 DEF NoCall, Call
  <2>2. DOMAIN e = {}
    BY <1>3
  <2> QED BY <1>5, <1>6, <2>1, <2>2 DEF TxOK, StepOK, CreateOK, UpdateOK, ReleaseOK
<1>11. Apart(y, y)
  <2>1. Apart(w, y)
    BY <1>4
  <2> QED BY <1>9, <2>1, MovesApart
<1>12. CallsCounted
  <2>1. Busy = {}
    BY <1>1, <1>6 DEF Busy, Running
  <2>2. IsFiniteSet(Busy) /\ Cardinality(Busy) = 0
    BY <2>1, FS_EmptySet
  <2> QED BY <1>1, <2>2, PgAssumption DEF CallsCounted
<1> QED BY <1>1, <1>2, <1>9, <1>10, <1>11, <1>12 DEF PgInv, PgTypeOK

\* Every step of a client keeps it.
LEMMA PgInvStep ==
  ASSUME PgInv, NEW p \in Client,
         \/ BeginCreate(p) \/ BeginUpdate(p) \/ BeginRelease(p)
         \/ InsertRow(p) \/ UpsertReservation(p)
         \/ UpdateRow(p) \/ OwnedExists(p)
         \/ LockReservation(p) \/ CountLive(p) \/ MarkReleased(p)
         \/ Commit(p) \/ CommitLost(p) \/ Fail(p) \/ DeadlockDetected(p)
  PROVE  PgInv'
<1>0. "ok" \in Answers /\ "error" \in Answers
  BY DEF Answers
<1>1. CASE Commit(p)
  BY <1>0, <1>1, CommitKeeps DEF Commit
<1>2. CASE CommitLost(p)
  BY <1>0, <1>2, CommitKeeps DEF CommitLost
<1>3. CASE Fail(p)
  BY <1>0, <1>3, RollbackKeeps DEF Fail
<1>4. CASE DeadlockDetected(p)
  <2>1. Running(p) /\ Refuse(p, "error")
    BY <1>4, Zenon DEF DeadlockDetected
  <2> QED BY <1>0, <2>1, RefusalKeeps
<1> QED BY <1>1, <1>2, <1>3, <1>4, BeginCreateKeeps, BeginUpdateKeeps, BeginReleaseKeeps,
       InsertKeeps, UpsertKeeps, UpdateKeeps, ExistsKeeps, LockKeeps, CountKeeps, MarkKeeps

\* The invariant is inductive.
LEMMA PgInvariant == PgSpec => []PgInv
<1>1. PgInv /\ [PgNext]_pgVars => PgInv'
  <2> SUFFICES ASSUME PgInv, [PgNext]_pgVars PROVE PgInv'
    OBVIOUS
  <2>1. CASE PgNext
    BY <2>1, PgInvStep, Zenon DEF PgNext
  <2>2. CASE UNCHANGED pgVars
    <3>1. codes' = codes /\ reservations' = reservations /\ tx' = tx /\ calls' = calls
      BY <2>2 DEF pgVars
    <3>2. PgTypeOK' /\ CallsCounted'
      BY <3>1 DEF PgInv, PgTypeOK, CallsCounted, Store!TypeOK, Busy, Running
    <3>3. ASSUME NEW q \in Client PROVE TxOK(tx[q])'
      <4>1. PICK z : z = tx[q]
        OBVIOUS
      <4>2. TxOK(z)'
        BY <3>1, <4>1, TxOKUnchanged DEF PgInv
      <4> QED BY <3>1, <4>1, <4>2
    <3>4. ASSUME NEW q \in Client, NEW r \in Client, q # r PROVE Apart(tx[q], tx[r])'
      <4>1. Apart(tx'[q], tx'[r])
        BY <3>1, <3>4, Zenon DEF PgInv
      <4> QED BY <4>1 DEF Apart, Inserted, Store!SameRef
    <3> QED BY <3>2, <3>3, <3>4 DEF PgInv
  <2> QED BY <2>1, <2>2
<1> QED BY <1>1, PgInvInit, PTL DEF PgSpec

-----------------------------------------------------------------------------
(* Each transaction is one of CodeStore's.                                 *)

\* The row that a batch has for an id.
LEMMA RowsOfIt ==
  ASSUME NEW x \in TxRecord, BatchOK(x), NEW rows, rows = RowsOf(x.call)
  PROVE  /\ DOMAIN rows = Inserted(x.call)
         /\ \A i \in DOMAIN x.call.insert :
              x.call.insert[i].id \in DOMAIN rows /\ rows[x.call.insert[i].id] = x.call.insert[i].row
         /\ \A c \in DOMAIN rows : \E i \in DOMAIN x.call.insert :
              c = x.call.insert[i].id /\ rows[c] = x.call.insert[i].row
<1>0. PICK ins : ins = x.call.insert
  OBVIOUS
<1>1. Inserted(x.call) = {ins[i].id : i \in DOMAIN ins}
  BY <1>0, Zenon DEF Inserted
<1>2. rows = [c \in Inserted(x.call) |-> ins[CHOOSE i \in DOMAIN ins : ins[i].id = c].row]
  BY <1>0 DEF RowsOf
<1>3. \A i, j \in DOMAIN ins : ins[i].id = ins[j].id => i = j
  BY <1>0, Zenon DEF BatchOK
<1>4. ASSUME NEW i \in DOMAIN ins PROVE ins[i].id \in DOMAIN rows /\ rows[ins[i].id] = ins[i].row
  <2>1. ins[i].id \in Inserted(x.call)
    BY <1>1
  <2>2. PICK c : c = ins[i].id
    OBVIOUS
  <2>3. (CHOOSE j \in DOMAIN ins : ins[j].id = c) = i
    <3>1. PICK j : j = CHOOSE m \in DOMAIN ins : ins[m].id = c
      OBVIOUS
    <3>2. j \in DOMAIN ins /\ ins[j].id = c
      BY <2>2, <3>1, Zenon
    <3>3. j = i
      BY <1>3, <2>2, <3>2
    <3> QED BY <3>1, <3>3
  <2>4. rows[c] = ins[CHOOSE j \in DOMAIN ins : ins[j].id = c].row
    BY <1>2, <2>1, <2>2
  <2> QED BY <1>2, <2>1, <2>2, <2>3, <2>4
<1>5. DOMAIN rows = Inserted(x.call)
  BY <1>2
<1>6. ASSUME NEW c \in DOMAIN rows
      PROVE  \E i \in DOMAIN ins : c = ins[i].id /\ rows[c] = ins[i].row
  <2>1. PICK i \in DOMAIN ins : c = ins[i].id
    BY <1>1, <1>5
  <2> QED BY <1>4, <2>1
<1> QED BY <1>0, <1>4, <1>5, <1>6

\* Nothing stands in the way of a batch that commits.
LEMMA NoInsertErrors ==
  ASSUME NEW x \in TxRecord, TxOK(x), x.call.op = "create", x.at = "commit",
         NEW rows, rows = RowsOf(x.call)
  PROVE  Store!InsertErrors(rows) = {} /\ DOMAIN rows \cap Store!Stored = {}
<1>0. PICK ins : ins = x.call.insert
  OBVIOUS
<1>1. BatchOK(x) /\ RowsOK(x) /\ ReservedOK(x)
  BY Zenon DEF TxOK, CreateOK
<1>2. RowsIn(x) = DOMAIN ins /\ ResIn(x) = DOMAIN ins
  BY <1>0, CompleteBatch
<1>3. /\ \A c \in DOMAIN rows : \E i \in DOMAIN ins : c = ins[i].id /\ rows[c] = ins[i].row
  BY <1>0, <1>1, RowsOfIt
<1>4. ASSUME NEW i \in DOMAIN ins
      PROVE  /\ Store!ShortFree(ins[i].row.short)
             /\ Store!RefFree(ins[i].row.user, ins[i].row.ref)
             /\ codes[ins[i].id] = NoRow
  <2>1. PICK r : r = ins[i].row
    OBVIOUS
  <2>2. Short(x, i) = r.short
    BY <1>0, <2>1 DEF Short
  <2>3. \A c \in CodeId : ~ShortClash(codes[c], r.short) /\ ~RefClash(codes[c], r)
    BY <1>0, <1>1, <1>2, <2>1, <2>2, Zenon DEF RowsOK
  <2>4. Rearmable(reservations[r.short])
    BY <1>0, <1>1, <1>2, <2>2, Zenon DEF ReservedOK
  <2>5. Store!ShortFree(r.short)
    BY <2>3, <2>4, Zenon
       DEF Store!ShortFree, Store!Live, Store!Stored, Store!Reserved, Rearmable, ShortClash, IsLive
  <2>6. Store!RefFree(r.user, r.ref)
    <3>1. CASE r.ref = NoRef
      BY <3>1, Zenon DEF Store!RefFree
    <3>2. CASE r.ref # NoRef
      <4>1. Store!GetCodeByClientRef(r.user, r.ref) = {}
        BY <2>3, <3>2 DEF Store!GetCodeByClientRef, Store!Stored, RefClash
      <4> QED BY <4>1, Zenon DEF Store!RefFree
    <3> QED BY <3>1, <3>2
  <2>7. codes[ins[i].id] = NoRow
    BY <1>0, <1>1, Zenon DEF BatchOK
  <2> QED BY <2>1, <2>5, <2>6, <2>7
<1>5. ASSUME NEW c \in DOMAIN rows
      PROVE  Store!ShortFree(rows[c].short) /\ Store!RefFree(rows[c].user, rows[c].ref) /\ codes[c] = NoRow
  <2>1. PICK i \in DOMAIN ins : c = ins[i].id /\ rows[c] = ins[i].row
    BY <1>3
  <2> QED BY <1>4, <2>1
<1>6. ASSUME NEW c \in DOMAIN rows, NEW d \in DOMAIN rows, c # d
      PROVE  rows[c].short # rows[d].short /\ ~Store!SameRef(rows[c], rows[d])
  <2>1. PICK i \in DOMAIN ins : c = ins[i].id /\ rows[c] = ins[i].row
    BY <1>3
  <2>2. PICK j \in DOMAIN ins : d = ins[j].id /\ rows[d] = ins[j].row
    BY <1>3
  <2>3. i # j
    BY <1>6, <2>1, <2>2
  <2>4. Short(x, i) # Short(x, j) /\ ~Store!SameRef(ins[i].row, ins[j].row)
    BY <1>0, <1>1, <1>2, <2>3, Zenon DEF RowsOK
  <2> QED BY <1>0, <2>1, <2>2, <2>4, Zenon DEF Short
<1>7. "alias_taken" \notin Store!InsertErrors(rows)
  BY <1>5, <1>6 DEF Store!InsertErrors
<1>8. "client_ref_taken" \notin Store!InsertErrors(rows)
  BY <1>5, <1>6 DEF Store!InsertErrors
<1>9. Store!InsertErrors(rows) = {}
  BY <1>7, <1>8 DEF Store!InsertErrors
<1>10. DOMAIN rows \cap Store!Stored = {}
  BY <1>5 DEF Store!Stored
<1> QED BY <1>9, <1>10

\* What COMMIT applies, as functions.
Applied(x) ==
  /\ codes' = [c \in CodeId |-> IF c \in DOMAIN x.codes THEN x.codes[c] ELSE codes[c]]
  /\ reservations' = [s \in ShortCode |-> IF s \in DOMAIN x.res THEN x.res[s] ELSE reservations[s]]

\* The commit of a batch is CreateCodes.
LEMMA CreateCommits ==
  ASSUME NEW x \in TxRecord, TxOK(x), x.call.op = "create", x.at = "commit", Applied(x)
  PROVE  Store!CreateCodes(RowsOf(x.call))
<1>0. PICK ins, rows : ins = x.call.insert /\ rows = RowsOf(x.call)
  OBVIOUS
<1>1. BatchOK(x) /\ RowsOK(x) /\ ReservedOK(x)
  BY Zenon DEF TxOK, CreateOK
<1>2. RowsIn(x) = DOMAIN ins /\ ResIn(x) = DOMAIN ins
  BY <1>0, CompleteBatch
<1>3. /\ DOMAIN rows = Inserted(x.call)
      /\ \A i \in DOMAIN ins : ins[i].id \in DOMAIN rows /\ rows[ins[i].id] = ins[i].row
      /\ \A c \in DOMAIN rows : \E i \in DOMAIN ins : c = ins[i].id /\ rows[c] = ins[i].row
  BY <1>0, <1>1, RowsOfIt
<1>4. Store!InsertErrors(rows) = {} /\ DOMAIN rows \cap Store!Stored = {}
  BY <1>0, NoInsertErrors
<1>5. /\ DOMAIN x.codes = {ins[i].id : i \in DOMAIN ins}
      /\ \A i \in DOMAIN ins : x.codes[ins[i].id] = Store!StoredRow(ins[i].row)
      /\ \A i, j \in DOMAIN ins : i # j => Short(x, i) # Short(x, j)
  <2>1. DOMAIN x.codes = {x.call.insert[i].id : i \in RowsIn(x)}
    BY <1>1, Zenon DEF RowsOK
  <2>2. DOMAIN x.codes = {ins[i].id : i \in DOMAIN ins}
    BY <1>0, <1>2, <2>1
  <2> QED BY <1>0, <1>1, <1>2, <2>2, Zenon DEF RowsOK
<1>6. /\ DOMAIN x.res = {Short(x, i) : i \in DOMAIN ins}
      /\ \A i \in DOMAIN ins : x.res[Short(x, i)] = [code |-> ins[i].id, released |-> FALSE]
  BY <1>0, <1>1, <1>2, Zenon DEF ReservedOK
<1>7. \A i \in DOMAIN ins : Short(x, i) = ins[i].row.short
  BY <1>0, Zenon DEF Short
<1>8. DOMAIN x.codes = DOMAIN rows
  BY <1>0, <1>3, <1>5 DEF Inserted
<1>9. codes' = [c \in CodeId |-> IF c \in DOMAIN rows THEN Store!StoredRow(rows[c]) ELSE codes[c]]
  <2>1. ASSUME NEW c \in DOMAIN rows PROVE x.codes[c] = Store!StoredRow(rows[c])
    <3>1. PICK i \in DOMAIN ins : c = ins[i].id /\ rows[c] = ins[i].row
      BY <1>3
    <3> QED BY <1>5, <3>1, Zenon
  <2> QED BY <1>8, <2>1 DEF Applied
<1>10. ASSUME NEW s
       PROVE  (IF s \in DOMAIN x.res THEN x.res[s] ELSE reservations[s])
              = IF \E c \in DOMAIN rows : rows[c].short = s
                THEN [code |-> CHOOSE c \in DOMAIN rows : rows[c].short = s, released |-> FALSE]
                ELSE reservations[s]
  <2>1. CASE s \in DOMAIN x.res
    <3>1. PICK i \in DOMAIN ins : s = Short(x, i)
      BY <1>6, <2>1, Zenon
    <3>2. PICK d : d = ins[i].id
      OBVIOUS
    <3>3. d \in DOMAIN rows /\ rows[d].short = s
      BY <1>3, <1>7, <3>1, <3>2
    <3>4. ASSUME NEW c \in DOMAIN rows, rows[c].short = s PROVE c = d
      <4>1. PICK j \in DOMAIN ins : c = ins[j].id /\ rows[c] = ins[j].row
        BY <1>3
      <4>2. Short(x, j) = Short(x, i)
        BY <1>7, <3>1, <3>4, <4>1
      <4>3. j = i
        BY <1>5, <4>2, Zenon
      <4> QED BY <3>2, <4>1, <4>3
    <3>5. (CHOOSE c \in DOMAIN rows : rows[c].short = s) = d
      <4>1. PICK c : c = CHOOSE e \in DOMAIN rows : rows[e].short = s
        OBVIOUS
      <4>2. c \in DOMAIN rows /\ rows[c].short = s
        BY <3>3, <4>1, Zenon
      <4> QED BY <3>4, <4>1, <4>2
    <3>6. x.res[s] = [code |-> d, released |-> FALSE]
      BY <1>6, <3>1, <3>2, Zenon
    <3> QED BY <2>1, <3>3, <3>5, <3>6, Zenon
  <2>2. CASE s \notin DOMAIN x.res
    <3>1. ASSUME NEW c \in DOMAIN rows, rows[c].short = s PROVE FALSE
      <4>1. PICK i \in DOMAIN ins : c = ins[i].id /\ rows[c] = ins[i].row
        BY <1>3
      <4>2. s = Short(x, i)
        BY <1>7, <3>1, <4>1
      <4> QED BY <1>6, <2>2, <4>2, Zenon
    <3> QED BY <2>2, <3>1, Zenon
  <2> QED BY <2>1, <2>2
<1>11. reservations' =
         [s \in ShortCode |->
            IF \E c \in DOMAIN rows : rows[c].short = s
            THEN [code |-> CHOOSE c \in DOMAIN rows : rows[c].short = s, released |-> FALSE]
            ELSE reservations[s]]
  BY <1>10, Zenon DEF Applied
<1> QED BY <1>0, <1>4, <1>9, <1>11, Zenon DEF Store!CreateCodes

\* The commit of an UPDATE that matched its row is the store's transaction.
LEMMA UpdateCommits ==
  ASSUME PgInv, NEW p \in Client, NEW x, x = tx[p], NEW k, k = x.call,
         x.at = "commit", Applied(x), k.op \in {"update", "state", "delete"}, DOMAIN x.codes # {}
  PROVE  CASE k.op = "update" -> Store!UpdateDestination(k.id, k.user, k.dest, k.version)
           [] k.op = "state"  -> Store!SetCodeState(k.id, k.user, "disabled")
           [] k.op = "delete" -> Store!DeleteCode(k.id, k.user)
<1>1. x \in TxRecord /\ TxOK(x)
  BY TxFacts
<1>2. /\ k.id \in CodeId /\ DOMAIN x.res = {} /\ DOMAIN x.codes = {k.id}
      /\ Where(k, codes[k.id]) /\ x.codes[k.id] = SetTo(k, codes[k.id])
  BY <1>1, Zenon DEF TxOK, UpdateOK
<1>3. PICK c, r : c = k.id /\ r = codes[c]
  OBVIOUS
<1>4. /\ c \in CodeId /\ r # NoRow /\ r.user = k.user /\ r.state # "deleted"
      /\ (k.op = "update" => r.version = k.version)
  BY <1>2, <1>3 DEF Where, UpdateWhere, StateWhere
<1>5. codes \in [CodeId -> Store!Row \cup {NoRow}] /\ reservations \in [ShortCode -> Store!Reservation]
  BY DEF PgInv, PgTypeOK, Store!TypeOK
<1>6. r \in Store!Row /\ r.version \in Nat
  BY <1>3, <1>4, <1>5 DEF Store!Row
<1>7. Store!Owned(c, k.user) /\ c \in Store!Live
  BY <1>3, <1>4 DEF Store!Owned, Store!Live, Store!Stored
<1>8. r.version < MaxVersion
  <2>1. r.version + Cardinality(Busy) <= calls /\ calls \in 0..MaxCalls /\ IsFiniteSet(Busy)
    BY <1>3, <1>4 DEF PgInv, CallsCounted
  <2>2. Cardinality(Busy) \in Nat
    BY <2>1, FS_CardinalityType
  <2> QED BY <1>6, <2>1, <2>2, PgAssumption
<1>9. reservations' = reservations
  BY <1>2, <1>5 DEF Applied
<1>10. PICK w : w = SetTo(k, r)
  OBVIOUS
<1>11. codes' = [codes EXCEPT ![c] = w]
  <2>1. DOMAIN x.codes = {c} /\ x.codes[c] = w
    BY <1>2, <1>3, <1>10
  <2>2. codes' = [d \in CodeId |-> IF d \in DOMAIN x.codes THEN x.codes[d] ELSE codes[d]]
    BY Zenon DEF Applied
  <2> QED BY <1>4, <1>5, <2>1, <2>2
<1>12. CASE k.op = "update"
  <2>1. w = Store!Amended(r, k.dest, r.state)
    BY <1>10, <1>12 DEF SetTo
  <2>2. codes[c].version = k.version /\ k.version < MaxVersion
    BY <1>3, <1>4, <1>8, <1>12
  <2>3. Store!UpdateResult(c, k.user, k.version) = "ok"
    BY <1>7, <2>2 DEF Store!UpdateResult
  <2>4. Store!UpdateDestination(c, k.user, k.dest, k.version)
    BY <1>3, <1>9, <1>11, <2>1, <2>2, <2>3, Zenon DEF Store!UpdateDestination
  <2> QED BY <1>3, <1>12, <2>4
<1>13. CASE k.op = "state"
  <2>1. w = Store!Amended(r, r.dest, "disabled")
    BY <1>10, <1>13 DEF SetTo
  <2>2. Store!SetStateResult(c, k.user) = "ok"
    BY <1>7 DEF Store!SetStateResult
  <2>3. "disabled" \in {"active", "disabled"} /\ codes[c].version < MaxVersion
    BY <1>3, <1>8
  <2>4. Store!SetCodeState(c, k.user, "disabled")
    BY <1>3, <1>9, <1>11, <2>1, <2>2, <2>3, Zenon DEF Store!SetCodeState
  <2> QED BY <1>3, <1>13, <2>4
<1>14. CASE k.op = "delete"
  <2>1. w = Store!Amended(r, r.dest, "deleted")
    BY <1>10, <1>14 DEF SetTo
  <2>2. Store!DeleteCode(c, k.user)
    BY <1>3, <1>7, <1>9, <1>11, <2>1, Zenon DEF Store!DeleteCode
  <2> QED BY <1>3, <1>14, <2>2
<1> QED BY <1>12, <1>13, <1>14

\* A reservation marked released is still its code's.
LEMMA MarkedIs ==
  ASSUME NEW r \in Store!Reservation
  PROVE  [r EXCEPT !.released = TRUE] = [code |-> r.code, released |-> TRUE]
<1>1. PICK v : v = [r EXCEPT !.released = TRUE]
  OBVIOUS
<1>2. v \in Store!Reservation /\ v.code = r.code /\ v.released = TRUE
  BY <1>1 DEF Store!Reservation
<1>3. v = [code |-> r.code, released |-> TRUE]
  BY <1>2 DEF Store!Reservation
<1> QED BY <1>1, <1>3, Zenon

\* The commit of a release that marked its reservation is ReleaseAlias.
LEMMA ReleaseCommits ==
  ASSUME PgInv, NEW p \in Client, NEW x, x = tx[p], NEW k, k = x.call,
         x.at = "commit", Applied(x), k.op = "release", DOMAIN x.res # {}
  PROVE  Store!ReleaseAlias(k.short)
<1>1. x \in TxRecord /\ TxOK(x)
  BY TxFacts
<1>2. PICK s, r : s = k.short /\ r = reservations[s]
  OBVIOUS
<1>3. /\ s \in ShortCode /\ DOMAIN x.codes = {} /\ Unreleased(r) /\ DOMAIN x.res = {s}
      /\ \A c \in CodeId : ~ShortClash(codes[c], s)
      /\ x.res[s] = [code |-> r.code, released |-> TRUE]
  BY <1>1, <1>2 DEF TxOK, ReleaseOK
<1>4. codes \in [CodeId -> Store!Row \cup {NoRow}] /\ reservations \in [ShortCode -> Store!Reservation]
  BY DEF PgInv, PgTypeOK, Store!TypeOK
<1>5. Store!ReleaseResult(s) = "ok"
  <2>1. Store!Reserved(s)
    BY <1>2, <1>3 DEF Store!Reserved, Unreleased
  <2>2. ~\E c \in Store!Live : codes[c].short = s
    BY <1>3 DEF Store!Live, Store!Stored, ShortClash, IsLive
  <2> QED BY <2>1, <2>2 DEF Store!ReleaseResult
<1>6. codes' = codes
  BY <1>3, <1>4 DEF Applied
<1>7. [r EXCEPT !.released = TRUE] = x.res[s]
  <2>1. r \in Store!Reservation
    BY <1>2, <1>3, <1>4
  <2>2. [r EXCEPT !.released = TRUE] = [code |-> r.code, released |-> TRUE]
    BY <2>1, MarkedIs
  <2> QED BY <1>3, <2>2, Zenon
<1>8. reservations' = [reservations EXCEPT ![s].released = TRUE]
  <2>1. PICK v : v = x.res[s]
    OBVIOUS
  <2>2. reservations' = [t \in ShortCode |-> IF t \in DOMAIN x.res THEN x.res[t] ELSE reservations[t]]
    BY Zenon DEF Applied
  <2>3. reservations' = [reservations EXCEPT ![s] = v]
    BY <1>3, <1>4, <2>1, <2>2
  <2>4. [reservations EXCEPT ![s].released = TRUE] = [reservations EXCEPT ![s] = [r EXCEPT !.released = TRUE]]
    BY <1>2, Zenon
  <2> QED BY <1>7, <2>1, <2>3, <2>4, Zenon
<1> QED BY <1>2, <1>5, <1>6, <1>8, Zenon DEF Store!ReleaseAlias

\* COMMIT is a step of CodeStore, or writes nothing.
LEMMA CommitImplements ==
  ASSUME PgInv, NEW p \in Client, tx[p].at = "commit", Apply(p), tx'[p].at = "done"
  PROVE  StoreStep(p) \/ UNCHANGED <<codes, reservations>>
<1>0. PICK x, k : x = tx[p] /\ k = x.call
  OBVIOUS
<1>1. x \in TxRecord /\ TxOK(x) /\ x.at = "commit"
  BY <1>0, TxFacts
<1>2. Applied(x)
  BY <1>0, Zenon DEF Apply, CodeSeen, ResSeen, Applied
<1>3. k.op \in Operations
  BY <1>0, <1>1 DEF TxOK, StepOK
<1>4. ASSUME DOMAIN x.codes = {}, DOMAIN x.res = {} PROVE UNCHANGED <<codes, reservations>>
  <2>1. codes \in [CodeId -> Store!Row \cup {NoRow}] /\ reservations \in [ShortCode -> Store!Reservation]
    BY DEF PgInv, PgTypeOK, Store!TypeOK
  <2> QED BY <1>2, <1>4, <2>1 DEF Applied
<1>5. CASE k.op = "create"
  <2>1. Store!CreateCodes(RowsOf(k))
    BY <1>0, <1>1, <1>2, <1>5, CreateCommits
  <2> QED BY <1>0, <1>5, <2>1 DEF StoreStep
<1>6. CASE k.op \in {"update", "state", "delete"}
  <2>1. DOMAIN x.res = {}
    BY <1>0, <1>1, <1>6 DEF TxOK, UpdateOK
  <2>2. CASE DOMAIN x.codes # {}
    <3>1. CASE k.op = "update"
      <4>1. Store!UpdateDestination(k.id, k.user, k.dest, k.version)
        BY <1>0, <1>1, <1>2, <1>6, <2>2, <3>1, UpdateCommits
      <4> QED BY <1>0, <3>1, <4>1 DEF StoreStep
    <3>2. CASE k.op = "state"
      <4>1. Store!SetCodeState(k.id, k.user, "disabled")
        BY <1>0, <1>1, <1>2, <1>6, <2>2, <3>2, UpdateCommits
      <4> QED BY <1>0, <3>2, <4>1 DEF StoreStep
    <3>3. CASE k.op = "delete"
      <4>1. Store!DeleteCode(k.id, k.user)
        BY <1>0, <1>1, <1>2, <1>6, <2>2, <3>3, UpdateCommits
      <4> QED BY <1>0, <3>3, <4>1 DEF StoreStep
    <3> QED BY <1>6, <3>1, <3>2, <3>3
  <2> QED BY <1>4, <2>1, <2>2
<1>7. CASE k.op = "release"
  <2>1. DOMAIN x.codes = {}
    BY <1>0, <1>1, <1>7 DEF TxOK, ReleaseOK
  <2>2. CASE DOMAIN x.res # {}
    <3>1. Store!ReleaseAlias(k.short)
      BY <1>0, <1>1, <1>2, <1>7, <2>2, ReleaseCommits
    <3> QED BY <1>0, <1>7, <3>1 DEF StoreStep
  <2> QED BY <1>4, <2>1, <2>2
<1> QED BY <1>3, <1>5, <1>6, <1>7 DEF Operations

\* Only COMMIT changes the tables.
LEMMA OnlyCommitWrites ==
  ASSUME PgInv, NEW p \in Client,
         \/ BeginCreate(p) \/ BeginUpdate(p) \/ BeginRelease(p)
         \/ InsertRow(p) \/ UpsertReservation(p)
         \/ UpdateRow(p) \/ OwnedExists(p)
         \/ LockReservation(p) \/ CountLive(p) \/ MarkReleased(p)
         \/ Commit(p) \/ CommitLost(p) \/ Fail(p) \/ DeadlockDetected(p)
  PROVE  StoreStep(p) \/ UNCHANGED <<codes, reservations>>
<1>1. ASSUME NEW k, NEW a, Begin(p, k, a) PROVE UNCHANGED <<codes, reservations>>
  BY <1>1, Zenon DEF Begin
<1>2. ASSUME NEW y, Step(p, y) PROVE UNCHANGED <<codes, reservations>>
  BY <1>2 DEF Step
<1>3. ASSUME NEW a, Rollback(p, a) PROVE UNCHANGED <<codes, reservations>>
  BY <1>3 DEF Rollback
<1>4. ASSUME NEW a, Refuse(p, a) PROVE UNCHANGED <<codes, reservations>>
  BY <1>3, <1>4, Zenon DEF Refuse
<1>5. CASE BeginCreate(p)
  BY <1>1, <1>5, Zenon DEF BeginCreate
<1>6. CASE BeginUpdate(p)
  BY <1>1, <1>6, Zenon DEF BeginUpdate
<1>7. CASE BeginRelease(p)
  BY <1>1, <1>7, Zenon DEF BeginRelease
<1>8. CASE InsertRow(p)
  BY <1>2, <1>4, <1>8, Zenon DEF InsertRow
<1>9. CASE UpsertReservation(p)
  BY <1>2, <1>4, <1>9, Zenon DEF UpsertReservation
<1>10. CASE UpdateRow(p)
  BY <1>2, <1>10, Zenon DEF UpdateRow
<1>11. CASE OwnedExists(p)
  BY <1>2, <1>4, <1>11, Zenon DEF OwnedExists
<1>12. CASE LockReservation(p)
  BY <1>2, <1>4, <1>12, Zenon DEF LockReservation
<1>13. CASE CountLive(p)
  BY <1>2, <1>4, <1>13, Zenon DEF CountLive
<1>14. CASE MarkReleased(p)
  BY <1>2, <1>14, Zenon DEF MarkReleased
<1>15. CASE Fail(p)
  BY <1>3, <1>15, Zenon DEF Fail
<1>16. CASE DeadlockDetected(p)
  BY <1>4, <1>16, Zenon DEF DeadlockDetected
<1>17. ASSUME tx[p].at = "commit", Apply(p), NEW a \in Answers, Answer(p, a)
       PROVE  StoreStep(p) \/ UNCHANGED <<codes, reservations>>
  <2>1. PICK y : y = Ended(a)
    OBVIOUS
  <2>2. tx' = [tx EXCEPT ![p] = y]
    BY <1>17, <2>1, Zenon DEF Answer, Ended
  <2>3. y.at = "done"
    BY <2>1, EndedOK
  <2>4. tx'[p].at = "done"
    BY <2>2, <2>3 DEF PgInv, PgTypeOK
  <2> QED BY <1>17, <2>4, CommitImplements
<1>18. "ok" \in Answers /\ "error" \in Answers
  BY DEF Answers
<1>19. CASE Commit(p)
  BY <1>17, <1>18, <1>19, Zenon DEF Commit
<1>20. CASE CommitLost(p)
  BY <1>17, <1>18, <1>20, Zenon DEF CommitLost
<1> QED BY <1>5, <1>6, <1>7, <1>8, <1>9, <1>10, <1>11, <1>12, <1>13, <1>14, <1>15, <1>16,
       <1>19, <1>20

\* Every transaction of the Postgres driver (withTx, insertCode, ReleaseAlias
\* and the guarded UPDATEs of internal/store/postgres) is, whatever the others
\* do between its statements, one transaction of CodeStore: the one its call
\* asks for, or none.
THEOREM PgImplementsTheorem == PgSpec => ImplementsStore
<1>1. PgInv /\ [PgNext]_pgVars => [\E p \in Client : StoreStep(p)]_<<codes, reservations>>
  <2> SUFFICES ASSUME PgInv, [PgNext]_pgVars
               PROVE  (\E p \in Client : StoreStep(p)) \/ UNCHANGED <<codes, reservations>>
    OBVIOUS
  <2>1. CASE PgNext
    BY <2>1, OnlyCommitWrites, Zenon DEF PgNext
  <2>2. CASE UNCHANGED pgVars
    BY <2>2 DEF pgVars
  <2> QED BY <2>1, <2>2
<1>2. PgInit => Store!StoreInit
  BY Zenon DEF PgInit
<1> QED BY <1>1, <1>2, PgInvariant, PTL DEF PgSpec, ImplementsStore

-----------------------------------------------------------------------------
(* Refusals.                                                               *)

\* What the store would say to call k as the tables are.
TrueAnswer(k, a) ==
  /\ a \in {"alias_taken", "client_ref_taken"} => a \in Store!InsertErrors(RowsOf(k))
  /\ (k.op = "release" /\ a \in {"not_found", "conflict"}) => a = Store!ReleaseResult(k.short)

\* A row of the batch, as RowsOf has it.
LEMMA AtRow ==
  ASSUME PgInv, NEW p \in Client, tx[p].at \in {"insert", "reserve"}, NEW x, x = tx[p],
         NEW rows, rows = RowsOf(x.call)
  PROVE  /\ x \in TxRecord /\ TxOK(x) /\ x.call.op = "create" /\ BatchOK(x) /\ RowsOK(x)
         /\ x.n \in DOMAIN x.call.insert /\ Current(p) = x.call.insert[x.n]
         /\ Current(p).id \in DOMAIN rows /\ rows[Current(p).id] = Current(p).row
         /\ Current(p).row \in Store!NewRow
         /\ \A i \in DOMAIN x.call.insert :
              x.call.insert[i].id \in DOMAIN rows /\ rows[x.call.insert[i].id] = x.call.insert[i].row
<1>1. x \in TxRecord /\ TxOK(x) /\ x.at \in {"insert", "reserve"}
  BY TxFacts
<1>2. x.call.op = "create" /\ x.n \in DOMAIN x.call.insert /\ x.call.insert[x.n].row \in Store!NewRow
  BY <1>1, CurrentOK
<1>3. BatchOK(x) /\ RowsOK(x)
  BY <1>1, <1>2, Zenon DEF TxOK, CreateOK
<1>4. Current(p) = x.call.insert[x.n]
  BY Zenon DEF Current
<1>5. \A i \in DOMAIN x.call.insert :
        x.call.insert[i].id \in DOMAIN rows /\ rows[x.call.insert[i].id] = x.call.insert[i].row
  BY <1>1, <1>3, RowsOfIt
<1> QED BY <1>1, <1>2, <1>3, <1>4, <1>5

\* What a batch has written is among its other rows.
LEMMA OwnRow ==
  ASSUME PgInv, NEW p \in Client, tx[p].at = "insert", NEW x, x = tx[p],
         NEW rows, rows = RowsOf(x.call), NEW c \in DOMAIN x.codes
  PROVE  /\ c \in DOMAIN rows /\ c # Current(p).id /\ x.codes[c].short = rows[c].short
         /\ x.codes[c].ref = rows[c].ref /\ x.codes[c].user = rows[c].user
<1>1. /\ x \in TxRecord /\ TxOK(x) /\ x.call.op = "create" /\ BatchOK(x)
      /\ x.n \in DOMAIN x.call.insert /\ Current(p) = x.call.insert[x.n]
      /\ \A i \in DOMAIN x.call.insert :
           x.call.insert[i].id \in DOMAIN rows /\ rows[x.call.insert[i].id] = x.call.insert[i].row
  BY AtRow
<1>2. PICK i \in RowsIn(x) : /\ c = x.call.insert[i].id
                             /\ x.call.insert[i].row \in Store!NewRow
                             /\ x.codes[c] = Store!StoredRow(x.call.insert[i].row)
  BY <1>1, CreateWrites
<1>3. i \in DOMAIN x.call.insert /\ i < x.n
  BY DEF RowsIn
<1>4. i # x.n
  <2>1. i \in Nat /\ x.n \in Nat
    BY <1>1, <1>3, ItemTyped
  <2> QED BY <1>3, <2>1
<1>5. c # Current(p).id
  BY <1>1, <1>2, <1>3, <1>4, Zenon DEF BatchOK
<1>6. c \in DOMAIN rows /\ rows[c] = x.call.insert[i].row
  BY <1>1, <1>2, <1>3
<1>7. /\ x.codes[c].short = rows[c].short
      /\ x.codes[c].ref = rows[c].ref /\ x.codes[c].user = rows[c].user
  BY <1>2, <1>6, StoredRowOK
<1> QED BY <1>5, <1>6, <1>7

\* A batch that saw its name taken has it twice, or a live row has it.
LEMMA ShortTakenIsTrue ==
  ASSUME PgInv, NEW p \in Client, tx[p].at = "insert", ShortTaken(p)
  PROVE  "alias_taken" \in Store!InsertErrors(RowsOf(tx[p].call))
<1>0. PICK x, rows : x = tx[p] /\ rows = RowsOf(x.call)
  OBVIOUS
<1>1. PICK d, r : d = Current(p).id /\ r = Current(p).row
  OBVIOUS
<1>2. d \in DOMAIN rows /\ rows[d] = r
  BY <1>0, <1>1, AtRow
<1>3. PICK c \in CodeId : ShortClash(CodeSeen(p, c), r.short)
  BY <1>1, Zenon DEF ShortTaken
<1>4. CASE c \in DOMAIN x.codes
  <2>1. CodeSeen(p, c) = x.codes[c]
    BY <1>0, <1>4 DEF CodeSeen
  <2>2. c \in DOMAIN rows /\ c # d /\ x.codes[c].short = rows[c].short
    BY <1>0, <1>1, <1>4, OwnRow
  <2>3. rows[c].short = rows[d].short
    BY <1>2, <1>3, <2>1, <2>2, Zenon DEF ShortClash
  <2> QED BY <1>0, <1>2, <2>2, <2>3 DEF Store!InsertErrors
<1>5. CASE c \notin DOMAIN x.codes
  <2>1. CodeSeen(p, c) = codes[c]
    BY <1>0, <1>5 DEF CodeSeen
  <2>2. c \in Store!Live /\ codes[c].short = r.short
    BY <1>3, <2>1 DEF ShortClash, IsLive, Store!Live, Store!Stored
  <2>3. ~Store!ShortFree(rows[d].short)
    BY <1>2, <2>2, Zenon DEF Store!ShortFree
  <2> QED BY <1>0, <1>2, <2>3 DEF Store!InsertErrors
<1> QED BY <1>4, <1>5

\* The same for a client_ref.
LEMMA RefTakenIsTrue ==
  ASSUME PgInv, NEW p \in Client, tx[p].at = "insert", RefTaken(p)
  PROVE  "client_ref_taken" \in Store!InsertErrors(RowsOf(tx[p].call))
<1>0. PICK x, rows : x = tx[p] /\ rows = RowsOf(x.call)
  OBVIOUS
<1>1. PICK d, r : d = Current(p).id /\ r = Current(p).row
  OBVIOUS
<1>2. d \in DOMAIN rows /\ rows[d] = r
  BY <1>0, <1>1, AtRow
<1>3. PICK c \in CodeId : RefClash(CodeSeen(p, c), r)
  BY <1>1, Zenon DEF RefTaken
<1>4. CASE c \in DOMAIN x.codes
  <2>1. CodeSeen(p, c) = x.codes[c]
    BY <1>0, <1>4 DEF CodeSeen
  <2>2. /\ c \in DOMAIN rows /\ c # d /\ x.codes[c].ref = rows[c].ref
        /\ x.codes[c].user = rows[c].user
    BY <1>0, <1>1, <1>4, OwnRow
  <2>3. Store!SameRef(rows[d], rows[c])
    BY <1>2, <1>3, <2>1, <2>2, Zenon DEF RefClash, Store!SameRef
  <2> QED BY <1>0, <1>2, <2>2, <2>3 DEF Store!InsertErrors
<1>5. CASE c \notin DOMAIN x.codes
  <2>1. CodeSeen(p, c) = codes[c]
    BY <1>0, <1>5 DEF CodeSeen
  <2>2. /\ c \in Store!GetCodeByClientRef(r.user, r.ref) /\ r.ref # NoRef
    BY <1>3, <2>1 DEF RefClash, Store!GetCodeByClientRef, Store!Stored
  <2>3. ~Store!RefFree(rows[d].user, rows[d].ref)
    BY <1>2, <2>2, Zenon DEF Store!RefFree
  <2> QED BY <1>0, <1>2, <2>3 DEF Store!InsertErrors
<1> QED BY <1>4, <1>5

\* An upsert that touched no row met an unreleased reservation.
LEMMA UnarmedIsTrue ==
  ASSUME PgInv, NEW p \in Client, tx[p].at = "reserve", ~Rearmable(ResSeen(p, Current(p).row.short))
  PROVE  "alias_taken" \in Store!InsertErrors(RowsOf(tx[p].call))
<1>0. PICK x, rows : x = tx[p] /\ rows = RowsOf(x.call)
  OBVIOUS
<1>1. PICK d, s : d = Current(p).id /\ s = Current(p).row.short
  OBVIOUS
<1>2. /\ d \in DOMAIN rows /\ rows[d].short = s /\ x \in TxRecord /\ TxOK(x)
      /\ s = x.call.insert[x.n].row.short
  BY <1>0, <1>1, AtRow
<1>3. s \notin DOMAIN x.res
  BY <1>0, <1>2, NotYetReserved DEF Short
<1>4. ~Rearmable(reservations[s])
  BY <1>0, <1>1, <1>3, Zenon DEF ResSeen
<1>5. ~Store!ShortFree(rows[d].short)
  BY <1>2, <1>4, Zenon DEF Rearmable, Store!ShortFree, Store!Reserved
<1> QED BY <1>0, <1>2, <1>5 DEF Store!InsertErrors

\* What a client that ends is told.
LEMMA AnswerGiven ==
  ASSUME PgInv, NEW p \in Client, NEW a \in Answers, Answer(p, a)
  PROVE  tx'[p].answer = a
<1>1. PICK y : y = Ended(a)
  OBVIOUS
<1>2. tx' = [tx EXCEPT ![p] = y]
  BY <1>1, Zenon DEF Answer, Ended
<1>3. y.answer = a
  <2>1. PICK w : w = Transaction(NoCall, "done")
    OBVIOUS
  <2>2. y = [w EXCEPT !.answer = a]
    BY <1>1, <2>1, Zenon DEF Ended
  <2>3. "answer" \in DOMAIN w
    BY <2>1 DEF Transaction
  <2> QED BY <2>2, <2>3
<1> QED BY <1>2, <1>3 DEF PgInv, PgTypeOK

\* A statement that succeeds does not end its call.
LEMMA StepGoesOn ==
  ASSUME PgInv, NEW p \in Client, NEW y, Step(p, y), y.at # "done"
  PROVE  tx'[p].at # "done"
<1>1. tx' = [tx EXCEPT ![p] = y]
  BY Zenon DEF Step
<1> QED BY <1>1 DEF PgInv, PgTypeOK

\* Every answer that a client gets is true.
LEMMA AnswerIsTrue ==
  ASSUME PgInv, NEW p \in Client, Running(p), tx'[p].at = "done",
         \/ InsertRow(p) \/ UpsertReservation(p)
         \/ UpdateRow(p) \/ OwnedExists(p)
         \/ LockReservation(p) \/ CountLive(p) \/ MarkReleased(p)
         \/ Commit(p) \/ CommitLost(p) \/ Fail(p) \/ DeadlockDetected(p)
  PROVE  TrueAnswer(tx[p].call, tx'[p].answer)
<1>0. PICK x, k : x = tx[p] /\ k = tx[p].call
  OBVIOUS
<1>00. x \in TxRecord /\ TxOK(x) /\ x.call = k
  BY <1>0, TxFacts
<1>1. ASSUME NEW a \in Answers, Refuse(p, a) PROVE tx'[p].answer = a
  <2>1. Answer(p, a)
    BY <1>1, Zenon DEF Refuse, Rollback
  <2> QED BY <2>1, AnswerGiven
<1>2. /\ "ok" \in Answers /\ "error" \in Answers /\ "alias_taken" \in Answers
      /\ "client_ref_taken" \in Answers /\ "not_found" \in Answers /\ "conflict" \in Answers
  BY DEF Answers
<1>3. ASSUME NEW y, Step(p, y), y.at # "done" PROVE FALSE
  BY <1>3, StepGoesOn
<1>4. CASE InsertRow(p)
  <2>1. tx[p].at = "insert" /\ x.call.op = "create"
    BY <1>0, <1>00, <1>4 DEF InsertRow, TxOK, StepOK
  <2>2. CASE ShortTaken(p) /\ Refuse(p, "alias_taken")
    <3>1. tx'[p].answer = "alias_taken" /\ "alias_taken" \in Store!InsertErrors(RowsOf(k))
      BY <1>0, <1>1, <1>2, <2>1, <2>2, ShortTakenIsTrue
    <3> QED BY <1>0, <3>1 DEF TrueAnswer
  <2>3. CASE RefTaken(p) /\ Refuse(p, "client_ref_taken")
    <3>1. tx'[p].answer = "client_ref_taken" /\ "client_ref_taken" \in Store!InsertErrors(RowsOf(k))
      BY <1>0, <1>1, <1>2, <2>1, <2>3, RefTakenIsTrue
    <3> QED BY <1>0, <3>1 DEF TrueAnswer
  <2>4. CASE Step(p, WithRow(x, Current(p).id, Store!StoredRow(Current(p).row)))
    <3>1. /\ x.call.insert[x.n].id \in CodeId /\ x.call.insert[x.n].row \in Store!NewRow
      BY <1>0, <1>00, <2>1, CurrentOK
    <3>2. PICK id, r : id = Current(p).id /\ r = Store!StoredRow(Current(p).row)
      OBVIOUS
    <3>3. id \in CodeId /\ r \in Store!Row
      BY <1>0, <3>1, <3>2, StoredRowOK DEF Current
    <3>4. PICK y : y = WithRow(x, id, r)
      OBVIOUS
    <3>5. y.at = "reserve"
      BY <1>00, <3>3, <3>4, RowAddedType
    <3>6. Step(p, y)
      BY <2>4, <3>2, <3>4, Zenon
    <3> QED BY <1>3, <3>5, <3>6
  <2> QED BY <1>0, <1>4, <2>2, <2>3, <2>4, Zenon DEF InsertRow, WithRow
<1>5. CASE UpsertReservation(p)
  <2>1. tx[p].at = "reserve"
    BY <1>5, Zenon DEF UpsertReservation
  <2>2. CASE ~Rearmable(ResSeen(p, Current(p).row.short)) /\ Refuse(p, "alias_taken")
    <3>1. tx'[p].answer = "alias_taken" /\ "alias_taken" \in Store!InsertErrors(RowsOf(k))
      BY <1>0, <1>1, <1>2, <2>1, <2>2, UnarmedIsTrue
    <3> QED BY <1>0, <3>1 DEF TrueAnswer
  <2>3. CASE Step(p, NextRow(x, Current(p).row.short, [code |-> Current(p).id, released |-> FALSE]))
    <3>1. /\ x.call.insert[x.n].id \in CodeId /\ Short(x, x.n) \in ShortCode
      BY <1>0, <1>00, <2>1, CurrentOK
    <3>2. PICK s, r : s = Current(p).row.short /\ r = [code |-> Current(p).id, released |-> FALSE]
      OBVIOUS
    <3>3. s \in ShortCode /\ r \in Store!Reservation
      BY <1>0, <3>1, <3>2 DEF Current, Short, Store!Reservation
    <3>4. PICK y : y = NextRow(x, s, r)
      OBVIOUS
    <3>5. y.at = IF x.n < Len(x.call.insert) THEN "insert" ELSE "commit"
      BY <1>00, <3>3, <3>4, NextRowType
    <3>6. y.at # "done" /\ Step(p, y)
      <4>1. Step(p, y)
        BY <2>3, <3>2, <3>4, Zenon
      <4> QED BY <3>5, <4>1
    <3> QED BY <1>3, <3>6
  <2> QED BY <1>0, <1>5, <2>2, <2>3, Zenon DEF UpsertReservation, NextRow
<1>6. ASSUME NEW a, a \in {"not_found", "conflict"}, k.op # "release", Refuse(p, a)
      PROVE  TrueAnswer(tx[p].call, tx'[p].answer)
  <2>1. tx'[p].answer = a
    BY <1>1, <1>2, <1>6
  <2> QED BY <1>0, <1>6, <2>1 DEF TrueAnswer
<1>7. ASSUME NEW b \in Steps, b # "done", Step(p, [tx[p] EXCEPT !.at = b]) PROVE FALSE
  <2>1. PICK y : y = [x EXCEPT !.at = b]
    OBVIOUS
  <2>2. y.at = b
    BY <1>00, <2>1, MovesTo
  <2>3. Step(p, y)
    BY <1>0, <1>7, <2>1, Zenon
  <2> QED BY <1>3, <1>7, <2>2, <2>3
<1>8. "exists" \in Steps /\ "commit" \in Steps /\ "mark" \in Steps /\ "count" \in Steps
  BY DEF Steps
<1>9. CASE UpdateRow(p)
  <2>1. CASE Step(p, [tx[p] EXCEPT !.at = "exists"])
    BY <1>7, <1>8, <2>1
  <2>2. ASSUME NEW f, Step(p, [tx[p] EXCEPT !.at = "commit", !.codes = f]) PROVE FALSE
    <3>1. PICK y : y = [x EXCEPT !.at = "commit", !.codes = f]
      OBVIOUS
    <3>2. y.at = "commit"
      BY <1>00, <3>1 DEF TxRecord
    <3>3. Step(p, y)
      BY <1>0, <2>2, <3>1, Zenon
    <3> QED BY <1>3, <3>2, <3>3
  <2> QED BY <1>9, <2>1, <2>2, Zenon DEF UpdateRow
<1>10. CASE OwnedExists(p)
  <2>1. k.op # "release"
    BY <1>0, <1>00, <1>10 DEF OwnedExists, TxOK, StepOK
  <2>2. ASSUME NEW a \in {"not_found", "conflict"}, Refuse(p, a)
        PROVE  TrueAnswer(tx[p].call, tx'[p].answer)
    BY <1>6, <2>1, <2>2
  <2>3. CASE Step(p, [tx[p] EXCEPT !.at = "commit"])
    BY <1>7, <1>8, <2>3
  <2>4. "not_found" \in {"not_found", "conflict"} /\ "conflict" \in {"not_found", "conflict"}
    OBVIOUS
  <2> QED BY <1>10, <2>2, <2>3, <2>4, Zenon DEF OwnedExists
<1>11. CASE LockReservation(p)
  <2>1. CASE ~Unreleased(reservations[k.short]) /\ Refuse(p, "not_found")
    <3>1. tx'[p].answer = "not_found"
      BY <1>1, <1>2, <2>1
    <3>2. Store!ReleaseResult(k.short) = "not_found"
      BY <2>1 DEF Store!ReleaseResult, Store!Reserved, Unreleased
    <3> QED BY <1>0, <3>1, <3>2 DEF TrueAnswer
  <2>2. ASSUME NEW f, Step(p, [tx[p] EXCEPT !.at = "count", !.locked = f]) PROVE FALSE
    <3>1. PICK y : y = [x EXCEPT !.at = "count", !.locked = f]
      OBVIOUS
    <3>2. y.at = "count"
      BY <1>00, <3>1 DEF TxRecord
    <3>3. Step(p, y)
      BY <1>0, <2>2, <3>1, Zenon
    <3> QED BY <1>3, <3>2, <3>3
  <2> QED BY <1>0, <1>11, <2>1, <2>2, Zenon DEF LockReservation
<1>12. CASE CountLive(p)
  <2>0. tx[p].at = "count"
    BY <1>12, Zenon DEF CountLive
  <2>1. CASE (\E c \in CodeId : ShortClash(codes[c], k.short)) /\ Refuse(p, "conflict")
    <3>1. tx'[p].answer = "conflict"
      BY <1>1, <1>2, <2>1
    <3>2. Unreleased(reservations[k.short])
      BY <1>0, <1>00, <2>0, ReleaseFacts
    <3>3. Store!Reserved(k.short)
      BY <3>2 DEF Store!Reserved, Unreleased
    <3>4. \E c \in Store!Live : codes[c].short = k.short
      BY <2>1 DEF Store!Live, Store!Stored, ShortClash, IsLive
    <3>5. Store!ReleaseResult(k.short) = "conflict"
      BY <3>3, <3>4 DEF Store!ReleaseResult
    <3> QED BY <1>0, <3>1, <3>5 DEF TrueAnswer
  <2>2. CASE Step(p, [tx[p] EXCEPT !.at = "mark"])
    BY <1>7, <1>8, <2>2
  <2> QED BY <1>0, <1>12, <2>1, <2>2, Zenon DEF CountLive
<1>13. CASE MarkReleased(p)
  <2>0. tx[p].at = "mark"
    BY <1>13, Zenon DEF MarkReleased
  <2>1. CASE Step(p, [tx[p] EXCEPT !.at = "commit"])
    BY <1>7, <1>8, <2>1
  <2>2. PICK s, r : s = k.short /\ r = [reservations[s] EXCEPT !.released = TRUE]
    OBVIOUS
  <2>3. s \in ShortCode
    BY <1>0, <1>00, <2>0, <2>2, ReleaseFacts
  <2>4. r \in Store!Reservation
    <3>1. reservations[s] \in Store!Reservation
      BY <2>3 DEF PgInv, PgTypeOK, Store!TypeOK
    <3> QED BY <2>2, <3>1 DEF Store!Reservation
  <2>5. CASE Step(p, [WriteRes(tx[p], s, r) EXCEPT !.at = "commit"])
    <3>1. PICK w : w = WriteRes(x, s, r)
      OBVIOUS
    <3>2. w \in TxRecord
      BY <1>00, <2>3, <2>4, <3>1, WriteResType
    <3>3. PICK y : y = [w EXCEPT !.at = "commit"]
      OBVIOUS
    <3>4. y.at = "commit"
      BY <1>8, <3>2, <3>3, MovesTo
    <3>5. Step(p, y)
      BY <1>0, <2>5, <3>1, <3>3, Zenon
    <3> QED BY <1>3, <3>4, <3>5
  <2> QED BY <1>0, <1>13, <2>1, <2>2, <2>5, Zenon DEF MarkReleased
<1>14. ASSUME NEW a \in {"ok", "error"}, Answer(p, a) PROVE TrueAnswer(tx[p].call, tx'[p].answer)
  <2>1. tx'[p].answer = a
    BY <1>2, <1>14, AnswerGiven
  <2> QED BY <2>1 DEF TrueAnswer
<1>15. CASE Commit(p) \/ CommitLost(p) \/ Fail(p) \/ DeadlockDetected(p)
  <2>1. "ok" \in {"ok", "error"} /\ "error" \in {"ok", "error"}
    OBVIOUS
  <2> QED BY <1>14, <1>15, <2>1, Zenon DEF Commit, CommitLost, Fail, DeadlockDetected, Refuse, Rollback
<1> QED BY <1>4, <1>5, <1>9, <1>10, <1>11, <1>12, <1>13, <1>15

\* A step moves one client.
LEMMA OneMovesOn ==
  ASSUME NEW p \in Client,
         \/ BeginCreate(p) \/ BeginUpdate(p) \/ BeginRelease(p)
         \/ InsertRow(p) \/ UpsertReservation(p)
         \/ UpdateRow(p) \/ OwnedExists(p)
         \/ LockReservation(p) \/ CountLive(p) \/ MarkReleased(p)
         \/ Commit(p) \/ CommitLost(p) \/ Fail(p) \/ DeadlockDetected(p)
  PROVE  \E y : tx' = [tx EXCEPT ![p] = y]
<1>1. ASSUME NEW k, NEW a, Begin(p, k, a) PROVE \E y : tx' = [tx EXCEPT ![p] = y]
  BY <1>1, Zenon DEF Begin
<1>2. ASSUME NEW y, Step(p, y) PROVE \E z : tx' = [tx EXCEPT ![p] = z]
  BY <1>2, Zenon DEF Step
<1>3. ASSUME NEW a, Answer(p, a) PROVE \E y : tx' = [tx EXCEPT ![p] = y]
  BY <1>3, Zenon DEF Answer
<1>4. ASSUME NEW a, Refuse(p, a) PROVE \E y : tx' = [tx EXCEPT ![p] = y]
  BY <1>3, <1>4, Zenon DEF Refuse, Rollback
<1>5. CASE BeginCreate(p) \/ BeginUpdate(p) \/ BeginRelease(p)
  BY <1>1, <1>5, Zenon DEF BeginCreate, BeginUpdate, BeginRelease
<1>6. CASE InsertRow(p) \/ UpsertReservation(p)
  BY <1>2, <1>4, <1>6, Zenon DEF InsertRow, UpsertReservation
<1>7. CASE UpdateRow(p) \/ OwnedExists(p)
  BY <1>2, <1>4, <1>7, Zenon DEF UpdateRow, OwnedExists
<1>8. CASE LockReservation(p) \/ CountLive(p) \/ MarkReleased(p)
  BY <1>2, <1>4, <1>8, Zenon DEF LockReservation, CountLive, MarkReleased
<1>9. CASE Commit(p) \/ CommitLost(p) \/ Fail(p) \/ DeadlockDetected(p)
  BY <1>3, <1>4, <1>9, Zenon DEF Commit, CommitLost, Fail, DeadlockDetected, Rollback
<1> QED BY <1>5, <1>6, <1>7, <1>8, <1>9

\* What the driver tells an insert or a release that it turns down (translate's
\* ErrAliasTaken and ErrClientRefTaken, ReleaseAlias's ErrNotFound and
\* ErrConflict) is so in the committed tables at that moment.
THEOREM PgRefusalsTheorem == PgSpec => RefusalsAreTrue
<1> DEFINE Refusals ==
      \A p \in Client :
        (Running(p) /\ tx'[p].at = "done") =>
          LET k == tx[p].call IN
          CASE tx'[p].answer \in {"alias_taken", "client_ref_taken"} ->
                 tx'[p].answer \in Store!InsertErrors(RowsOf(k))
            [] k.op = "release" /\ tx'[p].answer \in {"not_found", "conflict"} ->
                 tx'[p].answer = Store!ReleaseResult(k.short)
            [] OTHER -> TRUE
<1>1. PgInv /\ PgNext => Refusals
  <2> SUFFICES ASSUME PgInv, PgNext, NEW p \in Client, Running(p), tx'[p].at = "done"
               PROVE  LET k == tx[p].call IN
                      CASE tx'[p].answer \in {"alias_taken", "client_ref_taken"} ->
                             tx'[p].answer \in Store!InsertErrors(RowsOf(k))
                        [] k.op = "release" /\ tx'[p].answer \in {"not_found", "conflict"} ->
                             tx'[p].answer = Store!ReleaseResult(k.short)
                        [] OTHER -> TRUE
    OBVIOUS
  <2>1. PICK q \in Client :
          \/ BeginCreate(q) \/ BeginUpdate(q) \/ BeginRelease(q)
          \/ InsertRow(q) \/ UpsertReservation(q)
          \/ UpdateRow(q) \/ OwnedExists(q)
          \/ LockReservation(q) \/ CountLive(q) \/ MarkReleased(q)
          \/ Commit(q) \/ CommitLost(q) \/ Fail(q) \/ DeadlockDetected(q)
    BY Zenon DEF PgNext
  <2>2. \E y : tx' = [tx EXCEPT ![q] = y]
    BY <2>1, OneMovesOn
  <2>3. q = p
    <3>1. CASE q # p
      <4>1. tx'[p] = tx[p]
        BY <2>2, <3>1 DEF PgInv, PgTypeOK
      <4> QED BY <4>1 DEF Running
    <3> QED BY <3>1
  <2>4. ~BeginCreate(p) /\ ~BeginUpdate(p) /\ ~BeginRelease(p)
    BY Zenon DEF BeginCreate, BeginUpdate, BeginRelease, Begin
  <2>5. TrueAnswer(tx[p].call, tx'[p].answer)
    BY <2>1, <2>3, <2>4, AnswerIsTrue
  <2>6. PICK k, a : k = tx[p].call /\ a = tx'[p].answer
    OBVIOUS
  <2>7. (CASE a \in {"alias_taken", "client_ref_taken"} -> a \in Store!InsertErrors(RowsOf(k))
           [] k.op = "release" /\ a \in {"not_found", "conflict"} -> a = Store!ReleaseResult(k.short)
           [] OTHER -> TRUE)
    BY <2>5, <2>6 DEF TrueAnswer
  <2> QED BY <2>6, <2>7, Zenon
<1>2. PgInv /\ [PgNext]_pgVars => [Refusals]_pgVars
  BY <1>1
<1> QED BY <1>2, PgInvariant, PTL DEF PgSpec, RefusalsAreTrue

-----------------------------------------------------------------------------
(* The tables as CodeStore's.                                              *)

\* A batch is of CodeStore's size.
LEMMA BatchIsStores ==
  ASSUME NEW x \in TxRecord, BatchOK(x)
  PROVE  /\ Inserted(x.call) \in Store!BatchIds
         /\ RowsOf(x.call) \in [Inserted(x.call) -> Store!NewRow]
<1>0. PICK ins, n, S : ins = x.call.insert /\ n = Len(ins) /\ S = Inserted(x.call)
  OBVIOUS
<1>1. ins \in Seq(Item) /\ ins # <<>> /\ n <= MaxBatch
  BY <1>0 DEF TxRecord, CallRecord, BatchOK
<1>2. n \in Nat \ {0} /\ DOMAIN ins = 1..n
  BY <1>0, <1>1
<1>3. S = {ins[i].id : i \in DOMAIN ins}
  BY <1>0, Zenon DEF Inserted
<1>4. PICK f : f = [i \in 1..n |-> ins[i].id]
  OBVIOUS
<1>5. f \in [1..n -> S] /\ \A c \in S : \E i \in 1..n : f[i] = c
  BY <1>2, <1>3, <1>4
<1>6. IsFiniteSet(S) /\ Cardinality(S) <= n
  <2>1. f \in Surjection(1..n, S)
    BY <1>5 DEF Surjection
  <2>2. IsFiniteSet(1..n) /\ Cardinality(1..n) = n
    <3>1. 1 \in Int /\ n \in Int /\ ~(1 > n) /\ n - 1 + 1 = n
      BY <1>2
    <3>2. IsFiniteSet(1..n) /\ Cardinality(1..n) = IF 1 > n THEN 0 ELSE n - 1 + 1
      BY <3>1, FS_Interval
    <3> QED BY <3>1, <3>2
  <2>3. IsFiniteSet(S) /\ Cardinality(S) <= Cardinality(1..n)
    BY <2>1, <2>2, FS_Surjection
  <2> QED BY <2>2, <2>3
<1>7. Store!Cardinality(S) = Cardinality(S) /\ Store!IsFiniteSet(S) = IsFiniteSet(S)
  BY Zenon DEF Store!Cardinality, Cardinality, Store!IsFiniteSet, IsFiniteSet
<1>8. Cardinality(S) \in Nat
  BY <1>6, FS_CardinalityType
<1>9. Store!Cardinality(S) <= MaxBatch
  BY <1>1, <1>2, <1>6, <1>7, <1>8, PgAssumption
<1>10. S \subseteq CodeId /\ S # {}
  <2>1. ASSUME NEW c \in S PROVE c \in CodeId
    BY <1>0, <1>3, ItemTyped
  <2>2. ins[1].id \in S
    BY <1>2, <1>3
  <2> QED BY <2>1, <2>2
<1>11. S \in Store!BatchIds
  BY <1>6, <1>7, <1>9, <1>10 DEF Store!BatchIds
<1>12. PICK rows : rows = RowsOf(x.call)
  OBVIOUS
<1>13. /\ DOMAIN rows = S
       /\ \A c \in DOMAIN rows : \E i \in DOMAIN ins : c = ins[i].id /\ rows[c] = ins[i].row
  BY <1>0, <1>12, RowsOfIt
<1>14. \A c \in S : rows[c] \in Store!NewRow
  BY <1>0, <1>13, ItemTyped
<1>15. rows \in [S -> Store!NewRow]
  <2>1. PICK g : g = [c \in S |-> ins[CHOOSE i \in DOMAIN ins : ins[i].id = c].row]
    OBVIOUS
  <2>2. rows = g
    BY <1>0, <1>12, <2>1 DEF RowsOf
  <2>3. \A c \in S : g[c] \in Store!NewRow
    BY <1>14, <2>2
  <2>4. g \in [S -> Store!NewRow]
    BY <2>1, <2>3
  <2> QED BY <2>2, <2>4
<1> QED BY <1>0, <1>11, <1>12, <1>15

\* The transaction of a call is a step of CodeStore.
LEMMA StoreStepIsNext ==
  ASSUME PgInv, NEW p \in Client, StoreStep(p) PROVE Store!StoreNext
<1>0. PICK x, k : x = tx[p] /\ k = x.call
  OBVIOUS
<1>1. x \in TxRecord /\ TxOK(x) /\ x.at = "commit"
  BY <1>0, TxFacts DEF StoreStep
<1>2. k.op \in Operations
  BY <1>0, <1>1 DEF TxOK, StepOK
<1>3. CASE k.op = "create"
  <2>1. Store!CreateCodes(RowsOf(k))
    BY <1>0, <1>3 DEF StoreStep
  <2>2. BatchOK(x)
    BY <1>0, <1>1, <1>3, Zenon DEF TxOK, CreateOK
  <2>3. Inserted(k) \in Store!BatchIds /\ RowsOf(k) \in [Inserted(k) -> Store!NewRow]
    BY <1>0, <1>1, <2>2, BatchIsStores
  <2>4. Inserted(k) \cap Store!Stored = {}
    <3>1. DOMAIN RowsOf(k) = Inserted(k)
      BY <2>3
    <3> QED BY <2>1, <3>1, Zenon DEF Store!CreateCodes
  <2> QED BY <2>1, <2>3, <2>4, Zenon DEF Store!StoreNext
<1>4. CASE k.op \in {"update", "state", "delete"}
  <2>1. k.id \in CodeId /\ k.user \in User /\ (k.op = "update" => k.dest \in Dest)
    BY <1>0, <1>1, <1>4 DEF TxOK, UpdateOK
  <2>2. CASE k.op = "update"
    <3>1. Store!UpdateDestination(k.id, k.user, k.dest, k.version)
      BY <1>0, <2>2 DEF StoreStep
    <3>2. k.version \in Nat /\ k.version < MaxVersion
      BY <1>0, <1>1, <3>1 DEF TxRecord, CallRecord, Store!UpdateDestination
    <3>3. k.version # 0
      <4>1. Store!UpdateResult(k.id, k.user, k.version) = "ok"
        BY <3>1, Zenon DEF Store!UpdateDestination
      <4>2. k.id \in Store!Stored /\ codes[k.id].version = k.version
        BY <4>1 DEF Store!UpdateResult, Store!Owned
      <4>3. codes[k.id] \in Store!Row
        BY <2>1, <4>2 DEF Store!Stored, PgInv, PgTypeOK, Store!TypeOK
      <4> QED BY <4>2, <4>3 DEF Store!Row
    <3>4. k.version \in 1..MaxVersion
      BY <3>2, <3>3, PgAssumption
    <3> QED BY <2>1, <2>2, <3>1, <3>4, Zenon DEF Store!StoreNext
  <2>3. CASE k.op = "state"
    <3>1. Store!SetCodeState(k.id, k.user, "disabled") /\ "disabled" \in Store!State
      BY <1>0, <2>3 DEF StoreStep, Store!State
    <3> QED BY <2>1, <3>1, Zenon DEF Store!StoreNext
  <2>4. CASE k.op = "delete"
    <3>1. Store!DeleteCode(k.id, k.user)
      BY <1>0, <2>4 DEF StoreStep
    <3> QED BY <2>1, <3>1, Zenon DEF Store!StoreNext
  <2> QED BY <1>4, <2>2, <2>3, <2>4
<1>5. CASE k.op = "release"
  <2>1. Store!ReleaseAlias(k.short)
    BY <1>0, <1>5 DEF StoreStep
  <2>2. k.short \in ShortCode
    BY <1>0, <1>1, <1>5 DEF TxOK, ReleaseOK
  <2> QED BY <2>1, <2>2, Zenon DEF Store!StoreNext
<1> QED BY <1>2, <1>3, <1>4, <1>5 DEF Operations

\* The tables of the Postgres driver behave as CodeStore's do, so that what is
\* proved of StoreSpec (the namespace's two guards agree, lookups find one row,
\* no name changes hands) holds of a server that runs on Postgres.
THEOREM PgTablesTheorem == PgSpec => Store!StoreSpec
<1>1. PgInv /\ [PgNext]_pgVars => [Store!StoreNext]_(Store!storeVars)
  <2> SUFFICES ASSUME PgInv, [PgNext]_pgVars
               PROVE  Store!StoreNext \/ UNCHANGED <<codes, reservations>>
    BY DEF Store!storeVars
  <2>1. CASE PgNext
    BY <2>1, OnlyCommitWrites, StoreStepIsNext, Zenon DEF PgNext
  <2>2. CASE UNCHANGED pgVars
    BY <2>2 DEF pgVars
  <2> QED BY <2>1, <2>2
<1>2. PgInit => Store!StoreInit
  BY Zenon DEF PgInit
<1> QED BY <1>1, <1>2, PgInvariant, PTL DEF PgSpec, Store!StoreSpec
=============================================================================
