------------------------- MODULE ExportImportProofs -------------------------
(***************************************************************************)
(* Proofs about ExportImport for every value of its constants: what an     *)
(* import that succeeds has restored, and why one may fail.                *)
(***************************************************************************)
EXTENDS ExportImport, CodeStoreProofs, FiniteSetTheorems

-----------------------------------------------------------------------------
(* The inductive invariant.                                                *)

\* Each code is in the list once: ORDER BY created_at gives one line per row.
Listed ==
  /\ order \in Seq(CodeId) /\ ToSet(order) = Stored
  /\ \A i, j \in DOMAIN order : order[i] = order[j] => i = j

\* A row's short code keeps a reservation row, and its owner exists.
RowsAnchored == \A c \in Stored : reservations[codes[c].short].code # NoRow
RowsOwned == \A c \in Stored : codes[c].user \in users

\* Until a first release, each code still holds its own short code.
NoneReleased ==
  /\ \A s \in ShortCode : ~reservations[s].released
  /\ \A c \in Stored : reservations[codes[c].short].code = c

SourceInv ==
  /\ StoreInv /\ Listed /\ RowsAnchored /\ RowsOwned
  /\ ~released => NoneReleased

\* What the archive's files say of each other.
FilesInv ==
  /\ codesFile \in Seq([id : CodeId, row : Row])
  /\ \A i, j \in DOMAIN codesFile : codesFile[i].id = codesFile[j].id => i = j
  /\ \A i, j \in DOMAIN codesFile : SameRef(codesFile[i].row, codesFile[j].row) => i = j
  /\ ~released => /\ \A i, j \in DOMAIN codesFile :
                       codesFile[i].row.short = codesFile[j].row.short => i = j
                  /\ \A s \in ShortCode : ~resFile[s].released
  /\ ~joined => \A i \in DOMAIN codesFile : codesFile[i].row.user \in usersFile

\* What the files say of the store they were walked from.
SnapshotInv ==
  /\ phase \in {"serving", "walkCodes"} => codesFile = <<>>
  /\ phase = "walkCodes" /\ ~joined => users = usersFile
  /\ phase \notin {"serving", "walkCodes"} /\ ~moved => codesFile = ForEachCode
  /\ phase \notin {"serving", "walkCodes", "walkReservations"} /\ ~moved =>
       resFile = reservations

\* The import has not written a code yet.
Untouched == {"serving", "exported", "users"} \cup Writing
\* It has gone through the lines before next.
Replaying == {"codes", "redelete", "aliases", "rollups", "done"}

\* Row r of the target is line w of codes.jsonl.
Matches(r, w) ==
  /\ r.short = w.short /\ r.user = w.user /\ r.mode = w.mode
  /\ r.ref = w.ref /\ r.dest = w.dest

\* The target holds the first n lines of codes.jsonl, and nothing else.
Replayed(n) ==
  /\ Target!Stored = {codesFile[i].id : i \in 1..n}
  /\ \A i \in 1..n : /\ Matches(tcodes[codesFile[i].id], codesFile[i].row)
                     /\ codesFile[i].row.user \in tusers
                     /\ treservations[codesFile[i].row.short].code = codesFile[i].id
  /\ \A s \in ShortCode : treservations[s].code # NoRow =>
       \E i \in 1..n : codesFile[i].row.short = s

\* The first n lines are in the state the file gives.
InState(n) == \A i \in 1..n : tcodes[codesFile[i].id].state = codesFile[i].row.state

TargetInv ==
  /\ phase \in Untouched => Target!StoreInit /\ next = 1
  /\ phase \in Replaying => InState(next - 1)
  /\ phase \in Replaying \ {"redelete"} => Replayed(next - 1)
  /\ phase = "redelete" => /\ next <= Len(codesFile) /\ Replayed(next)
                           /\ codesFile[next].row.state = "deleted"
                           /\ tcodes[codesFile[next].id].state = "disabled"
  /\ phase \in {"codes", "redelete", "aliases"} => \A s \in ShortCode : ~treservations[s].released
  /\ phase \in {"aliases", "rollups", "done"} /\ ~Truncated => next = Len(codesFile) + 1
  /\ phase \in {"rollups", "done"} => \A s \in ShortCode : treservations[s].released = (s \in ToRelease)
  /\ phase \in Replaying /\ ~Truncated => tusers = usersFile
  /\ phase = "done" /\ ~Truncated => \A c \in Target!Stored : trollups[c] = rollupsFile[c]

ExportInv ==
  /\ ExportTypeOK /\ SourceInv /\ FilesInv /\ SnapshotInv /\ TargetInv
  /\ ImportFailureHasCause

-----------------------------------------------------------------------------
(* Listings.                                                               *)

\* Sequence p lists set A, each element once.
Lists(p, A) ==
  /\ p \in Seq(A) /\ ToSet(p) = A
  /\ \A i, j \in DOMAIN p : p[i] = p[j] => i = j

\* SetToSeq lists a finite set, each element once.
LEMMA ListingOfSet ==
  ASSUME NEW S, IsFiniteSet(S)
  PROVE  Lists(SetToSeq(S), S)
<1>1. PICK n \in Nat : n = Cardinality(S)
  BY FS_CardinalityType
<1>2. PICK b : b \in Bijection(1..n, S)
  BY <1>1, FS_CardinalityType DEF ExistsBijection
<1>3. b \in [1..n -> S] /\ IsInjective(b)
  BY <1>2 DEF Bijection, Injection, IsInjective
<1>4. PICK q : q = SetToSeq(S)
  OBVIOUS
<1>5. q \in [1..n -> S] /\ IsInjective(q)
  BY <1>1, <1>3, <1>4 DEF SetToSeq
<1>6. DOMAIN q = 1..n /\ \A i, j \in 1..n : q[i] = q[j] => i = j
  BY <1>5 DEF IsInjective
<1>7. q \in Injection(1..n, S)
  BY <1>5 DEF Injection
<1>8. IsFiniteSet(1..n) /\ Cardinality(1..n) = n
  <2>1. CASE n = 0
    BY <2>1, FS_EmptySet
  <2>2. CASE n # 0
    <3>1. 1 \in Int /\ n \in Int /\ ~(1 > n) /\ n - 1 + 1 = n
      BY <1>1, <2>2
    <3>2. IsFiniteSet(1..n) /\ Cardinality(1..n) = IF 1 > n THEN 0 ELSE n - 1 + 1
      BY <3>1, FS_Interval
    <3> QED BY <3>1, <3>2
  <2> QED BY <2>1, <2>2
<1>9. q \in Surjection(1..n, S)
  BY <1>1, <1>7, <1>8, FS_Injection
<1>10. ToSet(q) = S
  BY <1>5, <1>6, <1>9 DEF ToSet, Surjection
<1>11. q \in Seq(S)
  BY <1>1, <1>5
<1> QED BY <1>4, <1>6, <1>10, <1>11 DEF Lists

\* Two listings without a common element make a listing.
LEMMA ListingOfBoth ==
  ASSUME NEW A, NEW B, A \cap B = {}, NEW p, Lists(p, A), NEW q, Lists(q, B)
  PROVE  Lists(p \o q, A \cup B)
<1>0. /\ p \in Seq(A) /\ ToSet(p) = A /\ \A i, j \in DOMAIN p : p[i] = p[j] => i = j
      /\ q \in Seq(B) /\ ToSet(q) = B /\ \A i, j \in DOMAIN q : q[i] = q[j] => i = j
  BY DEF Lists
<1> USE <1>0
<1>1. PICK m, n : m = Len(p) /\ n = Len(q)
  OBVIOUS
<1>2. m \in Nat /\ n \in Nat /\ DOMAIN p = 1..m /\ DOMAIN q = 1..n
  BY <1>1
<1>3. PICK r : r = p \o q
  OBVIOUS
<1>4. /\ DOMAIN r = 1..(m + n)
      /\ \A i \in 1..m : r[i] = p[i] /\ r[i] \in A
      /\ \A i \in 1..(m + n) : i > m => r[i] = q[i - m] /\ i - m \in 1..n /\ r[i] \in B
  <2>1. p \in Seq(A \cup B) /\ q \in Seq(A \cup B)
    <3>1. p \in [1..m -> A \cup B] /\ q \in [1..n -> A \cup B]
      BY <1>2
    <3> QED BY <1>2, <3>1
  <2>2. r \in Seq(A \cup B) /\ Len(r) = m + n
    BY <1>1, <1>3, <2>1
  <2>3. DOMAIN r = 1..(m + n)
    BY <2>2
  <2>4. \A i \in 1..(m + n) : r[i] = IF i <= m THEN p[i] ELSE q[i - m]
    BY <1>1, <1>3, <2>1
  <2>5. \A i \in 1..m : i \in 1..(m + n) /\ i <= m /\ p[i] \in A
    BY <1>2
  <2>6. \A i \in 1..(m + n) : i > m => ~(i <= m) /\ i - m \in 1..n /\ q[i - m] \in B
    BY <1>2
  <2> QED BY <2>3, <2>4, <2>5, <2>6
<1>5. r \in Seq(A \cup B)
  <2>1. \A i \in 1..(m + n) : r[i] \in A \cup B
    <3> SUFFICES ASSUME NEW i \in 1..(m + n) PROVE r[i] \in A \cup B
      OBVIOUS
    <3>1. i > m \/ i \in 1..m
      BY <1>2
    <3> QED BY <1>4, <3>1
  <2>2. p \in Seq(A \cup B) /\ q \in Seq(A \cup B)
    <3>1. p \in [1..m -> A \cup B] /\ q \in [1..n -> A \cup B]
      BY <1>2
    <3> QED BY <1>2, <3>1
  <2> QED BY <1>3, <2>2
<1>6. ToSet(r) = A \cup B
  <2>1. ASSUME NEW x \in A PROVE x \in ToSet(r)
    <3>1. PICK i \in 1..m : x = p[i]
      BY <1>2 DEF ToSet
    <3>2. i \in 1..(m + n) /\ r[i] = x
      BY <1>2, <1>4, <3>1
    <3> QED BY <1>4, <3>2 DEF ToSet
  <2>2. ASSUME NEW x \in B PROVE x \in ToSet(r)
    <3>1. PICK i \in 1..n : x = q[i]
      BY <1>2 DEF ToSet
    <3>2. m + i \in 1..(m + n) /\ m + i > m /\ (m + i) - m = i
      BY <1>2
    <3>3. r[m + i] = x
      BY <1>4, <3>1, <3>2
    <3> QED BY <1>4, <3>2, <3>3 DEF ToSet
  <2>3. ASSUME NEW i \in 1..(m + n) PROVE r[i] \in A \cup B
    <3>1. i > m \/ i \in 1..m
      BY <1>2
    <3> QED BY <1>4, <3>1
  <2> QED BY <1>4, <2>1, <2>2, <2>3 DEF ToSet
<1>7. ASSUME NEW i \in DOMAIN r, NEW j \in DOMAIN r, r[i] = r[j] PROVE i = j
  <2>1. i \in 1..(m + n) /\ j \in 1..(m + n)
    BY <1>4
  <2>2. CASE i \in 1..m /\ j \in 1..m
    BY <1>2, <1>4, <1>7, <2>2
  <2>3. CASE i > m /\ j > m
    <3>1. q[i - m] = q[j - m] /\ i - m \in 1..n /\ j - m \in 1..n
      BY <1>4, <1>7, <2>1, <2>3
    <3>2. i - m = j - m
      BY <1>2, <3>1
    <3> QED BY <1>2, <2>1, <3>2
  <2>4. ~(i \in 1..m /\ j > m) /\ ~(j \in 1..m /\ i > m)
    BY <1>4, <1>7, <2>1
  <2>5. (i > m \/ i \in 1..m) /\ (j > m \/ j \in 1..m)
    BY <1>2, <2>1
  <2> QED BY <2>2, <2>3, <2>4, <2>5
<1> QED BY <1>3, <1>5, <1>6, <1>7 DEF Lists

-----------------------------------------------------------------------------
(* The instance that serves.                                               *)

\* What a transaction does to the rows and their reservations: it adds finitely
\* many rows, loses none, and unless it releases an alias each code still holds
\* its short code.
SourceStep ==
  /\ IsFiniteSet(Stored' \ Stored) /\ Stored \subseteq Stored'
  /\ RowsAnchored'
  /\ NoneReleased /\ (\A s \in ShortCode : reservations'[s].released => reservations[s].released)
       => NoneReleased'

\* A transaction that keeps the rows and their short codes, and the reservations.
LEMMA KeepingStep ==
  ASSUME RowsAnchored, Stored' = Stored, UNCHANGED reservations,
         \A c \in Stored : codes'[c].short = codes[c].short
  PROVE  SourceStep
<1>1. IsFiniteSet(Stored' \ Stored)
  <2>1. Stored' \ Stored = {}
    OBVIOUS
  <2> QED BY <2>1, FS_EmptySet
<1> QED BY <1>1 DEF SourceStep, RowsAnchored, NoneReleased

\* CreateCodes gives each new row the reservation of its short code, which no
\* row held.
LEMMA CreateStep ==
  ASSUME StoreInv, RowsAnchored, NEW S \in BatchIds, NEW rows \in [S -> NewRow], CreateCodes(rows)
  PROVE  SourceStep
<1>1. /\ S \cap Stored = {} /\ Stored' = Stored \cup S
      /\ \A c \in S : codes'[c] = StoredRow(rows[c])
      /\ \A c \in Stored : codes'[c] = codes[c]
      /\ \A c \in S : reservations'[rows[c].short] = [code |-> c, released |-> FALSE]
      /\ \A s \in ShortCode : (\A c \in S : rows[c].short # s) => reservations'[s] = reservations[s]
  BY CreateEffect DEF StoreInv
<1>2. Stored' \ Stored = S /\ IsFiniteSet(S) /\ S \subseteq CodeId
  BY <1>1 DEF BatchIds
<1>3. ASSUME NEW c \in S PROVE codes'[c].short = rows[c].short /\ rows[c].short \in ShortCode
  <2>1. PICK r \in NewRow : r = rows[c]
    OBVIOUS
  <2>2. codes'[c] = StoredRow(r)
    BY <1>1, <2>1
  <2>3. StoredRow(r).short = r.short /\ r.short \in ShortCode
    BY DEF StoredRow, NewRow
  <2> QED BY <2>1, <2>2, <2>3
<1>4. \A c \in S : ShortFree(rows[c].short)
  BY InsertOk DEF CreateCodes
<1>5. \A c \in Stored : codes[c].short \in ShortCode
  BY StoredRowType DEF StoreInv, Row
<1>9. ASSUME NEW c \in S
      PROVE  reservations'[rows[c].short].code = c /\ ~reservations'[rows[c].short].released
  <2>1. reservations'[rows[c].short] = [code |-> c, released |-> FALSE]
    BY <1>1
  <2> QED BY <2>1
<1>6. ASSUME NEW s \in ShortCode
      PROVE  \/ reservations'[s] = reservations[s]
             \/ \E c \in S : reservations'[s].code = c /\ ~reservations'[s].released
  <2>1. CASE \E c \in S : rows[c].short = s
    BY <1>9, <2>1
  <2>2. CASE \A c \in S : rows[c].short # s
    BY <1>1, <2>2
  <2> QED BY <2>1, <2>2
<1>7. RowsAnchored'
  <2> SUFFICES ASSUME NEW c \in Stored' PROVE reservations'[codes'[c].short].code # NoRow
    BY DEF RowsAnchored
  <2>0. \A d \in S : d # NoRow
    BY <1>2, StoreAssumption
  <2>1. CASE c \in S
    BY <1>3, <1>9, <2>0, <2>1
  <2>2. CASE c \in Stored
    <3>1. codes'[c] = codes[c] /\ codes[c].short \in ShortCode
      BY <1>1, <1>5, <2>2
    <3>2. reservations[codes[c].short].code # NoRow
      BY <2>2 DEF RowsAnchored
    <3> QED BY <1>6, <2>0, <3>1, <3>2
  <2> QED BY <1>1, <2>1, <2>2
<1>8. ASSUME NoneReleased PROVE NoneReleased'
  <2>1. ASSUME NEW s \in ShortCode PROVE ~reservations'[s].released
    BY <1>6, <1>8 DEF NoneReleased
  <2>2. ASSUME NEW c \in Stored' PROVE reservations'[codes'[c].short].code = c
    <3>1. CASE c \in S
      BY <1>3, <1>9, <3>1
    <3>2. CASE c \in Stored
      <4>1. codes'[c] = codes[c] /\ codes[c].short \in ShortCode
        BY <1>1, <1>5, <3>2
      <4>2. reservations[codes[c].short].code = c /\ Reserved(codes[c].short)
        BY <1>8, <3>2, <4>1 DEF NoneReleased, RowsAnchored, Reserved
      <4>3. \A d \in S : rows[d].short # codes[c].short
        BY <1>4, <4>2 DEF ShortFree
      <4> QED BY <1>1, <4>1, <4>2, <4>3
    <3> QED BY <1>1, <3>1, <3>2
  <2> QED BY <2>1, <2>2 DEF NoneReleased
<1> QED BY <1>1, <1>2, <1>7, <1>8 DEF SourceStep

\* A release leaves the rows alone and names nobody else.
LEMMA ReleaseStep ==
  ASSUME StoreInv, RowsAnchored, NEW s \in ShortCode, ReleaseAlias(s)
  PROVE  SourceStep
<1>1. Stored' = Stored /\ codes' = codes /\ Reserved(s)
  BY ReleaseOk DEF ReleaseAlias, Stored
<1>2. reservations \in [ShortCode -> Reservation]
  BY DEF StoreInv, TypeOK
<1>3. /\ \A t \in ShortCode : reservations'[t].code = reservations[t].code
      /\ reservations'[s].released /\ ~reservations[s].released
  BY <1>1, <1>2 DEF ReleaseAlias, Reservation, Reserved
<1>4. \A c \in Stored : codes[c].short \in ShortCode
  BY StoredRowType DEF StoreInv, Row
<1>5. IsFiniteSet(Stored' \ Stored)
  <2>1. Stored' \ Stored = {}
    BY <1>1
  <2> QED BY <2>1, FS_EmptySet
<1>6. RowsAnchored'
  BY <1>1, <1>3, <1>4 DEF RowsAnchored
<1> QED BY <1>1, <1>3, <1>5, <1>6 DEF SourceStep

\* Every transaction is such a step.
LEMMA StoreIsSourceStep ==
  ASSUME StoreInv, RowsAnchored, StoreNext
  PROVE  SourceStep
<1>1. ASSUME NEW S \in BatchIds, NEW rows \in [S -> NewRow], CreateCodes(rows)
      PROVE  SourceStep
  BY <1>1, CreateStep
<1>2. ASSUME NEW c \in CodeId, NEW u \in User, NEW d \in Dest, NEW v \in 1..MaxVersion,
             UpdateDestination(c, u, d, v)
      PROVE  SourceStep
  <2>1. c \in Live
    BY <1>2, UpdateOk DEF UpdateDestination
  <2>2. codes[c].state \in State
    BY <2>1, StoredRowType DEF StoreInv, Live, Row
  <2>3. Stored' = Stored /\ \A x \in Stored : codes'[x].short = codes[x].short
    BY <1>2, <2>1, <2>2, AmendEffect DEF UpdateDestination
  <2> QED BY <1>2, <2>3, KeepingStep DEF UpdateDestination
<1>3. ASSUME NEW c \in CodeId, NEW u \in User, NEW st \in State, SetCodeState(c, u, st)
      PROVE  SourceStep
  <2>1. c \in Live
    BY <1>3, SetStateOk DEF SetCodeState
  <2>2. codes[c].dest \in Dest
    BY <2>1, StoredRowType DEF StoreInv, Live, Row
  <2>3. Stored' = Stored /\ \A x \in Stored : codes'[x].short = codes[x].short
    BY <1>3, <2>1, <2>2, AmendEffect DEF SetCodeState
  <2> QED BY <1>3, <2>3, KeepingStep DEF SetCodeState
<1>4. ASSUME NEW c \in CodeId, NEW u \in User, DeleteCode(c, u)
      PROVE  SourceStep
  <2>1. CASE c \in Live
    <3>1. codes[c].dest \in Dest /\ "deleted" \in State
      BY <2>1, StoredRowType DEF StoreInv, Live, Row, State
    <3>2. Stored' = Stored /\ \A x \in Stored : codes'[x].short = codes[x].short
      BY <1>4, <2>1, <3>1, AmendEffect DEF DeleteCode
    <3> QED BY <1>4, <3>2, KeepingStep DEF DeleteCode
  <2>2. CASE c \notin Live
    <3>1. Stored' = Stored /\ \A x \in Stored : codes'[x].short = codes[x].short
      BY <1>4, <2>2 DEF DeleteCode, Stored
    <3> QED BY <1>4, <3>1, KeepingStep DEF DeleteCode
  <2> QED BY <2>1, <2>2
<1>5. ASSUME NEW s \in ShortCode, ReleaseAlias(s)
      PROVE  SourceStep
  BY <1>5, ReleaseStep
<1> QED BY <1>1, <1>2, <1>3, <1>4, <1>5 DEF StoreNext

\* The list grows by the rows a transaction has created.
LEMMA ListingGrows ==
  ASSUME Listed, IsFiniteSet(Stored' \ Stored), Stored \subseteq Stored',
         order' = order \o SetToSeq(Stored' \ Stored)
  PROVE  Listed'
<1>1. PICK A, B, p, q : A = Stored /\ B = Stored' \ Stored /\ p = order /\ q = SetToSeq(B)
  OBVIOUS
<1>2. Lists(q, B)
  BY <1>1, ListingOfSet, Zenon
<1>3. p \in Seq(CodeId) /\ ToSet(p) = A /\ \A i, j \in DOMAIN p : p[i] = p[j] => i = j
  BY <1>1 DEF Listed
<1>4. Lists(p, A)
  <2>1. \A i \in 1..Len(p) : p[i] \in A
    BY <1>3 DEF ToSet
  <2>2. p \in Seq(A)
    BY <1>3, <2>1
  <2> QED BY <1>3, <2>2 DEF Lists
<1>5. A \cap B = {} /\ A \cup B = Stored' /\ order' = p \o q
  BY <1>1
<1>6. Lists(p \o q, A \cup B)
  BY <1>2, <1>4, <1>5, ListingOfBoth, Zenon
<1>7. A \cup B \subseteq CodeId
  BY <1>5 DEF Stored
<1>8. PICK r : r = p \o q
  OBVIOUS
<1>9. r \in Seq(CodeId)
  <2>1. r \in Seq(A \cup B)
    BY <1>6, <1>8 DEF Lists
  <2> QED BY <1>7, <2>1
<1>10. ToSet(r) = A \cup B /\ \A i, j \in DOMAIN r : r[i] = r[j] => i = j
  BY <1>6, <1>8 DEF Lists
<1> QED BY <1>5, <1>8, <1>9, <1>10 DEF Listed

\* A transaction on the codes keeps the source's invariant.
LEMMA ServeKeepsSource ==
  ASSUME SourceInv, Serve
  PROVE  SourceInv'
<1>1. StoreInv /\ Listed /\ RowsAnchored /\ RowsOwned /\ (~released => NoneReleased)
  BY DEF SourceInv
<1>2. /\ StoreNext /\ order' = order \o SetToSeq(Stored' \ Stored) /\ users' = users
      /\ \A c \in Stored' : codes'[c].user \in users
  BY DEF Serve
<1>3. SourceStep
  BY <1>1, <1>2, StoreIsSourceStep
<1>4. StoreInv'
  BY <1>1, <1>2, NextInv
<1>5. Listed'
  BY <1>1, <1>2, <1>3, ListingGrows DEF SourceStep
<1>6. RowsAnchored' /\ RowsOwned'
  BY <1>2, <1>3 DEF SourceStep, RowsOwned
<1>7. ASSUME ~released' PROVE NoneReleased'
  <2>1. released' = (released \/ \E s \in ShortCode :
                       reservations'[s].released /\ ~reservations[s].released)
    BY DEF Serve
  <2>2. ~released /\ \A s \in ShortCode : reservations'[s].released => reservations[s].released
    BY <1>7, <2>1
  <2> QED BY <1>1, <1>3, <2>2 DEF SourceStep
<1> QED BY <1>4, <1>5, <1>6, <1>7 DEF SourceInv

\* A user who joins, and a scan that is counted, leave the codes alone.
LEMMA SourceStays ==
  ASSUME SourceInv, UNCHANGED <<codes, reservations, order, released>>, users \subseteq users'
  PROVE  SourceInv'
<1>1. Stored' = Stored /\ Live' = Live
  BY DEF Stored, Live
<1>2. StoreInv'
  BY <1>1 DEF SourceInv, StoreInv, TypeOK, LiveHoldsReservation, ClientRefUnique, Reserved, GetCodeByClientRef
<1>3. Listed'
  BY <1>1 DEF SourceInv, Listed
<1>4. RowsAnchored' /\ RowsOwned' /\ (~released' => NoneReleased')
  BY <1>1 DEF SourceInv, RowsAnchored, RowsOwned, NoneReleased
<1> QED BY <1>2, <1>3, <1>4 DEF SourceInv

\* What the files say of each other stays true while none is written: the
\* histories only grow.
LEMMA FilesStay ==
  ASSUME FilesInv, UNCHANGED <<usersFile, codesFile, resFile>>,
         released => released', joined => joined'
  PROVE  FilesInv'
<1>1. PICK u, f, r : u = usersFile /\ f = codesFile /\ r = resFile
  OBVIOUS
<1>2. u = usersFile' /\ f = codesFile' /\ r = resFile'
  BY <1>1
<1> QED BY <1>1, <1>2 DEF FilesInv

\* What the target holds stays true while neither it nor the archive changes.
LEMMA TargetStays ==
  ASSUME TargetInv, UNCHANGED <<phase, usersFile, codesFile, resFile, rollupsFile, got>>,
         UNCHANGED <<tusers, tcodes, treservations, trollups, next>>
  PROVE  TargetInv'
<1>1. /\ Target!Stored' = Target!Stored /\ Target!StoreInit' = Target!StoreInit
      /\ ToRelease' = ToRelease /\ Truncated' = Truncated
  BY DEF Target!Stored, Target!StoreInit, ToRelease, Truncated
<1>2. \A n : Replayed(n)' = Replayed(n) /\ InState(n)' = InState(n)
  BY <1>1 DEF Replayed, InState
<1> QED BY <1>1, <1>2 DEF TargetInv

-----------------------------------------------------------------------------
(* Each action keeps the invariant.                                        *)

\* The type of the target follows from the types of its tables.
LEMMA TargetTypeStays ==
  ASSUME Target!TypeOK, UNCHANGED <<tcodes, treservations>>
  PROVE  Target!TypeOK'
  BY DEF Target!TypeOK

\* The phases the instance serves in.
LEMMA ServingPhases ==
  ASSUME Serving
  PROVE  phase \in {"serving", "walkCodes", "walkReservations", "walkRollups"} /\ during' \in {during, during + 1}
         /\ (during' # during => during < MaxDuring)
  BY DEF Serving, Writing

\* A transaction keeps the invariant: after the codes were walked it counts as a
\* move.
LEMMA ServeKeeps ==
  ASSUME ExportInv, Serve
  PROVE  ExportInv'
<1>1. ExportTypeOK /\ SourceInv /\ FilesInv /\ SnapshotInv /\ TargetInv
  BY DEF ExportInv
<1>2. /\ Serving /\ moved' = (moved \/ phase \in {"walkReservations", "walkRollups"})
      /\ released' = (released \/ \E s \in ShortCode : reservations'[s].released /\ ~reservations[s].released)
      /\ UNCHANGED <<users, rollups, joined, archiveVars, targetVars, phase>>
  BY DEF Serve
<1>3. /\ UNCHANGED <<users, rollups, joined, phase>>
      /\ UNCHANGED <<usersFile, codesFile, resFile, rollupsFile, got>>
      /\ UNCHANGED <<tusers, tcodes, treservations, trollups, next>>
  BY <1>2, Zenon DEF archiveVars, targetVars
<1>4. SourceInv'
  BY <1>1, ServeKeepsSource
<1>0. (released => released') /\ (phase \in {"walkReservations", "walkRollups"} => moved')
  BY <1>2, Zenon
<1>5. FilesInv'
  BY <1>0, <1>1, <1>3, FilesStay
<1>6. TargetInv'
  BY <1>1, <1>3, TargetStays
<1>7. /\ phase \in {"serving", "walkCodes", "walkReservations", "walkRollups"}
      /\ during' \in 0..MaxDuring
  BY <1>1, <1>2, ServingPhases, ExportAssumption DEF ExportTypeOK
<1>8. SnapshotInv'
  BY <1>0, <1>1, <1>3, <1>7 DEF SnapshotInv
<1>9. ExportTypeOK'
  <2>1. TypeOK' /\ order' \in Seq(CodeId) /\ ToSet(order') = Stored'
    BY <1>4 DEF SourceInv, StoreInv, Listed
  <2>2. Target!TypeOK'
    BY <1>1, <1>3, TargetTypeStays DEF ExportTypeOK
  <2>3. released' \in BOOLEAN /\ moved' \in BOOLEAN
    BY <1>2
  <2> QED BY <1>1, <1>3, <1>7, <2>1, <2>2, <2>3 DEF ExportTypeOK
<1>10. ImportFailureHasCause'
  BY <1>3, <1>7 DEF ImportFailureHasCause
<1> QED BY <1>4, <1>5, <1>6, <1>8, <1>9, <1>10 DEF ExportInv

\* A user may join at any time; after the users were walked the history says so.
LEMMA JoinKeeps ==
  ASSUME ExportInv, Join
  PROVE  ExportInv'
<1>1. ExportTypeOK /\ SourceInv /\ FilesInv /\ SnapshotInv /\ TargetInv
  BY DEF ExportInv
<1>2. /\ Serving /\ joined' = (joined \/ phase # "serving") /\ users \subseteq users' /\ users' \subseteq User
      /\ UNCHANGED <<storeVars, rollups, order, released, moved, archiveVars, targetVars, phase>>
  BY <1>1 DEF Join, ExportTypeOK
<1>3. /\ UNCHANGED <<codes, reservations, order, rollups, released, moved, phase>>
      /\ UNCHANGED <<usersFile, codesFile, resFile, rollupsFile, got>>
      /\ UNCHANGED <<tusers, tcodes, treservations, trollups, next>>
  BY <1>2, Zenon DEF archiveVars, targetVars, storeVars
<1>4. SourceInv'
  BY <1>1, <1>2, <1>3, SourceStays
<1>0. (joined => joined') /\ (phase = "walkCodes" => joined')
  BY <1>2
<1>5. FilesInv'
  BY <1>0, <1>1, <1>3, FilesStay
<1>6. TargetInv'
  BY <1>1, <1>3, TargetStays
<1>7. /\ phase \in {"serving", "walkCodes", "walkReservations", "walkRollups"}
      /\ during' \in 0..MaxDuring
  BY <1>1, <1>2, ServingPhases, ExportAssumption DEF ExportTypeOK
<1>8. SnapshotInv'
  BY <1>0, <1>1, <1>3, <1>7 DEF SnapshotInv, ForEachCode
<1>9. ExportTypeOK'
  <2>1. TypeOK' /\ order' \in Seq(CodeId) /\ ToSet(order') = Stored'
    BY <1>4 DEF SourceInv, StoreInv, Listed
  <2>2. Target!TypeOK'
    BY <1>1, <1>3, TargetTypeStays DEF ExportTypeOK
  <2>3. joined' \in BOOLEAN
    BY <1>2
  <2> QED BY <1>1, <1>2, <1>3, <1>7, <2>1, <2>2, <2>3 DEF ExportTypeOK
<1>10. ImportFailureHasCause'
  BY <1>3, <1>7 DEF ImportFailureHasCause
<1> QED BY <1>4, <1>5, <1>6, <1>8, <1>9, <1>10 DEF ExportInv

\* A counted scan changes the source's rollups only.
LEMMA CountKeeps ==
  ASSUME ExportInv, CountScan
  PROVE  ExportInv'
<1>1. ExportTypeOK /\ SourceInv /\ FilesInv /\ SnapshotInv /\ TargetInv
  BY DEF ExportInv
<1>2. /\ Serving
      /\ UNCHANGED <<storeVars, users, order, historyVars, archiveVars, targetVars, phase>>
  BY DEF CountScan
<1>3. /\ UNCHANGED <<codes, reservations, order, users, released, joined, moved, phase>>
      /\ UNCHANGED <<usersFile, codesFile, resFile, rollupsFile, got>>
      /\ UNCHANGED <<tusers, tcodes, treservations, trollups, next>>
  BY <1>2, Zenon DEF archiveVars, targetVars, storeVars, historyVars
<1>4. SourceInv'
  BY <1>1, <1>3, SourceStays
<1>5. FilesInv'
  BY <1>1, <1>3, FilesStay
<1>6. TargetInv'
  BY <1>1, <1>3, TargetStays
<1>7. /\ phase \in {"serving", "walkCodes", "walkReservations", "walkRollups"}
      /\ during' \in 0..MaxDuring
  BY <1>1, <1>2, ServingPhases, ExportAssumption DEF ExportTypeOK
<1>8. SnapshotInv'
  BY <1>1, <1>3, <1>7 DEF SnapshotInv, ForEachCode
<1>9. ExportTypeOK'
  <2>1. TypeOK' /\ order' \in Seq(CodeId) /\ ToSet(order') = Stored'
    BY <1>4 DEF SourceInv, StoreInv, Listed
  <2>2. Target!TypeOK'
    BY <1>1, <1>3, TargetTypeStays DEF ExportTypeOK
  <2>3. rollups' \in [CodeId -> Nat]
    <3>1. PICK c \in Stored : rollups' = [rollups EXCEPT ![c] = @ + 1]
      BY DEF CountScan
    <3>2. rollups \in [CodeId -> Nat] /\ c \in CodeId
      BY <1>1 DEF ExportTypeOK, Stored
    <3> QED BY <3>1, <3>2
  <2> QED BY <1>1, <1>3, <1>7, <2>1, <2>2, <2>3 DEF ExportTypeOK
<1>10. ImportFailureHasCause'
  BY <1>3, <1>7 DEF ImportFailureHasCause
<1> QED BY <1>4, <1>5, <1>6, <1>8, <1>9, <1>10 DEF ExportInv

\* Nothing is said of the target before the import writes a code, but that it is
\* empty.
LEMMA UntouchedStays ==
  ASSUME TargetInv, phase \in Untouched, phase' \in Untouched,
         UNCHANGED <<tcodes, treservations, next>>
  PROVE  TargetInv'
<1>1. phase' \notin Replaying /\ phase' \notin {"rollups", "done"}
  BY DEF Untouched, Replaying, Writing
<1>2. Target!StoreInit' /\ next' = 1
  BY DEF TargetInv, Target!StoreInit
<1>3. phase' # "redelete" /\ phase' # "done" /\ phase' \notin {"codes", "redelete", "aliases"}
      /\ phase' \notin {"aliases", "rollups", "done"} /\ phase' \notin Replaying \ {"redelete"}
  BY <1>1 DEF Replaying
<1> QED BY <1>1, <1>2, <1>3 DEF TargetInv

\* The type of what an export or an import leaves alone.
LEMMA SourceTypesStay ==
  ASSUME ExportTypeOK, UNCHANGED sourceVars, UNCHANGED historyVars
  PROVE  /\ TypeOK' /\ during' \in 0..MaxDuring /\ users' \subseteq User
         /\ rollups' \in [CodeId -> Nat] /\ order' \in Seq(CodeId) /\ ToSet(order') = Stored'
         /\ {released, joined, moved}' \subseteq BOOLEAN
<1>1. UNCHANGED <<codes, reservations, users, rollups, order, during>> /\ UNCHANGED <<released, joined, moved>>
  BY Zenon DEF sourceVars, historyVars
<1> QED BY <1>1 DEF ExportTypeOK, TypeOK, Stored

\* The users are walked first: from then on users.jsonl is those of the moment.
LEMMA ExportUsersKeeps ==
  ASSUME ExportInv, ExportUsers
  PROVE  ExportInv'
<1>1. ExportTypeOK /\ SourceInv /\ FilesInv /\ SnapshotInv /\ TargetInv
  BY DEF ExportInv
<1>2. /\ phase = "serving" /\ phase' = "walkCodes" /\ usersFile' = users
      /\ UNCHANGED <<sourceVars, codesFile, resFile, rollupsFile, got, targetVars, historyVars>>
  BY DEF ExportUsers, ForEachUser
<1>3. /\ UNCHANGED <<codes, reservations, users, rollups, order, during>>
      /\ UNCHANGED <<codesFile, resFile, rollupsFile, got, released, joined, moved>>
      /\ UNCHANGED <<tusers, tcodes, treservations, trollups, next>>
  BY <1>2, Zenon DEF sourceVars, targetVars, historyVars
<1>4. SourceInv'
  BY <1>1, <1>3, SourceStays
<1>5. codesFile' = <<>> /\ codesFile = <<>>
  BY <1>1, <1>2, <1>3 DEF SnapshotInv
<1>6. FilesInv'
  <2>1. DOMAIN codesFile' = {} /\ codesFile' \in Seq([id : CodeId, row : Row])
    BY <1>5
  <2>2. ~released => \A s \in ShortCode : ~resFile[s].released
    BY <1>1 DEF FilesInv
  <2> QED BY <1>3, <2>1, <2>2 DEF FilesInv
<1>7. SnapshotInv'
  BY <1>2, <1>3, <1>5 DEF SnapshotInv
<1>8. TargetInv'
  BY <1>1, <1>2, <1>3, UntouchedStays DEF Untouched, Writing
<1>9. ExportTypeOK'
  <2>1. UNCHANGED sourceVars /\ UNCHANGED historyVars
    BY <1>2
  <2>2. Target!TypeOK'
    BY <1>1, <1>3, TargetTypeStays DEF ExportTypeOK
  <2>3. phase' \in Phase
    BY <1>2 DEF Phase, Writing
  <2> QED BY <1>1, <1>2, <1>3, <2>1, <2>2, <2>3, SourceTypesStay DEF ExportTypeOK
<1>10. ImportFailureHasCause'
  BY <1>2 DEF ImportFailureHasCause
<1> QED BY <1>4, <1>6, <1>7, <1>8, <1>9, <1>10 DEF ExportInv

\* codes.jsonl, as it is walked: one line per row, client references unique; with
\* no alias released, no short code twice.
LEMMA WalkedCodes ==
  ASSUME SourceInv
  PROVE  LET f == ForEachCode IN
         /\ f \in Seq([id : CodeId, row : Row]) /\ DOMAIN f = DOMAIN order
         /\ \A i \in DOMAIN f : f[i].id = order[i] /\ f[i].row = codes[order[i]] /\ order[i] \in Stored
         /\ \A i, j \in DOMAIN f : f[i].id = f[j].id => i = j
         /\ \A i, j \in DOMAIN f : SameRef(f[i].row, f[j].row) => i = j
         /\ ~released => \A i, j \in DOMAIN f : f[i].row.short = f[j].row.short => i = j
<1>1. PICK f, o : f = ForEachCode /\ o = order
  OBVIOUS
<1>2. /\ o \in Seq(CodeId) /\ ToSet(o) = Stored /\ \A i, j \in DOMAIN o : o[i] = o[j] => i = j
      /\ StoreInv /\ (~released => NoneReleased)
  BY <1>1 DEF SourceInv, Listed
<1>3. f = [i \in DOMAIN o |-> [id |-> o[i], row |-> codes[o[i]]]]
  BY <1>1 DEF ForEachCode
<1>4. \A i \in DOMAIN o : o[i] \in Stored /\ f[i].id = o[i] /\ f[i].row = codes[o[i]]
  BY <1>2, <1>3 DEF ToSet
<1>5. \A c \in Stored : c \in CodeId /\ codes[c] \in Row
  BY <1>2, StoredRowType DEF StoreInv, Stored
<1>6. f \in Seq([id : CodeId, row : Row])
  <2>1. PICK n \in Nat : DOMAIN o = 1..n
    BY <1>2
  <2>2. \A i \in 1..n : f[i] \in [id : CodeId, row : Row]
    BY <1>3, <1>4, <1>5, <2>1
  <2>3. f \in [1..n -> [id : CodeId, row : Row]]
    BY <1>3, <2>1, <2>2
  <2>4. PICK Lines : Lines = [id : CodeId, row : Row]
    OBVIOUS
  <2>5. f \in [1..n -> Lines]
    BY <2>3, <2>4
  <2>6. f \in Seq(Lines)
    BY <2>5
  <2> QED BY <2>4, <2>6
<1>7. DOMAIN f = DOMAIN o
  BY <1>3
<1>8. ASSUME NEW i \in DOMAIN o, NEW j \in DOMAIN o, SameRef(f[i].row, f[j].row) PROVE i = j
  <2>1. PICK x, y : x = codes[o[i]] /\ y = codes[o[j]]
    OBVIOUS
  <2>2. x \in Row /\ y \in Row /\ SameRef(x, y) /\ o[i] \in Stored /\ o[j] \in Stored
    BY <1>4, <1>5, <1>8, <2>1
  <2>3. x.ref \in Ref /\ x.user \in User /\ y.ref = x.ref /\ y.user = x.user
    BY <2>2 DEF SameRef, Row
  <2>4. o[i] \in GetCodeByClientRef(x.user, x.ref) /\ o[j] \in GetCodeByClientRef(x.user, x.ref)
    BY <2>1, <2>2, <2>3 DEF GetCodeByClientRef
  <2>5. o[i] = o[j]
    BY <1>2, <2>3, <2>4 DEF StoreInv, ClientRefUnique
  <2> QED BY <1>2, <2>5
<1>9. ASSUME ~released, NEW i \in DOMAIN o, NEW j \in DOMAIN o, f[i].row.short = f[j].row.short
      PROVE  i = j
  <2>1. o[i] = o[j]
    BY <1>2, <1>4, <1>9 DEF NoneReleased
  <2> QED BY <1>2, <2>1
<1>10. \A i, j \in DOMAIN o : f[i].id = f[j].id => i = j
  BY <1>2, <1>4
<1> HIDE DEF ForEachCode
<1> QED BY <1>1, <1>4, <1>6, <1>7, <1>8, <1>9, <1>10

\* The codes are walked.
LEMMA ExportCodesKeeps ==
  ASSUME ExportInv, ExportCodes
  PROVE  ExportInv'
<1>1. ExportTypeOK /\ SourceInv /\ FilesInv /\ SnapshotInv /\ TargetInv
  BY DEF ExportInv
<1>2. /\ phase = "walkCodes" /\ phase' = "walkReservations" /\ codesFile' = ForEachCode
      /\ UNCHANGED <<sourceVars, usersFile, resFile, rollupsFile, got, targetVars, historyVars>>
  BY DEF ExportCodes
<1>3. /\ UNCHANGED <<codes, reservations, users, rollups, order, during>>
      /\ UNCHANGED <<usersFile, resFile, rollupsFile, got, released, joined, moved>>
      /\ UNCHANGED <<tusers, tcodes, treservations, trollups, next>>
  BY <1>2, Zenon DEF sourceVars, targetVars, historyVars
<1>4. SourceInv'
  BY <1>1, <1>3, SourceStays
<1>5. PICK f : f = codesFile' /\ f = ForEachCode
  BY <1>2
<1>6. /\ f \in Seq([id : CodeId, row : Row])
      /\ \A i \in DOMAIN f : \E c \in Stored : f[i].row = codes[c]
      /\ \A i, j \in DOMAIN f : f[i].id = f[j].id => i = j
      /\ \A i, j \in DOMAIN f : SameRef(f[i].row, f[j].row) => i = j
      /\ ~released => \A i, j \in DOMAIN f : f[i].row.short = f[j].row.short => i = j
  BY <1>1, <1>5, WalkedCodes
<1>7. ~joined => \A i \in DOMAIN f : f[i].row.user \in usersFile
  BY <1>1, <1>2, <1>6 DEF SourceInv, RowsOwned, SnapshotInv
<1>8. ~released => \A s \in ShortCode : ~resFile[s].released
  BY <1>1 DEF FilesInv
<1>9. FilesInv'
  BY <1>3, <1>5, <1>6, <1>7, <1>8 DEF FilesInv
<1>10. SnapshotInv'
  <2>1. ForEachCode' = ForEachCode
    BY <1>3 DEF ForEachCode
  <2> QED BY <1>2, <2>1 DEF SnapshotInv
<1>11. TargetInv'
  BY <1>1, <1>2, <1>3, UntouchedStays DEF Untouched, Writing
<1>12. ExportTypeOK'
  <2>1. UNCHANGED sourceVars /\ UNCHANGED historyVars
    BY <1>2
  <2>2. Target!TypeOK'
    BY <1>1, <1>3, TargetTypeStays DEF ExportTypeOK
  <2>3. phase' \in Phase
    BY <1>2 DEF Phase, Writing
  <2>4. next' = 1
    BY <1>1, <1>2, <1>3 DEF TargetInv, Untouched, Writing
  <2>5. next' \in 1..(Len(codesFile') + 1) /\ \A i \in DOMAIN codesFile' : codesFile'[i] \in [id : CodeId, row : Row]
    <3>1. PICK Lines : Lines = [id : CodeId, row : Row]
      OBVIOUS
    <3>2. f \in Seq(Lines)
      BY <1>6, <3>1
    <3>3. Len(f) \in Nat /\ \A i \in DOMAIN f : f[i] \in Lines
      BY <3>2
    <3>4. 1 \in 1..(Len(f) + 1)
      BY <3>3
    <3> QED BY <1>5, <2>4, <3>1, <3>3, <3>4
  <2> QED BY <1>1, <1>3, <2>1, <2>2, <2>3, <2>5, SourceTypesStay DEF ExportTypeOK
<1>13. ImportFailureHasCause'
  BY <1>2 DEF ImportFailureHasCause
<1> QED BY <1>4, <1>9, <1>10, <1>11, <1>12, <1>13 DEF ExportInv

\* The reservations are walked.
LEMMA ExportReservationsKeeps ==
  ASSUME ExportInv, ExportReservations
  PROVE  ExportInv'
<1>1. ExportTypeOK /\ SourceInv /\ FilesInv /\ SnapshotInv /\ TargetInv
  BY DEF ExportInv
<1>2. /\ phase = "walkReservations" /\ phase' = "walkRollups" /\ resFile' = reservations
      /\ UNCHANGED <<sourceVars, usersFile, codesFile, rollupsFile, got, targetVars, historyVars>>
  BY DEF ExportReservations, ForEachReservation
<1>3. /\ UNCHANGED <<codes, reservations, users, rollups, order, during>>
      /\ UNCHANGED <<usersFile, codesFile, rollupsFile, got, released, joined, moved>>
      /\ UNCHANGED <<tusers, tcodes, treservations, trollups, next>>
  BY <1>2, Zenon DEF sourceVars, targetVars, historyVars
<1>4. SourceInv'
  BY <1>1, <1>3, SourceStays
<1>5. ~released => \A s \in ShortCode : ~reservations[s].released
  BY <1>1 DEF SourceInv, NoneReleased
<1>6. FilesInv'
  <2>1. PICK f : f = codesFile /\ f = codesFile'
    BY <1>3
  <2> QED BY <1>1, <1>2, <1>3, <1>5, <2>1 DEF FilesInv
<1>7. SnapshotInv'
  <2>1. ForEachCode' = ForEachCode
    BY <1>3 DEF ForEachCode
  <2> QED BY <1>1, <1>2, <1>3, <2>1 DEF SnapshotInv
<1>8. TargetInv'
  BY <1>1, <1>2, <1>3, UntouchedStays DEF Untouched, Writing
<1>9. ExportTypeOK'
  <2>1. UNCHANGED sourceVars /\ UNCHANGED historyVars
    BY <1>2
  <2>2. Target!TypeOK'
    BY <1>1, <1>3, TargetTypeStays DEF ExportTypeOK
  <2>3. phase' \in Phase /\ resFile' \in [ShortCode -> Reservation]
    BY <1>1, <1>2 DEF Phase, Writing, ExportTypeOK, TypeOK
  <2> QED BY <1>1, <1>3, <2>1, <2>2, <2>3, SourceTypesStay DEF ExportTypeOK
<1>10. ImportFailureHasCause'
  BY <1>2 DEF ImportFailureHasCause
<1> QED BY <1>4, <1>6, <1>7, <1>8, <1>9, <1>10 DEF ExportInv

\* The rollups are walked, the archive is cut off, or the import starts: the
\* codes, the reservations and what the files say of them stay.
LEMMA ArchiveKeeps ==
  ASSUME ExportInv, ExportRollups \/ Truncate \/ ImportStart
  PROVE  ExportInv'
<1>1. ExportTypeOK /\ SourceInv /\ FilesInv /\ SnapshotInv /\ TargetInv
  BY DEF ExportInv
<1>2. /\ UNCHANGED <<codes, reservations, users, rollups, order, during>>
      /\ UNCHANGED <<usersFile, codesFile, resFile, released, joined, moved>>
      /\ UNCHANGED <<tusers, tcodes, treservations, trollups, next>>
      /\ UNCHANGED sourceVars /\ UNCHANGED historyVars
  BY Zenon DEF ExportRollups, Truncate, ImportStart, sourceVars, targetVars, historyVars, archiveVars
<1>3. SourceInv'
  BY <1>1, <1>2, SourceStays
<1>4. FilesInv'
  BY <1>1, <1>2, FilesStay
<1>5. /\ phase \in {"walkRollups", "exported"}
      /\ phase' \in {"exported", "users", "failed"}
      /\ phase' = "failed" => got' = 0
  BY DEF ExportRollups, Truncate, ImportStart, archiveVars
<1>6. SnapshotInv'
  <2>1. ForEachCode' = ForEachCode
    BY <1>2 DEF ForEachCode
  <2> QED BY <1>1, <1>2, <1>5, <2>1 DEF SnapshotInv
<1>7. TargetInv'
  <2>1. CASE phase' \in {"exported", "users"}
    BY <1>1, <1>2, <1>5, <2>1, UntouchedStays DEF Untouched, Writing
  <2>2. CASE phase' = "failed"
    BY <2>2 DEF TargetInv, Untouched, Writing, Replaying
  <2> QED BY <1>5, <2>1, <2>2
<1>8. ExportTypeOK'
  <2>1. Target!TypeOK'
    BY <1>1, <1>2, TargetTypeStays DEF ExportTypeOK
  <2>2. phase' \in Phase
    BY <1>5 DEF Phase, EntryOf
  <2>3. got' \in 0..Entries /\ rollupsFile' \in [CodeId -> Nat]
    <3>1. CASE ExportRollups
      BY <1>1, <3>1 DEF ExportRollups, ForEachRollup, ExportTypeOK
    <3>2. CASE Truncate
      BY <1>1, <3>2, ExportAssumption DEF Truncate, ExportTypeOK, Entries
    <3>3. CASE ImportStart
      BY <1>1, <3>3 DEF ImportStart, archiveVars, ExportTypeOK
    <3> QED BY <3>1, <3>2, <3>3
  <2> QED BY <1>1, <1>2, <2>1, <2>2, <2>3, SourceTypesStay DEF ExportTypeOK
<1>9. ImportFailureHasCause'
  BY <1>5 DEF ImportFailureHasCause, Truncated, Entries
<1> QED BY <1>3, <1>4, <1>6, <1>7, <1>8, <1>9 DEF ExportInv

-----------------------------------------------------------------------------
(* The import.                                                             *)

Importing == {"users", "failed"} \cup Replaying

\* An import leaves the source and the archive alone.
LEMMA ImportFrame ==
  ASSUME ExportInv, UNCHANGED <<sourceVars, archiveVars, historyVars>>,
         phase \in Importing, phase' \in Importing, Target!TypeOK',
         tusers' \subseteq User, trollups' \in [CodeId -> Nat], next' \in 1..(Len(codesFile) + 1)
  PROVE  SourceInv' /\ FilesInv' /\ SnapshotInv' /\ ExportTypeOK'
<1>1. ExportTypeOK /\ SourceInv /\ FilesInv /\ SnapshotInv
  BY DEF ExportInv
<1>2. UNCHANGED sourceVars /\ UNCHANGED archiveVars /\ UNCHANGED historyVars
  OBVIOUS
<1>3. /\ UNCHANGED <<codes, reservations, users, rollups, order, during>>
      /\ UNCHANGED <<usersFile, codesFile, resFile, rollupsFile, got, released, joined, moved>>
  BY <1>2, Zenon DEF sourceVars, archiveVars, historyVars
<1>4. SourceInv'
  BY <1>1, <1>3, SourceStays
<1>5. FilesInv'
  BY <1>1, <1>3, FilesStay
<1>6. SnapshotInv'
  <2>1. ForEachCode' = ForEachCode
    BY <1>3 DEF ForEachCode
  <2>2. phase \notin {"serving", "walkCodes", "walkReservations"} /\ phase' \notin {"serving", "walkCodes", "walkReservations"}
    BY DEF Importing, Replaying
  <2> QED BY <1>1, <1>3, <2>1, <2>2 DEF SnapshotInv
<1>7. phase' \in Phase
  BY DEF Phase, EntryOf, Importing, Replaying
<1>8. ExportTypeOK'
  BY <1>1, <1>2, <1>3, <1>7, SourceTypesStay DEF ExportTypeOK
<1> QED BY <1>4, <1>5, <1>6, <1>8

\* An import that is over, or has only moved on, leaves the target's types alone.
LEMMA TargetTypes ==
  ASSUME ExportInv
  PROVE  /\ Target!TypeOK /\ tusers \subseteq User /\ usersFile \subseteq User
         /\ trollups \in [CodeId -> Nat] /\ rollupsFile \in [CodeId -> Nat]
         /\ next \in 1..(Len(codesFile) + 1) /\ Len(codesFile) \in Nat
         /\ DOMAIN codesFile = 1..Len(codesFile) /\ got \in 0..6
         /\ \A i \in DOMAIN codesFile : codesFile[i].id \in CodeId /\ codesFile[i].row \in Row
<1>1. ExportTypeOK /\ FilesInv
  BY DEF ExportInv
<1>2. PICK Lines : Lines = [id : CodeId, row : Row]
  OBVIOUS
<1>3. codesFile \in Seq(Lines)
  BY <1>1, <1>2 DEF FilesInv
<1>4. Len(codesFile) \in Nat /\ DOMAIN codesFile = 1..Len(codesFile) /\ \A i \in DOMAIN codesFile : codesFile[i] \in Lines
  BY <1>3
<1>5. \A i \in DOMAIN codesFile : codesFile[i].id \in CodeId /\ codesFile[i].row \in Row
  BY <1>2, <1>4
<1>6. Target!TypeOK
  BY <1>1 DEF ExportTypeOK
<1> QED BY <1>1, <1>4, <1>5, <1>6 DEF ExportTypeOK, Entries

\* An entry that is cut off: the archive is truncated.
LEMMA ImportTornKeeps ==
  ASSUME ExportInv, ImportTorn
  PROVE  ExportInv'
<1>1. /\ phase \in DOMAIN EntryOf /\ got < EntryOf[phase] /\ phase' = "failed"
      /\ UNCHANGED <<sourceVars, archiveVars, historyVars>> /\ UNCHANGED targetVars
  BY Zenon DEF ImportTorn
<1>2. UNCHANGED <<tusers, tcodes, treservations, trollups, next>> /\ got' = got
  BY <1>1, Zenon DEF targetVars, archiveVars
<1>3. phase \in Importing /\ phase' \in Importing
  BY <1>1 DEF Importing, Replaying, EntryOf
<1>4. Target!TypeOK'
  BY <1>2, TargetTypes, TargetTypeStays
<1>5. SourceInv' /\ FilesInv' /\ SnapshotInv' /\ ExportTypeOK'
  BY <1>1, <1>2, <1>3, <1>4, TargetTypes, ImportFrame
<1>6. TargetInv'
  BY <1>1 DEF TargetInv, Untouched, Writing, Replaying
<1>7. ImportFailureHasCause'
  <2>1. EntryOf[phase] \in {2, 4, 5, 6} /\ got \in 0..6
    BY <1>1, TargetTypes DEF EntryOf
  <2>2. got' < 6
    BY <1>1, <1>2, <2>1
  <2> QED BY <2>2 DEF ImportFailureHasCause, Truncated, Entries
<1> QED BY <1>5, <1>6, <1>7 DEF ExportInv

\* The users are created; no line of codes.jsonl has been read.
LEMMA ImportUsersKeeps ==
  ASSUME ExportInv, ImportUsers
  PROVE  ExportInv'
<1>1. /\ phase = "users" /\ phase' = "codes"
      /\ tusers' = IF got >= EntryOf.users THEN usersFile ELSE {}
      /\ UNCHANGED <<sourceVars, archiveVars, historyVars>>
      /\ UNCHANGED <<tcodes, treservations, trollups, next>>
  BY Zenon DEF ImportUsers
<1>2. UNCHANGED <<usersFile, codesFile, resFile, rollupsFile, got>>
  BY <1>1, Zenon DEF archiveVars
<1>3. phase \in Importing /\ phase' \in Importing
  BY <1>1 DEF Importing, Replaying
<1>4. Target!TypeOK' /\ tusers' \subseteq User
  BY <1>1, TargetTypes, TargetTypeStays
<1>5. SourceInv' /\ FilesInv' /\ SnapshotInv' /\ ExportTypeOK'
  BY <1>1, <1>3, <1>4, TargetTypes, ImportFrame
<1>6. next' = 1 /\ \A c \in CodeId : tcodes'[c] = NoRow
  BY <1>1 DEF ExportInv, TargetInv, Untouched, Target!StoreInit
<1>7. \A s \in ShortCode : treservations'[s].code = NoRow /\ ~treservations'[s].released
  <2>1. treservations' = [s \in ShortCode |-> [code |-> NoRow, released |-> FALSE]]
    BY <1>1 DEF ExportInv, TargetInv, Untouched, Target!StoreInit
  <2> QED BY <2>1
<1>8. Replayed(next - 1)' /\ InState(next - 1)'
  <2>1. Target!Stored' = {} /\ 1..(next' - 1) = {}
    BY <1>6 DEF Target!Stored
  <2> QED BY <1>7, <2>1 DEF Replayed, InState
<1>9. ~Truncated' => tusers' = usersFile'
  <2>1. got \in 0..6 /\ EntryOf.users = 2
    BY TargetTypes DEF EntryOf
  <2> QED BY <1>1, <1>2, <2>1 DEF Truncated, Entries
<1>10. TargetInv'
  BY <1>1, <1>7, <1>8, <1>9 DEF TargetInv, Untouched, Writing, Replaying
<1>11. ImportFailureHasCause'
  BY <1>1 DEF ImportFailureHasCause
<1> QED BY <1>5, <1>10, <1>11 DEF ExportInv

\* What the store is asked to create for a line of codes.jsonl.
LineRows(line) == [c \in {line.id} |-> Recreated(line.row)]

\* What creating the row of line w under id c leaves in the target.
Created(c, w) ==
  /\ c \notin Target!Stored /\ ~Target!Reserved(w.short)
  /\ tcodes' = [d \in CodeId |-> IF d = c THEN Target!StoredRow(Recreated(w)) ELSE tcodes[d]]
  /\ \A s \in ShortCode : s # w.short => treservations'[s] = treservations[s]
  /\ treservations'[w.short].code = c /\ ~treservations'[w.short].released

\* A row of the archive is recreated as a row that carries the same data, in the
\* same state but for a deleted one.
LEMMA RecreatedRow ==
  ASSUME NEW w \in Row
  PROVE  /\ Recreated(w) \in NewRow
         /\ Target!StoredRow(Recreated(w)) \in Row
         /\ Target!StoredRow(Recreated(w)) # NoRow
         /\ Matches(Target!StoredRow(Recreated(w)), w)
         /\ Target!StoredRow(Recreated(w)).state = IF w.state = "deleted" THEN "disabled" ELSE w.state
<1>1. PICK st : st = IF w.state = "deleted" THEN "disabled" ELSE w.state
  OBVIOUS
<1>2. st \in {"active", "disabled"} /\ w.short \in ShortCode /\ w.user \in User /\ w.mode \in Mode
      /\ w.ref \in Ref \cup {NoRef} /\ w.dest \in Dest
  BY <1>1 DEF Row, State
<1>3. Recreated(w) = [short |-> w.short, user |-> w.user, mode |-> w.mode, ref |-> w.ref, dest |-> w.dest, state |-> st]
  BY <1>1 DEF Recreated
<1>4. Recreated(w) \in NewRow
  BY <1>2, <1>3 DEF NewRow
<1>5. PICK r : r = Target!StoredRow(Recreated(w))
  OBVIOUS
<1>6. r = [short |-> w.short, user |-> w.user, mode |-> w.mode, ref |-> w.ref, dest |-> w.dest,
           state |-> st, version |-> 1]
  BY <1>3, <1>5 DEF Target!StoredRow
<1>7. r \in Row
  BY <1>2, <1>6 DEF Row, State
<1>8. r # NoRow
  BY <1>7, StoreAssumption
<1>9. Matches(r, w) /\ r.state = st
  BY <1>6 DEF Matches
<1> QED BY <1>1, <1>4, <1>5, <1>7, <1>8, <1>9

\* CreateCodes of one line.
LEMMA CreateLine ==
  ASSUME Target!TypeOK, NEW c \in CodeId, NEW w \in Row, NEW rows,
         rows = [d \in {c} |-> Recreated(w)], Target!CreateCodes(rows)
  PROVE  Created(c, w) /\ Target!TypeOK'
<1>1. DOMAIN rows = {c} /\ rows[c] = Recreated(w)
  OBVIOUS
<1>2. PICK k \in ShortCode : k = w.short /\ rows[c].short = k
  <2>1. Recreated(w).short = w.short /\ w.short \in ShortCode
    BY DEF Recreated, Row
  <2> QED BY <1>1, <2>1
<1>3. /\ DOMAIN rows \cap Target!Stored = {} /\ Target!InsertErrors(rows) = {}
      /\ tcodes' = [d \in CodeId |-> IF d \in DOMAIN rows THEN Target!StoredRow(rows[d]) ELSE tcodes[d]]
      /\ treservations' =
           [s \in ShortCode |->
              IF \E d \in DOMAIN rows : rows[d].short = s
              THEN [code |-> CHOOSE d \in DOMAIN rows : rows[d].short = s, released |-> FALSE]
              ELSE treservations[s]]
  BY Zenon DEF Target!CreateCodes
<1>4. c \notin Target!Stored
  BY <1>1, <1>3
<1>5. ~Target!Reserved(k)
  <2>1. "alias_taken" \notin Target!InsertErrors(rows)
    BY <1>3
  <2>2. ~ \/ \E d \in DOMAIN rows : ~Target!ShortFree(rows[d].short)
          \/ \E d, e \in DOMAIN rows : d # e /\ rows[d].short = rows[e].short
    BY <2>1 DEF Target!InsertErrors
  <2>3. Target!ShortFree(rows[c].short)
    BY <1>1, <2>2
  <2> QED BY <1>2, <2>3 DEF Target!ShortFree
<1>6. tcodes' = [d \in CodeId |-> IF d = c THEN Target!StoredRow(Recreated(w)) ELSE tcodes[d]]
  BY <1>1, <1>3
<1>7. (CHOOSE d \in DOMAIN rows : rows[d].short = k) = c
  BY <1>1, <1>2
<1>8. treservations'[k] = [code |-> c, released |-> FALSE]
  BY <1>1, <1>2, <1>3, <1>7
<1>9. \A s \in ShortCode : s # k => treservations'[s] = treservations[s]
  BY <1>1, <1>2, <1>3
<1>10. treservations'[k].code = c /\ ~treservations'[k].released
  BY <1>8
<1>11. Created(c, w)
  BY <1>2, <1>4, <1>5, <1>6, <1>9, <1>10 DEF Created
<1>12. tcodes' \in [CodeId -> Row \cup {NoRow}]
  BY <1>6, RecreatedRow DEF Target!TypeOK, Target!Row, Row, Target!Mode, Mode, Target!State, State
<1>13. treservations' \in [ShortCode -> Target!Reservation]
  <2>1. PICK v : v = [code |-> c, released |-> FALSE]
    OBVIOUS
  <2>2. v \in Target!Reservation
    BY <2>1 DEF Target!Reservation
  <2>3. DOMAIN treservations' = ShortCode /\ treservations \in [ShortCode -> Target!Reservation]
    BY <1>3 DEF Target!TypeOK
  <2>4. treservations' = [s \in ShortCode |-> treservations'[s]]
    BY <1>3
  <2>5. \A s \in ShortCode : treservations'[s] \in Target!Reservation
    BY <1>8, <1>9, <2>1, <2>2, <2>3
  <2> QED BY <2>4, <2>5
<1>14. Target!Row = Row
  BY DEF Target!Row, Row, Target!Mode, Mode, Target!State, State
<1> QED BY <1>11, <1>12, <1>13, <1>14 DEF Target!TypeOK

\* After one more line the target holds one more line.
LEMMA ReplayOne ==
  ASSUME NEW n \in Nat \ {0}, Replayed(n - 1), InState(n - 1),
         \A i \in 1..n : codesFile[i].id \in CodeId /\ codesFile[i].row \in Row,
         \A i, j \in 1..n : codesFile[i].id = codesFile[j].id => i = j,
         NEW c, NEW w, c = codesFile[n].id, w = codesFile[n].row, Created(c, w),
         w.user \in tusers, UNCHANGED <<codesFile, tusers>>,
         \A s \in ShortCode : ~treservations[s].released
  PROVE  /\ Replayed(n)' /\ InState(n - 1)'
         /\ tcodes'[c].state = IF w.state = "deleted" THEN "disabled" ELSE w.state
         /\ \A s \in ShortCode : ~treservations'[s].released
<1>0. PICK f, u : f = codesFile /\ f = codesFile' /\ u = tusers /\ u = tusers'
  OBVIOUS
<1>1. n \in 1..n /\ 1..n = (1..(n - 1)) \cup {n} /\ n \notin 1..(n - 1)
  OBVIOUS
<1>2. c \in CodeId /\ w \in Row /\ w.short \in ShortCode
  BY <1>1 DEF Row
<1>3. \A i \in 1..(n - 1) : f[i].id \in CodeId /\ f[i].id # c /\ f[i].row \in Row
  BY <1>0, <1>1
<1>4. /\ Target!Stored = {f[i].id : i \in 1..(n - 1)}
      /\ \A i \in 1..(n - 1) : Matches(tcodes[f[i].id], f[i].row) /\ f[i].row.user \in u
                               /\ treservations[f[i].row.short].code = f[i].id
      /\ \A s \in ShortCode : treservations[s].code # NoRow => \E i \in 1..(n - 1) : f[i].row.short = s
      /\ \A i \in 1..(n - 1) : tcodes[f[i].id].state = f[i].row.state
  BY <1>0 DEF Replayed, InState
<1>5. PICK r : r = Target!StoredRow(Recreated(w))
  OBVIOUS
<1>6. r # NoRow /\ Matches(r, w) /\ r.state = IF w.state = "deleted" THEN "disabled" ELSE w.state
  BY <1>2, <1>5, RecreatedRow
<1>7. tcodes'[c] = r /\ \A d \in CodeId : d # c => tcodes'[d] = tcodes[d]
  BY <1>2, <1>5 DEF Created
<1>8. Target!Stored' = Target!Stored \cup {c}
  BY <1>2, <1>6, <1>7 DEF Target!Stored
<1>9. Target!Stored' = {f[i].id : i \in 1..n}
  <2>1. {f[i].id : i \in 1..n} = {f[i].id : i \in 1..(n - 1)} \cup {f[n].id}
    BY <1>1
  <2> QED BY <1>0, <1>4, <1>8, <2>1
<1>10. \A i \in 1..(n - 1) : f[i].row.short # w.short
  <2>1. treservations[w.short].code = NoRow
    BY <1>2 DEF Created, Target!Reserved
  <2> QED BY <1>3, <1>4, <2>1, StoreAssumption
<1>11. ASSUME NEW i \in 1..n
       PROVE  Matches(tcodes'[f[i].id], f[i].row) /\ f[i].row.user \in u
              /\ treservations'[f[i].row.short].code = f[i].id
  <2>1. CASE i = n
    BY <1>0, <1>6, <1>7, <2>1 DEF Created
  <2>2. CASE i \in 1..(n - 1)
    <3>1. f[i].row.short \in ShortCode /\ f[i].row.short # w.short
      BY <1>3, <1>10, <2>2 DEF Row
    <3>2. treservations'[f[i].row.short] = treservations[f[i].row.short]
      BY <3>1 DEF Created
    <3>3. tcodes'[f[i].id] = tcodes[f[i].id]
      BY <1>3, <1>7, <2>2
    <3> QED BY <1>4, <2>2, <3>2, <3>3
  <2> QED BY <1>1, <2>1, <2>2
<1>12. ASSUME NEW s \in ShortCode, treservations'[s].code # NoRow
       PROVE  \E i \in 1..n : f[i].row.short = s
  <2>1. CASE s = w.short
    BY <1>0, <1>1, <2>1
  <2>2. CASE s # w.short
    BY <1>1, <1>4, <1>12, <2>2 DEF Created
  <2> QED BY <2>1, <2>2
<1>13. \A i \in 1..(n - 1) : tcodes'[f[i].id].state = f[i].row.state
  BY <1>3, <1>4, <1>7
<1>14. \A s \in ShortCode : ~treservations'[s].released
  BY DEF Created
<1>15. Replayed(n)'
  BY <1>0, <1>9, <1>11, <1>12 DEF Replayed
<1>16. InState(n - 1)'
  BY <1>0, <1>13 DEF InState
<1> QED BY <1>6, <1>7, <1>14, <1>15, <1>16

\* With no alias released, nobody joined and the archive whole, the target takes
\* every line.
LEMMA LineTaken ==
  ASSUME ExportInv, phase = "codes", next <= Len(codesFile), ~released, ~joined, ~Truncated,
         NEW rows, rows = LineRows(codesFile[next])
  PROVE  Target!InsertErrors(rows) = {} /\ codesFile[next].row.user \in tusers
<1>1. PICK n, f : n = next /\ f = codesFile
  OBVIOUS
<1>2. /\ n \in Nat \ {0} /\ n \in DOMAIN f /\ n \notin 1..(n - 1) /\ 1..(n - 1) \subseteq DOMAIN f
      /\ \A i \in DOMAIN f : f[i].id \in CodeId /\ f[i].row \in Row
  BY <1>1, TargetTypes
<1>3. /\ \A i, j \in DOMAIN f : SameRef(f[i].row, f[j].row) => i = j
      /\ \A i, j \in DOMAIN f : f[i].row.short = f[j].row.short => i = j
      /\ f[n].row.user \in usersFile
  BY <1>1, <1>2 DEF ExportInv, FilesInv
<1>4. /\ Target!Stored = {f[i].id : i \in 1..(n - 1)}
      /\ \A i \in 1..(n - 1) : Matches(tcodes[f[i].id], f[i].row)
      /\ \A s \in ShortCode : treservations[s].code # NoRow => \E i \in 1..(n - 1) : f[i].row.short = s
      /\ tusers = usersFile
  BY <1>1 DEF ExportInv, TargetInv, Replaying, Replayed
<1>5. PICK w \in Row : w = f[n].row
  BY <1>2
<1>6. PICK c : c = f[n].id
  OBVIOUS
<1>7. DOMAIN rows = {c} /\ rows[c] = Recreated(w)
  BY <1>1, <1>5, <1>6 DEF LineRows
<1>8. rows[c].short = w.short /\ rows[c].user = w.user /\ rows[c].ref = w.ref /\ w.short \in ShortCode
  BY <1>7 DEF Recreated, Row
<1>9. Target!ShortFree(w.short)
  <2>1. ~Target!Reserved(w.short)
    BY <1>2, <1>3, <1>4, <1>5, <1>8 DEF Target!Reserved
  <2>2. ASSUME NEW d \in Target!Live PROVE tcodes[d].short # w.short
    <3>1. PICK i \in 1..(n - 1) : d = f[i].id
      BY <1>4 DEF Target!Live
    <3> QED BY <1>2, <1>3, <1>4, <1>5, <3>1 DEF Matches
  <2> QED BY <2>1, <2>2 DEF Target!ShortFree
<1>10. Target!RefFree(w.user, w.ref)
  <2>1. ASSUME w.ref # NoRef, NEW d \in Target!GetCodeByClientRef(w.user, w.ref) PROVE FALSE
    <3>1. d \in Target!Stored /\ tcodes[d].user = w.user /\ tcodes[d].ref = w.ref
      BY <2>1 DEF Target!GetCodeByClientRef
    <3>2. PICK i \in 1..(n - 1) : d = f[i].id
      BY <1>4, <3>1
    <3>3. SameRef(f[i].row, f[n].row)
      BY <1>4, <1>5, <2>1, <3>1, <3>2 DEF Matches, SameRef
    <3> QED BY <1>2, <1>3, <3>3
  <2> QED BY <2>1 DEF Target!RefFree
<1>11. \A d \in DOMAIN rows : d = c
  BY <1>7
<1>12. ASSUME NEW e \in Target!InsertErrors(rows) PROVE FALSE
  <2>1. CASE e = "alias_taken"
    <3>1. \/ \E d \in DOMAIN rows : ~Target!ShortFree(rows[d].short)
          \/ \E d, g \in DOMAIN rows : d # g /\ rows[d].short = rows[g].short
      BY <1>12, <2>1 DEF Target!InsertErrors
    <3> QED BY <1>8, <1>9, <1>11, <3>1
  <2>2. CASE e = "client_ref_taken"
    <3>1. \/ \E d \in DOMAIN rows : ~Target!RefFree(rows[d].user, rows[d].ref)
          \/ \E d, g \in DOMAIN rows : d # g /\ Target!SameRef(rows[d], rows[g])
      BY <1>12, <2>2 DEF Target!InsertErrors
    <3> QED BY <1>8, <1>10, <1>11, <3>1
  <2>3. e \in {"alias_taken", "client_ref_taken"}
    BY <1>12 DEF Target!InsertErrors
  <2> QED BY <2>1, <2>2, <2>3
<1> QED BY <1>1, <1>3, <1>4, <1>12

\* A line of codes.jsonl is replayed, or refused for a cause.
LEMMA ImportCodeKeeps ==
  ASSUME ExportInv, ImportCode
  PROVE  ExportInv'
<1>1. PICK rows, line : line = codesFile[next] /\ rows = LineRows(line)
  OBVIOUS
<1>2. /\ phase = "codes" /\ next <= Len(codesFile)
      /\ UNCHANGED <<sourceVars, archiveVars, historyVars>> /\ UNCHANGED <<tusers, trollups>>
  BY Zenon DEF ImportCode
<1>3. \/ /\ ~(Target!InsertErrors(rows) # {} \/ line.row.user \notin tusers)
         /\ Target!CreateCodes(rows)
         /\ IF line.row.state = "deleted" THEN phase' = "redelete" /\ UNCHANGED next
            ELSE next' = next + 1 /\ UNCHANGED phase
      \/ /\ Target!InsertErrors(rows) # {} \/ line.row.user \notin tusers
         /\ phase' = "failed"
         /\ UNCHANGED <<tcodes, treservations, next>>
  BY <1>1, Zenon DEF ImportCode, LineRows
<1>4. UNCHANGED <<usersFile, codesFile, resFile, rollupsFile, got, released, joined, moved>>
  BY <1>2, Zenon DEF archiveVars, historyVars
<1>5. phase \in Importing
  BY <1>2 DEF Importing, Replaying
<1>6. CASE /\ line.row.user \in tusers /\ Target!CreateCodes(rows)
           /\ IF line.row.state = "deleted" THEN phase' = "redelete" /\ UNCHANGED next
              ELSE next' = next + 1 /\ UNCHANGED phase
  <2>1. PICK n, c, w : n = next /\ c = codesFile[n].id /\ w = codesFile[n].row
    OBVIOUS
  <2>2. /\ n \in Nat \ {0} /\ c \in CodeId /\ w \in Row /\ n <= Len(codesFile) /\ Len(codesFile) \in Nat
        /\ \A i \in 1..n : codesFile[i].id \in CodeId /\ codesFile[i].row \in Row
        /\ 1..n \subseteq DOMAIN codesFile
    BY <1>2, <2>1, TargetTypes
  <2>3. Created(c, w) /\ Target!TypeOK'
    <3>1. rows = [d \in {c} |-> Recreated(w)]
      BY <1>1, <2>1 DEF LineRows
    <3> QED BY <1>6, <2>2, <3>1, TargetTypes, CreateLine
  <2>4. /\ Replayed(n - 1) /\ InState(n - 1) /\ \A s \in ShortCode : ~treservations[s].released
        /\ \A i, j \in 1..n : codesFile[i].id = codesFile[j].id => i = j
    BY <1>2, <2>1, <2>2 DEF ExportInv, TargetInv, FilesInv, Replaying
  <2>5. /\ Replayed(n)' /\ InState(n - 1)'
        /\ tcodes'[c].state = IF w.state = "deleted" THEN "disabled" ELSE w.state
        /\ \A s \in ShortCode : ~treservations'[s].released
    BY <1>1, <1>2, <1>4, <1>6, <2>1, <2>2, <2>3, <2>4, ReplayOne
  <2>6. ~Truncated' => tusers' = usersFile'
    BY <1>2, <1>4 DEF ExportInv, TargetInv, Replaying, Truncated
  <2>7. CASE w.state = "deleted"
    <3>1. phase' = "redelete" /\ next' = n /\ next' \in 1..(Len(codesFile) + 1)
      BY <1>1, <1>6, <2>1, <2>2, <2>7
    <3>2. SourceInv' /\ FilesInv' /\ SnapshotInv' /\ ExportTypeOK'
      BY <1>2, <1>5, <2>3, <3>1, TargetTypes, ImportFrame DEF Importing, Replaying
    <3>3. Replayed(next)' /\ InState(next - 1)'
      BY <2>5, <3>1 DEF Replayed, InState
    <3>4. codesFile'[next'].row.state = "deleted" /\ tcodes'[codesFile'[next'].id].state = "disabled"
      BY <1>4, <2>1, <2>5, <2>7, <3>1
    <3>5. next' <= Len(codesFile')
      BY <1>4, <2>2, <3>1
    <3>6. TargetInv'
      BY <2>5, <2>6, <3>1, <3>3, <3>4, <3>5 DEF TargetInv, Untouched, Writing, Replaying
    <3>7. ImportFailureHasCause'
      BY <3>1 DEF ImportFailureHasCause
    <3> QED BY <3>2, <3>6, <3>7 DEF ExportInv
  <2>8. CASE w.state # "deleted"
    <3>1. phase' = "codes" /\ next' = n + 1 /\ next' \in 1..(Len(codesFile) + 1) /\ next' - 1 = n
      BY <1>1, <1>2, <1>6, <2>1, <2>2, <2>8
    <3>2. SourceInv' /\ FilesInv' /\ SnapshotInv' /\ ExportTypeOK'
      BY <1>2, <1>5, <2>3, <3>1, TargetTypes, ImportFrame DEF Importing, Replaying
    <3>3. InState(n)'
      <4>1. 1..n = (1..(n - 1)) \cup {n}
        BY <2>2
      <4>2. tcodes'[codesFile'[n].id].state = codesFile'[n].row.state
        BY <1>4, <2>1, <2>5, <2>8
      <4> QED BY <2>5, <4>1, <4>2 DEF InState
    <3>4. Replayed(next - 1)' /\ InState(next - 1)'
      BY <2>5, <3>1, <3>3 DEF Replayed, InState
    <3>5. TargetInv'
      BY <2>5, <2>6, <3>1, <3>4 DEF TargetInv, Untouched, Writing, Replaying
    <3>6. ImportFailureHasCause'
      BY <3>1 DEF ImportFailureHasCause
    <3> QED BY <3>2, <3>5, <3>6 DEF ExportInv
  <2> QED BY <2>7, <2>8
<1>7. CASE /\ Target!InsertErrors(rows) # {} \/ line.row.user \notin tusers
           /\ phase' = "failed" /\ UNCHANGED <<tcodes, treservations, next>>
  <2>1. Target!TypeOK'
    BY <1>7, TargetTypes, TargetTypeStays
  <2>2. SourceInv' /\ FilesInv' /\ SnapshotInv' /\ ExportTypeOK'
    BY <1>2, <1>5, <1>7, <2>1, TargetTypes, ImportFrame DEF Importing
  <2>3. TargetInv'
    BY <1>7 DEF TargetInv, Untouched, Writing, Replaying
  <2>4. released \/ joined \/ Truncated
    BY <1>1, <1>2, <1>7, LineTaken
  <2>5. ImportFailureHasCause'
    BY <1>4, <2>4 DEF ImportFailureHasCause, Truncated
  <2> QED BY <2>2, <2>3, <2>5 DEF ExportInv
<1> QED BY <1>3, <1>6, <1>7

\* A deleted row is deleted again: the line is in the state the file gives.
LEMMA ImportRedeleteKeeps ==
  ASSUME ExportInv, ImportRedelete
  PROVE  ExportInv'
<1>1. PICK n, c, w : n = next /\ c = codesFile[n].id /\ w = codesFile[n].row
  OBVIOUS
<1>2. /\ phase = "redelete" /\ Target!DeleteCode(c, w.user) /\ next' = n + 1 /\ phase' = "codes"
      /\ UNCHANGED <<sourceVars, archiveVars, historyVars>> /\ UNCHANGED <<tusers, trollups>>
  BY <1>1, Zenon DEF ImportRedelete
<1>3. UNCHANGED <<usersFile, codesFile, resFile, rollupsFile, got>>
  BY <1>2, Zenon DEF archiveVars
<1>4. /\ InState(n - 1) /\ Replayed(n) /\ n <= Len(codesFile) /\ w.state = "deleted" /\ tcodes[c].state = "disabled"
      /\ \A s \in ShortCode : ~treservations[s].released
      /\ ~Truncated => tusers = usersFile
      /\ \A i, j \in DOMAIN codesFile : codesFile[i].id = codesFile[j].id => i = j
  BY <1>1, <1>2 DEF ExportInv, TargetInv, FilesInv, Replaying
<1>5. /\ n \in Nat \ {0} /\ n \in 1..n /\ Len(codesFile) \in Nat /\ 1..n \subseteq DOMAIN codesFile
      /\ \A i \in 1..n : codesFile[i].id \in CodeId /\ codesFile[i].row \in Row
      /\ 1..n = (1..(n - 1)) \cup {n} /\ n \notin 1..(n - 1)
  BY <1>1, <1>4, TargetTypes
<1>6. c \in Target!Stored /\ c \in CodeId
  BY <1>1, <1>4, <1>5 DEF Replayed
<1>7. c \in Target!Live
  BY <1>4, <1>6 DEF Target!Live
<1>8. PICK r : r = Target!Amended(tcodes[c], tcodes[c].dest, "deleted")
  OBVIOUS
<1>9. tcodes' = [tcodes EXCEPT ![c] = r] /\ treservations' = treservations
  BY <1>2, <1>7, <1>8 DEF Target!DeleteCode
<1>10. tcodes \in [CodeId -> Target!Row \cup {NoRow}] /\ tcodes[c] \in Target!Row
  BY <1>6, TargetTypes DEF Target!TypeOK, Target!Stored
<1>11. r \in Target!Row /\ r.state = "deleted" /\ Matches(r, w)
  <2>1. PICK o \in Target!Row : o = tcodes[c]
    BY <1>10
  <2>2. r = [short |-> o.short, user |-> o.user, mode |-> o.mode, ref |-> o.ref, dest |-> o.dest,
             state |-> "deleted", version |-> o.version + 1]
    BY <1>8, <2>1 DEF Target!Amended
  <2>3. Matches(o, w)
    BY <1>1, <1>4, <1>5, <2>1 DEF Replayed
  <2>4. r \in Target!Row /\ r.state = "deleted"
    BY <2>2 DEF Target!Row, Target!State
  <2>5. Matches(r, w)
    BY <2>2, <2>3 DEF Matches
  <2> QED BY <2>4, <2>5
<1>12. Target!TypeOK'
  BY <1>6, <1>9, <1>10, <1>11, TargetTypes DEF Target!TypeOK
<1>13. tcodes'[c] = r /\ \A d \in CodeId : d # c => tcodes'[d] = tcodes[d]
  BY <1>6, <1>9, <1>10
<1>14. next' \in 1..(Len(codesFile) + 1) /\ next' - 1 = n
  BY <1>2, <1>4, <1>5
<1>15. SourceInv' /\ FilesInv' /\ SnapshotInv' /\ ExportTypeOK'
  BY <1>2, <1>12, <1>14, TargetTypes, ImportFrame DEF Importing, Replaying
<1>16. r # NoRow
  <2>1. Target!Row = Row
    BY DEF Target!Row, Row, Target!Mode, Mode, Target!State, State
  <2> QED BY <1>11, <2>1, StoreAssumption
<1>17. Target!Stored' = Target!Stored
  BY <1>6, <1>13, <1>16 DEF Target!Stored
<1>18. PICK f, u : f = codesFile /\ f = codesFile' /\ u = tusers /\ u = tusers'
  BY <1>2, <1>3
<1>19. \A i \in 1..n : Matches(tcodes'[f[i].id], f[i].row)
  <2> SUFFICES ASSUME NEW i \in 1..n PROVE Matches(tcodes'[f[i].id], f[i].row)
    OBVIOUS
  <2>1. CASE f[i].id = c
    <3>1. i = n
      BY <1>1, <1>4, <1>5, <1>18, <2>1
    <3> QED BY <1>1, <1>11, <1>13, <1>18, <3>1
  <2>2. CASE f[i].id # c
    BY <1>4, <1>5, <1>13, <1>18, <2>2 DEF Replayed
  <2> QED BY <2>1, <2>2
<1>20. Replayed(n)'
  <2>1. /\ Target!Stored' = {f[i].id : i \in 1..n}
        /\ \A i \in 1..n : f[i].row.user \in u /\ treservations'[f[i].row.short].code = f[i].id
        /\ \A s \in ShortCode : treservations'[s].code # NoRow => \E i \in 1..n : f[i].row.short = s
    BY <1>4, <1>9, <1>17, <1>18 DEF Replayed
  <2> QED BY <1>18, <1>19, <2>1 DEF Replayed
<1>21. InState(n)'
  <2>1. \A i \in 1..(n - 1) : tcodes'[f[i].id].state = f[i].row.state
    <3> SUFFICES ASSUME NEW i \in 1..(n - 1) PROVE tcodes'[f[i].id].state = f[i].row.state
      OBVIOUS
    <3>1. i \in 1..n /\ i # n /\ i \in DOMAIN codesFile /\ n \in DOMAIN codesFile
      BY <1>5
    <3>2. f[i].id # c /\ f[i].id \in CodeId
      BY <1>1, <1>4, <1>5, <1>18, <3>1
    <3> QED BY <1>4, <1>13, <1>18, <3>2 DEF InState
  <2>2. tcodes'[f[n].id].state = f[n].row.state
    BY <1>1, <1>4, <1>11, <1>13, <1>18
  <2> QED BY <1>5, <1>18, <2>1, <2>2 DEF InState
<1>22. Replayed(next - 1)' /\ InState(next - 1)'
  BY <1>14, <1>20, <1>21 DEF Replayed, InState
<1>23. ~Truncated' => tusers' = usersFile'
  BY <1>2, <1>3, <1>4 DEF Truncated
<1>24. TargetInv'
  BY <1>2, <1>4, <1>9, <1>22, <1>23 DEF TargetInv, Untouched, Writing, Replaying
<1>25. ImportFailureHasCause'
  BY <1>2 DEF ImportFailureHasCause
<1> QED BY <1>15, <1>24, <1>25 DEF ExportInv

\* With the archive whole, the codes are done when every line has been replayed.
LEMMA ImportCodesDoneKeeps ==
  ASSUME ExportInv, ImportCodesDone
  PROVE  ExportInv'
<1>1. /\ phase = "codes" /\ phase' = "aliases"
      /\ IF got >= EntryOf.codes THEN next > Len(codesFile) ELSE next = 1
      /\ UNCHANGED <<sourceVars, archiveVars, historyVars>> /\ UNCHANGED targetVars
  BY Zenon DEF ImportCodesDone
<1>2. /\ UNCHANGED <<usersFile, codesFile, resFile, rollupsFile, got>>
      /\ UNCHANGED <<tusers, tcodes, treservations, trollups, next>>
  BY <1>1, Zenon DEF archiveVars, targetVars
<1>3. Target!TypeOK'
  BY <1>2, TargetTypes, TargetTypeStays
<1>4. SourceInv' /\ FilesInv' /\ SnapshotInv' /\ ExportTypeOK'
  BY <1>1, <1>2, <1>3, TargetTypes, ImportFrame DEF Importing, Replaying
<1>5. /\ InState(next - 1) /\ Replayed(next - 1) /\ \A s \in ShortCode : ~treservations[s].released
      /\ ~Truncated => tusers = usersFile
  BY <1>1 DEF ExportInv, TargetInv, Replaying
<1>6. ~Truncated => next = Len(codesFile) + 1
  <2>1. EntryOf.codes = 4 /\ got \in 0..6 /\ next \in 1..(Len(codesFile) + 1) /\ Len(codesFile) \in Nat
    BY TargetTypes DEF EntryOf
  <2> QED BY <1>1, <2>1 DEF Truncated, Entries
<1>7. Target!Stored' = Target!Stored
  BY <1>2 DEF Target!Stored
<1>8. Replayed(next - 1)' /\ InState(next - 1)'
  BY <1>2, <1>5, <1>7 DEF Replayed, InState
<1>9. TargetInv'
  BY <1>1, <1>2, <1>5, <1>6, <1>8 DEF TargetInv, Untouched, Writing, Replaying, Truncated
<1>10. ImportFailureHasCause'
  BY <1>1 DEF ImportFailureHasCause
<1> QED BY <1>4, <1>9, <1>10 DEF ExportInv

\* The releases mark the reservations the file shows released; a refused one
\* means an alias had been released.
LEMMA ImportReleasesKeeps ==
  ASSUME ExportInv, ImportReleases
  PROVE  ExportInv'
<1>1. /\ phase = "aliases"
      /\ UNCHANGED <<sourceVars, archiveVars, historyVars>> /\ UNCHANGED <<tusers, tcodes, trollups, next>>
      /\ \/ /\ phase' = "rollups"
            /\ treservations' = [s \in ShortCode |->
                 IF s \in ToRelease THEN [treservations[s] EXCEPT !.released = TRUE] ELSE treservations[s]]
         \/ /\ phase' = "failed" /\ treservations' = treservations
            /\ \E s \in ToRelease : Target!ReleaseResult(s) # "ok"
  BY Zenon DEF ImportReleases
<1>2. UNCHANGED <<usersFile, codesFile, resFile, rollupsFile, got, released, joined>>
  BY <1>1, Zenon DEF archiveVars, historyVars
<1>3. phase \in Importing /\ phase' \in Importing
  BY <1>1 DEF Importing, Replaying
<1>4. /\ InState(next - 1) /\ Replayed(next - 1) /\ \A s \in ShortCode : ~treservations[s].released
      /\ ~Truncated => tusers = usersFile /\ next = Len(codesFile) + 1
  BY <1>1 DEF ExportInv, TargetInv, Replaying
<1>5. CASE /\ phase' = "rollups"
           /\ treservations' = [s \in ShortCode |->
                IF s \in ToRelease THEN [treservations[s] EXCEPT !.released = TRUE] ELSE treservations[s]]
  <2>1. treservations \in [ShortCode -> Reservation] /\ Target!Reservation = Reservation
    BY TargetTypes DEF Target!TypeOK, Target!Reservation, Reservation
  <2>2. ASSUME NEW s \in ShortCode
        PROVE  /\ treservations'[s] \in Reservation /\ treservations'[s].code = treservations[s].code
               /\ treservations'[s].released = (s \in ToRelease)
    <3>1. PICK r \in Reservation : r = treservations[s]
      BY <2>1
    <3>2. PICK q : q = [r EXCEPT !.released = TRUE]
      OBVIOUS
    <3>3. q \in Reservation /\ q.code = r.code /\ q.released = TRUE
      BY <3>2 DEF Reservation
    <3>4. CASE s \in ToRelease
      BY <1>5, <3>1, <3>2, <3>3, <3>4
    <3>5. CASE s \notin ToRelease
      <4>1. treservations'[s] = r /\ ~r.released /\ r.released \in BOOLEAN
        BY <1>4, <1>5, <3>1, <3>5 DEF Reservation
      <4> QED BY <3>1, <3>5, <4>1
    <3> QED BY <3>4, <3>5
  <2>3. treservations' \in [ShortCode -> Reservation]
    <3>1. PICK t : t = treservations'
      OBVIOUS
    <3>2. DOMAIN t = ShortCode /\ t = [s \in ShortCode |-> t[s]]
      BY <1>5, <3>1
    <3>3. \A s \in ShortCode : t[s] \in Reservation
      BY <2>2, <3>1
    <3>4. t \in [ShortCode -> Reservation]
      BY <3>2, <3>3
    <3> QED BY <3>1, <3>4
  <2>4. Target!TypeOK'
    BY <1>1, <2>1, <2>3, TargetTypes DEF Target!TypeOK
  <2>5. SourceInv' /\ FilesInv' /\ SnapshotInv' /\ ExportTypeOK'
    BY <1>1, <1>3, <2>4, TargetTypes, ImportFrame
  <2>6. Target!Stored' = Target!Stored
    BY <1>1 DEF Target!Stored
  <2>7. ToRelease' = ToRelease
    BY <1>2, <2>6 DEF ToRelease
  <2>8. \A i \in 1..(next - 1) : codesFile[i].row.short \in ShortCode
    <3>1. 1..(next - 1) \subseteq DOMAIN codesFile
      BY TargetTypes
    <3> QED BY <3>1, TargetTypes DEF Row
  <2>9. Replayed(next - 1)'
    <3>1. PICK f, m, u : f = codesFile /\ f = codesFile' /\ m = next - 1 /\ m = next' - 1 /\ u = tusers /\ u = tusers'
      BY <1>1, <1>2
    <3>2. /\ Target!Stored = {f[i].id : i \in 1..m}
          /\ \A i \in 1..m : Matches(tcodes'[f[i].id], f[i].row) /\ f[i].row.user \in u
                             /\ treservations[f[i].row.short].code = f[i].id
          /\ \A s \in ShortCode : treservations[s].code # NoRow => \E i \in 1..m : f[i].row.short = s
      BY <1>1, <1>4, <3>1 DEF Replayed
    <3>3. \A i \in 1..m : treservations'[f[i].row.short].code = f[i].id
      BY <2>2, <2>8, <3>1, <3>2
    <3>4. \A s \in ShortCode : treservations'[s].code # NoRow => \E i \in 1..m : f[i].row.short = s
      BY <2>2, <3>2
    <3> QED BY <2>6, <3>1, <3>2, <3>3, <3>4 DEF Replayed
  <2>10. InState(next - 1)'
    BY <1>1, <1>2, <1>4 DEF InState
  <2>11. ~Truncated' => tusers' = usersFile' /\ next' = Len(codesFile') + 1
    BY <1>1, <1>2, <1>4 DEF Truncated
  <2>12. \A s \in ShortCode : treservations'[s].released = (s \in ToRelease')
    BY <2>2, <2>7
  <2>13. TargetInv'
    BY <1>5, <2>9, <2>10, <2>11, <2>12 DEF TargetInv, Untouched, Writing, Replaying
  <2>14. ImportFailureHasCause'
    BY <1>5 DEF ImportFailureHasCause
  <2> QED BY <2>5, <2>13, <2>14 DEF ExportInv
<1>6. CASE /\ phase' = "failed" /\ treservations' = treservations
           /\ \E s \in ToRelease : Target!ReleaseResult(s) # "ok"
  <2>1. Target!TypeOK'
    BY <1>1, <1>6, TargetTypes, TargetTypeStays
  <2>2. SourceInv' /\ FilesInv' /\ SnapshotInv' /\ ExportTypeOK'
    BY <1>1, <1>3, <2>1, TargetTypes, ImportFrame
  <2>3. TargetInv'
    BY <1>6 DEF TargetInv, Untouched, Writing, Replaying
  <2>4. released
    BY <1>6 DEF ToRelease, ExportInv, FilesInv
  <2>5. ImportFailureHasCause'
    BY <1>2, <2>4 DEF ImportFailureHasCause
  <2> QED BY <2>2, <2>3, <2>5 DEF ExportInv
<1> QED BY <1>1, <1>5, <1>6

\* The rollups of the codes that were imported are copied.
LEMMA ImportRollupsKeeps ==
  ASSUME ExportInv, ImportRollups
  PROVE  ExportInv'
<1>1. /\ phase = "rollups" /\ phase' = "done"
      /\ trollups' = [c \in CodeId |-> IF got >= EntryOf.rollups /\ c \in Target!Stored THEN rollupsFile[c] ELSE 0]
      /\ UNCHANGED <<sourceVars, archiveVars, historyVars>>
      /\ UNCHANGED <<tusers, tcodes, treservations, next>>
  BY Zenon DEF ImportRollups
<1>2. UNCHANGED <<usersFile, codesFile, resFile, rollupsFile, got>>
  BY <1>1, Zenon DEF archiveVars
<1>3. Target!TypeOK'
  BY <1>1, TargetTypes, TargetTypeStays
<1>4. trollups' \in [CodeId -> Nat]
  BY <1>1, TargetTypes
<1>5. SourceInv' /\ FilesInv' /\ SnapshotInv' /\ ExportTypeOK'
  BY <1>1, <1>3, <1>4, TargetTypes, ImportFrame DEF Importing, Replaying
<1>6. /\ InState(next - 1) /\ Replayed(next - 1)
      /\ \A s \in ShortCode : treservations[s].released = (s \in ToRelease)
      /\ ~Truncated => tusers = usersFile /\ next = Len(codesFile) + 1
  BY <1>1 DEF ExportInv, TargetInv, Replaying
<1>7. Target!Stored' = Target!Stored
  BY <1>1 DEF Target!Stored
<1>8. ToRelease' = ToRelease
  BY <1>2, <1>7 DEF ToRelease
<1>9. Replayed(next - 1)' /\ InState(next - 1)'
  BY <1>1, <1>2, <1>6, <1>7 DEF Replayed, InState
<1>10. ~Truncated' => \A c \in Target!Stored' : trollups'[c] = rollupsFile'[c]
  <2>1. got \in 0..6 /\ EntryOf.rollups = 6 /\ \A c \in Target!Stored : c \in CodeId
    BY TargetTypes DEF EntryOf, Target!Stored
  <2> QED BY <1>1, <1>2, <1>7, <2>1 DEF Truncated, Entries
<1>11. ~Truncated' => tusers' = usersFile' /\ next' = Len(codesFile') + 1
  BY <1>1, <1>2, <1>6 DEF Truncated
<1>12. \A s \in ShortCode : treservations'[s].released = (s \in ToRelease')
  BY <1>1, <1>6, <1>8
<1>13. TargetInv'
  BY <1>1, <1>9, <1>10, <1>11, <1>12 DEF TargetInv, Untouched, Writing, Replaying
<1>14. ImportFailureHasCause'
  BY <1>1 DEF ImportFailureHasCause
<1> QED BY <1>5, <1>13, <1>14 DEF ExportInv

-----------------------------------------------------------------------------
(* The theorems.                                                           *)

\* Before anything is exported both stores are empty.
LEMMA ExportInitInv ==
  ASSUME ExportInit
  PROVE  ExportInv
<1>1. /\ StoreInit /\ Target!StoreInit
      /\ users = {Operator} /\ usersFile = {} /\ tusers = {}
      /\ rollups = NoRollups /\ rollupsFile = NoRollups /\ trollups = NoRollups
      /\ order = <<>> /\ phase = "serving" /\ during = 0 /\ codesFile = <<>>
      /\ resFile = [s \in ShortCode |-> [code |-> NoRow, released |-> FALSE]]
      /\ next = 1 /\ got = Entries /\ released = FALSE /\ joined = FALSE /\ moved = FALSE
  BY DEF ExportInit
<1>2. StoreInv
  BY <1>1, InitInv
<1>3. Stored = {} /\ \A s \in ShortCode : ~reservations[s].released
  <2>1. reservations = [s \in ShortCode |-> [code |-> NoRow, released |-> FALSE]] /\ \A c \in CodeId : codes[c] = NoRow
    BY <1>1 DEF StoreInit
  <2>2. \A s \in ShortCode : ~reservations[s].released
    BY <2>1
  <2> QED BY <2>1, <2>2 DEF Stored
<1>4. Listed
  BY <1>1, <1>3 DEF Listed, ToSet
<1>5. SourceInv
  BY <1>2, <1>3, <1>4 DEF SourceInv, RowsAnchored, RowsOwned, NoneReleased
<1>6. resFile \in [ShortCode -> Reservation] /\ \A s \in ShortCode : ~resFile[s].released
  BY <1>1 DEF Reservation
<1>7. codesFile \in Seq([id : CodeId, row : Row]) /\ DOMAIN codesFile = {} /\ Len(codesFile) = 0
  BY <1>1
<1>8. FilesInv
  BY <1>6, <1>7 DEF FilesInv
<1>9. SnapshotInv
  BY <1>1 DEF SnapshotInv
<1>10. TargetInv
  BY <1>1 DEF TargetInv, Untouched, Writing, Replaying
<1>11. NoRollups \in [CodeId -> Nat]
  BY DEF NoRollups
<1>12. Target!TypeOK
  <2>1. PICK v : v = [code |-> NoRow, released |-> FALSE]
    OBVIOUS
  <2>2. v \in Target!Reservation
    BY <2>1 DEF Target!Reservation
  <2>3. treservations = [s \in ShortCode |-> v] /\ tcodes = [c \in CodeId |-> NoRow]
    BY <1>1, <2>1 DEF Target!StoreInit
  <2>4. treservations \in [ShortCode -> Target!Reservation]
    BY <2>2, <2>3
  <2> QED BY <2>3, <2>4 DEF Target!TypeOK
<1>13. ExportTypeOK
  <2>1. TypeOK /\ order \in Seq(CodeId) /\ ToSet(order) = Stored
    BY <1>2, <1>4 DEF StoreInv, Listed
  <2>2. during \in 0..MaxDuring /\ got \in 0..Entries /\ users \cup usersFile \cup tusers \subseteq User
    BY <1>1, ExportAssumption DEF Entries
  <2>4. phase \in Phase
    BY <1>1 DEF Phase
  <2>3. {rollups, rollupsFile, trollups} \subseteq [CodeId -> Nat]
    BY <1>1, <1>11, Zenon
  <2>5. {released, joined, moved} \subseteq BOOLEAN
    BY <1>1
  <2>6. next \in 1..(Len(codesFile) + 1)
    <3>1. next = 1 /\ Len(codesFile) = 0
      BY <1>1, <1>7
    <3> QED BY <3>1
  <2> QED BY <1>6, <1>7, <1>12, <2>1, <2>2, <2>3, <2>4, <2>5, <2>6 DEF ExportTypeOK
<1>14. ImportFailureHasCause
  BY <1>1 DEF ImportFailureHasCause
<1> QED BY <1>5, <1>8, <1>9, <1>10, <1>13, <1>14 DEF ExportInv

\* Steps that change nothing keep the invariant.
LEMMA ExportStutters ==
  ASSUME ExportInv, UNCHANGED exportVars
  PROVE  ExportInv'
<1>1. ExportTypeOK /\ SourceInv /\ FilesInv /\ SnapshotInv /\ TargetInv /\ ImportFailureHasCause
  BY DEF ExportInv
<1>2. /\ UNCHANGED <<codes, reservations, users, rollups, order, during>>
      /\ UNCHANGED <<usersFile, codesFile, resFile, rollupsFile, got, released, joined, moved, phase>>
      /\ UNCHANGED <<tusers, tcodes, treservations, trollups, next>>
      /\ UNCHANGED sourceVars /\ UNCHANGED historyVars
  BY Zenon DEF exportVars, sourceVars, archiveVars, targetVars, historyVars
<1>3. SourceInv' /\ FilesInv' /\ TargetInv'
  BY <1>1, <1>2, SourceStays, FilesStay, TargetStays
<1>4. SnapshotInv'
  <2>1. ForEachCode' = ForEachCode
    BY <1>2 DEF ForEachCode
  <2> QED BY <1>1, <1>2, <2>1 DEF SnapshotInv
<1>5. ExportTypeOK'
  <2>1. Target!TypeOK'
    BY <1>1, <1>2, TargetTypeStays DEF ExportTypeOK
  <2> QED BY <1>1, <1>2, <2>1, SourceTypesStay DEF ExportTypeOK
<1>6. ImportFailureHasCause'
  BY <1>1, <1>2 DEF ImportFailureHasCause, Truncated
<1> QED BY <1>3, <1>4, <1>5, <1>6 DEF ExportInv

\* The invariant holds of every behaviour.
LEMMA ExportInvariant == ExportSpec => []ExportInv
<1>1. ExportInit => ExportInv
  BY ExportInitInv
<1>2. ExportInv /\ [ExportNext]_exportVars => ExportInv'
  <2> SUFFICES ASSUME ExportInv, [ExportNext]_exportVars PROVE ExportInv'
    OBVIOUS
  <2>1. CASE Serve \/ Join \/ CountScan
    BY <2>1, ServeKeeps, JoinKeeps, CountKeeps
  <2>2. CASE ExportUsers \/ ExportCodes \/ ExportReservations
    BY <2>2, ExportUsersKeeps, ExportCodesKeeps, ExportReservationsKeeps
  <2>3. CASE ExportRollups \/ Truncate \/ ImportStart
    BY <2>3, ArchiveKeeps
  <2>4. CASE ImportTorn \/ ImportUsers \/ ImportCode \/ ImportRedelete
    BY <2>4, ImportTornKeeps, ImportUsersKeeps, ImportCodeKeeps, ImportRedeleteKeeps
  <2>5. CASE ImportCodesDone \/ ImportReleases \/ ImportRollups
    BY <2>5, ImportCodesDoneKeeps, ImportReleasesKeeps, ImportRollupsKeeps
  <2>6. CASE UNCHANGED exportVars
    BY <2>6, ExportStutters
  <2> QED BY <2>1, <2>2, <2>3, <2>4, <2>5, <2>6 DEF ExportNext
<1> QED BY <1>1, <1>2, PTL DEF ExportSpec

\* If nothing moved after the codes were walked, an import of the whole archive
\* leaves each short code as it was: no two lines share one, so its line is the
\* code its reservation names.
LEMMA AliasesRestored ==
  ASSUME ExportInv, phase = "done", ~Truncated, ~moved, NEW s \in ShortCode
  PROVE  Target!PhaseOf(s) = PhaseOf(s) /\ Target!HolderOf(s) = HolderOf(s)
<1>1. PICK f, n : f = codesFile /\ n = Len(f)
  OBVIOUS
<1>2. /\ codesFile = ForEachCode /\ resFile = reservations /\ SourceInv
      /\ next = n + 1 /\ Replayed(next - 1) /\ InState(next - 1)
      /\ treservations[s].released = (s \in ToRelease)
  BY <1>1 DEF ExportInv, SnapshotInv, TargetInv, Replaying
<1>3. /\ n \in Nat /\ DOMAIN f = 1..n /\ next - 1 = n /\ got \in 0..6
      /\ \A i \in 1..n : f[i].id \in CodeId /\ f[i].row \in Row
  BY <1>1, <1>2, TargetTypes
<1>4. /\ Target!Stored = {f[i].id : i \in 1..n}
      /\ \A i \in 1..n : treservations[f[i].row.short].code = f[i].id
      /\ treservations[s].code # NoRow => \E i \in 1..n : f[i].row.short = s
      /\ \A i \in 1..n : tcodes[f[i].id].state = f[i].row.state
  BY <1>1, <1>2, <1>3 DEF Replayed, InState
<1>5. /\ \A i \in 1..n : f[i].id \in Stored /\ f[i].row = codes[f[i].id]
      /\ \A c \in Stored : \E i \in 1..n : f[i].id = c
  <2>1. PICK o : o = order
    OBVIOUS
  <2>2. ToSet(o) = Stored
    BY <1>2, <2>1 DEF SourceInv, Listed
  <2>3. /\ DOMAIN f = DOMAIN o
        /\ \A i \in DOMAIN f : f[i].id = o[i] /\ f[i].row = codes[o[i]] /\ o[i] \in Stored
    BY <1>1, <1>2, <2>1, WalkedCodes
  <2> QED BY <1>3, <2>2, <2>3 DEF ToSet
<1>6. LiveHoldsReservation /\ RowsAnchored
  BY <1>2 DEF SourceInv, StoreInv
<1>7. CASE \A i \in 1..n : f[i].row.short # s
  <2>1. treservations[s].code = NoRow
    BY <1>4, <1>7
  <2>2. reservations[s].code = NoRow
    <3>1. ASSUME reservations[s].code # NoRow PROVE FALSE
      <4>1. PICK c : c = reservations[s].code /\ c \in Stored /\ codes[c].short = s
        BY <1>6, <3>1 DEF LiveHoldsReservation
      <4>2. PICK i \in 1..n : f[i].id = c
        BY <1>5, <4>1
      <4> QED BY <1>5, <1>7, <4>1, <4>2
    <3> QED BY <3>1
  <2> QED BY <2>1, <2>2 DEF Target!PhaseOf, PhaseOf, Target!HolderOf, HolderOf, Target!Reserved, Reserved
<1>8. ASSUME NEW i \in 1..n, f[i].row.short = s
      PROVE  Target!PhaseOf(s) = PhaseOf(s) /\ Target!HolderOf(s) = HolderOf(s)
  <2>1. PICK c \in CodeId : c = f[i].id
    BY <1>3
  <2>2. treservations[s].code = c /\ c # NoRow /\ c \in Target!Stored
    BY <1>4, <1>8, <2>1, StoreAssumption
  <2>3. c \in Stored /\ codes[c].short = s /\ codes[c].state = tcodes[c].state
    BY <1>4, <1>5, <1>8, <2>1
  <2>4. reservations[s].code = c
    <3>1. PICK d : d = reservations[s].code /\ d \in Stored /\ codes[d].short = s
      BY <1>6, <2>3 DEF RowsAnchored, LiveHoldsReservation
    <3>2. PICK j \in 1..n : f[j].id = d
      BY <1>5, <3>1
    <3>3. f[j].row.short = s
      BY <1>5, <3>1, <3>2
    <3> QED BY <1>4, <2>2, <3>1, <3>2, <3>3
  <2>5. (s \in ToRelease) <=> reservations[s].released
    <3>1. got >= EntryOf.aliases
      BY <1>3 DEF Truncated, Entries, EntryOf
    <3> QED BY <1>2, <2>2, <2>4, <3>1 DEF ToRelease
  <2>6. treservations[s].released <=> reservations[s].released
    BY <1>2, <2>5
  <2>7. Target!Reserved(s) <=> Reserved(s)
    BY <2>2, <2>4, <2>6 DEF Target!Reserved, Reserved
  <2> QED BY <2>2, <2>3, <2>4, <2>7 DEF Target!PhaseOf, PhaseOf, Target!HolderOf, HolderOf
<1> QED BY <1>7, <1>8

\* What the invariant says of an import that has succeeded.
LEMMA InvRestores ==
  ASSUME ExportInv
  PROVE  ImportRestores
<1>1. ExportTypeOK
  BY DEF ExportInv
<1>2. ASSUME phase = "done", ~Truncated
      PROVE  /\ Target!Stored = {codesFile[i].id : i \in DOMAIN codesFile}
             /\ \A i \in DOMAIN codesFile :
                  LET was == codesFile[i].row
                      is  == tcodes[codesFile[i].id]
                  IN  /\ is.short = was.short /\ is.user = was.user /\ is.user \in tusers
                      /\ is.mode = was.mode /\ is.ref = was.ref /\ is.dest = was.dest
                      /\ is.state = was.state
                      /\ trollups[codesFile[i].id] = rollupsFile[codesFile[i].id]
                      /\ ~resFile[was.short].released => Target!Reserved(was.short)
  <2>1. PICK f, n : f = codesFile /\ n = Len(f)
    OBVIOUS
  <2>2. /\ next = n + 1 /\ Replayed(next - 1) /\ InState(next - 1)
        /\ \A s \in ShortCode : treservations[s].released = (s \in ToRelease)
        /\ \A c \in Target!Stored : trollups[c] = rollupsFile[c]
    BY <1>2, <2>1 DEF ExportInv, TargetInv, Replaying
  <2>3. /\ n \in Nat /\ DOMAIN f = 1..n /\ next - 1 = n
        /\ \A i \in 1..n : f[i].id \in CodeId /\ f[i].row \in Row
    BY <2>1, <2>2, TargetTypes
  <2>4. Target!Stored = {f[i].id : i \in 1..n}
    BY <2>1, <2>2, <2>3 DEF Replayed
  <2>5. ASSUME NEW i \in 1..n
        PROVE  /\ Matches(tcodes[f[i].id], f[i].row) /\ f[i].row.user \in tusers
               /\ tcodes[f[i].id].state = f[i].row.state
               /\ trollups[f[i].id] = rollupsFile[f[i].id]
               /\ ~resFile[f[i].row.short].released => Target!Reserved(f[i].row.short)
    <3>1. /\ Matches(tcodes[f[i].id], f[i].row) /\ f[i].row.user \in tusers
          /\ tcodes[f[i].id].state = f[i].row.state
          /\ treservations[f[i].row.short].code = f[i].id
      BY <2>1, <2>2, <2>3 DEF Replayed, InState
    <3>2. f[i].id \in Target!Stored /\ f[i].id # NoRow /\ f[i].row.short \in ShortCode
      BY <2>3, <2>4, StoreAssumption DEF Row
    <3>3. ~resFile[f[i].row.short].released => ~treservations[f[i].row.short].released
      BY <2>2, <3>2 DEF ToRelease
    <3>4. ~resFile[f[i].row.short].released => Target!Reserved(f[i].row.short)
      BY <3>1, <3>2, <3>3 DEF Target!Reserved
    <3> QED BY <2>2, <3>1, <3>2, <3>4
  <2> QED BY <2>1, <2>3, <2>4, <2>5 DEF Matches
<1>3. ASSUME phase = "done", ~Truncated, ~moved, NEW s \in ShortCode
      PROVE  Target!PhaseOf(s) = PhaseOf(s) /\ Target!HolderOf(s) = HolderOf(s)
  BY <1>3, AliasesRestored
<1> QED BY <1>1, <1>2, <1>3, Zenon DEF ImportRestores

\* Read restores what Write exported: every code with its data and state and, if
\* nothing moved in between, every short code (read.go importCodes, importReservations).
THEOREM ImportRestoresTheorem == ExportSpec => []ImportRestores
<1>1. ExportInv => ImportRestores
  BY InvRestores
<1> QED BY <1>1, ExportInvariant, PTL

\* Read fails only after a release, a user who joined during the export, or a cut
\* in the archive: with none of them no line and no release is refused.
THEOREM ImportFailureTheorem == ExportSpec => []ImportFailureHasCause
<1>1. ExportInv => ImportFailureHasCause
  BY DEF ExportInv
<1> QED BY <1>1, ExportInvariant, PTL
=============================================================================
