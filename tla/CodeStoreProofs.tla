-------------------------- MODULE CodeStoreProofs --------------------------
(***************************************************************************)
(* Proofs about CodeStore for every value of its constants: the namespace  *)
(* invariants, what a transaction may never do, and that the store         *)
(* implements AliasNamespace.                                              *)
(***************************************************************************)
EXTENDS CodeStore, TLAPS

\* The inductive invariant: the two guards of the namespace agree, and client
\* references are unique.
StoreInv ==
  /\ TypeOK
  /\ LiveHoldsReservation
  /\ ClientRefUnique

-----------------------------------------------------------------------------
(* What the results of the guarded statements tell.                        *)

\* An insert succeeds only if every short code and every client reference of
\* the batch is free, in the store and within the batch.
LEMMA InsertOk ==
  ASSUME NEW rows, InsertErrors(rows) = {}
  PROVE  /\ \A c \in DOMAIN rows : ShortFree(rows[c].short)
         /\ \A c \in DOMAIN rows : RefFree(rows[c].user, rows[c].ref)
         /\ \A c, d \in DOMAIN rows : c # d => rows[c].short # rows[d].short
         /\ \A c, d \in DOMAIN rows : c # d => ~SameRef(rows[c], rows[d])
<1>1. ~ \/ \E c \in DOMAIN rows : ~ShortFree(rows[c].short)
        \/ \E c, d \in DOMAIN rows : c # d /\ rows[c].short = rows[d].short
  <2>1. "alias_taken" \notin InsertErrors(rows)
    OBVIOUS
  <2> QED BY <2>1 DEF InsertErrors
<1>2. ~ \/ \E c \in DOMAIN rows : ~RefFree(rows[c].user, rows[c].ref)
        \/ \E c, d \in DOMAIN rows : c # d /\ SameRef(rows[c], rows[d])
  <2>1. "client_ref_taken" \notin InsertErrors(rows)
    OBVIOUS
  <2> QED BY <2>1 DEF InsertErrors
<1> QED BY <1>1, <1>2

\* A destination update succeeds only on a live row of the owner.
LEMMA UpdateOk ==
  ASSUME NEW c, NEW u, NEW v, UpdateResult(c, u, v) = "ok"
  PROVE  Owned(c, u) /\ c \in Live /\ codes[c].version = v
  BY DEF UpdateResult

\* A state change succeeds only on a live row of the owner.
LEMMA SetStateOk ==
  ASSUME NEW c, NEW u, SetStateResult(c, u) = "ok"
  PROVE  Owned(c, u) /\ c \in Live
  BY DEF SetStateResult

\* A release succeeds only on a reservation no live row depends on.
LEMMA ReleaseOk ==
  ASSUME NEW s, ReleaseResult(s) = "ok"
  PROVE  Reserved(s) /\ \A c \in Live : codes[c].short # s
  BY DEF ReleaseResult

\* A stored row has the type of a row.
LEMMA StoredRowType ==
  ASSUME TypeOK, NEW c \in Stored
  PROVE  codes[c] \in Row
  BY DEF TypeOK, Stored

\* The row CreateCodes writes has the type of a row.
LEMMA NewRowType ==
  ASSUME NEW r \in NewRow
  PROVE  StoredRow(r) \in Row
  BY StoreAssumption DEF NewRow, StoredRow, Row, State, Mode

-----------------------------------------------------------------------------
(* Type correctness.                                                       *)

\* The initial tables are well typed.
LEMMA InitType == StoreInit => TypeOK
  BY StoreAssumption DEF StoreInit, TypeOK, Reservation

\* Every transaction keeps the tables well typed.
LEMMA NextType == TypeOK /\ [StoreNext]_storeVars => TypeOK'
<1> SUFFICES ASSUME TypeOK, [StoreNext]_storeVars PROVE TypeOK'
  OBVIOUS
<1>1. ASSUME NEW S \in BatchIds, NEW rows \in [S -> NewRow], CreateCodes(rows)
      PROVE  TypeOK'
  <2>1. \A c \in S : StoredRow(rows[c]) \in Row
    BY NewRowType
  <2>2. codes' \in [CodeId -> Row \cup {NoRow}]
    BY <1>1, <2>1 DEF CreateCodes, TypeOK
  <2>3. \A s \in ShortCode : (\E c \in DOMAIN rows : rows[c].short = s) =>
          (CHOOSE c \in DOMAIN rows : rows[c].short = s) \in CodeId
    BY DEF BatchIds
  <2>4. reservations' \in [ShortCode -> Reservation]
    BY <1>1, <2>3 DEF CreateCodes, TypeOK, Reservation
  <2> QED BY <2>2, <2>4 DEF TypeOK
<1>2. ASSUME NEW c \in CodeId, NEW u \in User, NEW d \in Dest, NEW v \in 1..MaxVersion,
             UpdateDestination(c, u, d, v)
      PROVE  TypeOK'
  <2>1. c \in Stored /\ codes[c].version = v /\ v < MaxVersion
    BY <1>2, UpdateOk DEF UpdateDestination, Owned
  <2>2. codes[c] \in Row
    BY <2>1, StoredRowType
  <2>3. Amended(codes[c], d, codes[c].state) \in Row
    BY <2>2 DEF Row, Amended
  <2> QED BY <1>2, <2>3 DEF UpdateDestination, TypeOK
<1>3. ASSUME NEW c \in CodeId, NEW u \in User, NEW st \in State, SetCodeState(c, u, st)
      PROVE  TypeOK'
  <2>1. c \in Stored /\ codes[c].version < MaxVersion
    BY <1>3, SetStateOk DEF SetCodeState, Owned
  <2>2. codes[c] \in Row
    BY <2>1, StoredRowType
  <2>3. Amended(codes[c], codes[c].dest, st) \in Row
    BY <2>2 DEF Row, Amended
  <2> QED BY <1>3, <2>3 DEF SetCodeState, TypeOK
<1>4. ASSUME NEW c \in CodeId, NEW u \in User, DeleteCode(c, u)
      PROVE  TypeOK'
  <2>1. c \in Stored
    BY <1>4 DEF DeleteCode, Owned
  <2>2. codes[c] \in Row
    BY <2>1, StoredRowType
  <2>3. Amended(codes[c], codes[c].dest, "deleted") \in Row
    BY <2>2 DEF Row, State, Amended
  <2> QED BY <1>4, <2>3 DEF DeleteCode, TypeOK
<1>5. ASSUME NEW s \in ShortCode, ReleaseAlias(s)
      PROVE  TypeOK'
  BY <1>5 DEF ReleaseAlias, TypeOK, Reservation
<1>6. CASE UNCHANGED storeVars
  BY <1>6 DEF storeVars, TypeOK
<1> QED BY <1>1, <1>2, <1>3, <1>4, <1>5, <1>6 DEF StoreNext

-----------------------------------------------------------------------------
(* The namespace invariants.                                               *)

\* Amending one live row, with the reservations left alone, keeps the guards
\* in agreement and the client references unique.  Every UPDATE is such a step.
LEMMA AmendKeepsNamespace ==
  ASSUME StoreInv, UNCHANGED reservations,
         NEW c \in Live, NEW d \in Dest, NEW st \in State,
         codes' = [codes EXCEPT ![c] = Amended(codes[c], d, st)]
  PROVE  LiveHoldsReservation' /\ ClientRefUnique'
<1>1. codes[c] \in Row /\ c \in CodeId /\ codes \in [CodeId -> Row \cup {NoRow}]
  BY StoredRowType DEF StoreInv, Live, Stored, TypeOK
<1>2. codes'[c] = Amended(codes[c], d, st)
  BY <1>1
<1>3. Amended(codes[c], d, st) \in Row
  BY <1>1 DEF Row, Amended
<1>4. Stored' = Stored
  BY <1>1, <1>2, <1>3, StoreAssumption DEF Stored
<1>5. \A x \in Stored : /\ codes'[x].short = codes[x].short
                        /\ codes'[x].user = codes[x].user
                        /\ codes'[x].ref = codes[x].ref
  BY <1>1, <1>2 DEF Stored, Amended
<1>6. Live' \subseteq Live
  BY <1>1, <1>4 DEF Live
<1>7. LiveHoldsReservation'
  BY <1>4, <1>5, <1>6 DEF StoreInv, LiveHoldsReservation, Reserved, Live
<1>8. \A u \in User, r \in Ref : GetCodeByClientRef(u, r)' = GetCodeByClientRef(u, r)
  BY <1>4, <1>5 DEF GetCodeByClientRef
<1> QED BY <1>7, <1>8 DEF StoreInv, ClientRefUnique

\* What CreateCodes leaves in the tables: the new rows are live and hold the
\* reservations of their short codes, everything else is as before.
LEMMA CreateEffect ==
  ASSUME TypeOK, NEW S \in BatchIds, NEW rows \in [S -> NewRow], CreateCodes(rows)
  PROVE  /\ S \subseteq CodeId
         /\ S \cap Stored = {}
         /\ Stored' = Stored \cup S
         /\ Live' = Live \cup S
         /\ \A c \in S : codes'[c] = StoredRow(rows[c])
         /\ \A c \in Stored : codes'[c] = codes[c]
         /\ \A c \in S : reservations'[rows[c].short] = [code |-> c, released |-> FALSE]
         /\ \A s \in ShortCode : (\A c \in S : rows[c].short # s) =>
                                  reservations'[s] = reservations[s]
<1>1. S \subseteq CodeId /\ DOMAIN rows = S
  BY DEF BatchIds
<1>2. S \cap Stored = {}
  BY <1>1 DEF CreateCodes
<1>3. \A c \in S : codes'[c] = StoredRow(rows[c])
  BY <1>1 DEF CreateCodes
<1>4. \A c \in CodeId \ S : codes'[c] = codes[c]
  BY <1>1 DEF CreateCodes
<1>5. \A c \in S : StoredRow(rows[c]) # NoRow /\ StoredRow(rows[c]).state # "deleted"
  <2> SUFFICES ASSUME NEW c \in S
               PROVE  StoredRow(rows[c]) # NoRow /\ StoredRow(rows[c]).state # "deleted"
    OBVIOUS
  <2>1. StoredRow(rows[c]) \in Row
    BY NewRowType
  <2>2. rows[c].state \in {"active", "disabled"}
    BY DEF NewRow
  <2> QED BY <2>1, <2>2, StoreAssumption DEF StoredRow
<1>6. Stored' = Stored \cup S
  BY <1>1, <1>3, <1>4, <1>5 DEF Stored
<1>7. Live' = Live \cup S
  BY <1>1, <1>2, <1>3, <1>4, <1>5, <1>6 DEF Live, Stored
<1>8. ASSUME NEW c \in S
      PROVE  reservations'[rows[c].short] = [code |-> c, released |-> FALSE]
  <2>1. rows[c].short \in ShortCode
    BY DEF NewRow
  <2>2. \A d \in S : d # c => rows[d].short # rows[c].short
    BY <1>1, InsertOk DEF CreateCodes
  <2>3. (CHOOSE d \in S : rows[d].short = rows[c].short) = c
    BY <2>2
  <2> QED BY <1>1, <2>1, <2>3 DEF CreateCodes
<1>9. \A s \in ShortCode : (\A c \in S : rows[c].short # s) =>
                           reservations'[s] = reservations[s]
  BY <1>1 DEF CreateCodes
<1>10. \A c \in Stored : codes'[c] = codes[c]
  BY <1>2, <1>4 DEF Stored
<1> QED BY <1>1, <1>2, <1>3, <1>6, <1>7, <1>8, <1>9, <1>10

\* CreateCodes takes only free short codes and unused client references, so it
\* keeps the guards in agreement.
LEMMA CreateKeepsNamespace ==
  ASSUME StoreInv, NEW S \in BatchIds, NEW rows \in [S -> NewRow], CreateCodes(rows)
  PROVE  LiveHoldsReservation' /\ ClientRefUnique'
<1> USE DEF StoreInv
<1>1. \A c \in S : /\ ShortFree(rows[c].short)
                   /\ RefFree(rows[c].user, rows[c].ref)
                   /\ \A d \in S : c # d => ~SameRef(rows[c], rows[d])
  BY InsertOk DEF CreateCodes
<1>2. \A c \in S : codes'[c].short = rows[c].short /\ codes'[c].user = rows[c].user
                   /\ codes'[c].ref = rows[c].ref
  <2> SUFFICES ASSUME NEW c \in S
               PROVE  codes'[c].short = rows[c].short /\ codes'[c].user = rows[c].user
                      /\ codes'[c].ref = rows[c].ref
    OBVIOUS
  <2>1. codes'[c] = StoredRow(rows[c])
    BY CreateEffect
  <2>2. /\ StoredRow(rows[c]).short = rows[c].short
        /\ StoredRow(rows[c]).user = rows[c].user
        /\ StoredRow(rows[c]).ref = rows[c].ref
    BY DEF StoredRow
  <2> QED BY <2>1, <2>2
<1>3. \A c \in Live : \A d \in S : codes[c].short # rows[d].short
  BY <1>1 DEF ShortFree
<1>4. \A c \in S : rows[c].short \in ShortCode
  BY DEF NewRow
<1>5. \A c \in Live' : Reserved(codes[c].short)' /\ reservations'[codes'[c].short].code = c
  <2> SUFFICES ASSUME NEW c \in Live'
               PROVE  Reserved(codes[c].short)' /\ reservations'[codes'[c].short].code = c
    OBVIOUS
  <2>1. CASE c \in S
    <3>1. reservations'[codes'[c].short] = [code |-> c, released |-> FALSE]
      BY <2>1, <1>2, CreateEffect
    <3>2. c # NoRow
      BY <2>1, CreateEffect, StoreAssumption
    <3> QED BY <3>1, <3>2 DEF Reserved
  <2>2. CASE c \in Live
    <3>1. codes'[c] = codes[c] /\ codes[c].short \in ShortCode
      BY <2>2, CreateEffect, StoredRowType DEF Live, Row
    <3>2. reservations'[codes[c].short] = reservations[codes[c].short]
      BY <2>2, <3>1, <1>3, CreateEffect
    <3> QED BY <2>2, <3>1, <3>2 DEF LiveHoldsReservation, Reserved
  <2> QED BY <2>1, <2>2, CreateEffect
<1>6. \A s \in ShortCode : reservations'[s].code # NoRow =>
        reservations'[s].code \in Stored' /\ codes'[reservations'[s].code].short = s
  <2> SUFFICES ASSUME NEW s \in ShortCode, reservations'[s].code # NoRow
               PROVE  reservations'[s].code \in Stored' /\ codes'[reservations'[s].code].short = s
    OBVIOUS
  <2>1. CASE \E c \in S : rows[c].short = s
    <3> PICK c \in S : rows[c].short = s
      BY <2>1
    <3>1. reservations'[rows[c].short] = [code |-> c, released |-> FALSE]
      BY CreateEffect
    <3>2. reservations'[s].code = c
      BY <3>1
    <3> QED BY <3>2, <1>2, CreateEffect
  <2>2. CASE \A c \in S : rows[c].short # s
    <3>1. reservations'[s] = reservations[s]
      BY <2>2, CreateEffect
    <3>2. reservations[s].code \in Stored /\ codes[reservations[s].code].short = s
      BY <3>1 DEF LiveHoldsReservation
    <3> QED BY <3>1, <3>2, CreateEffect
  <2> QED BY <2>1, <2>2
<1>7. ClientRefUnique'
  <2> SUFFICES ASSUME NEW u \in User, NEW r \in Ref,
                      NEW c \in GetCodeByClientRef(u, r)', NEW d \in GetCodeByClientRef(u, r)',
                      c # d
               PROVE  FALSE
    BY DEF ClientRefUnique
  <2>1. /\ c \in Stored \cup S /\ codes'[c].user = u /\ codes'[c].ref = r
        /\ d \in Stored \cup S /\ codes'[d].user = u /\ codes'[d].ref = r
    BY CreateEffect DEF GetCodeByClientRef
  <2>2. r # NoRef
    BY StoreAssumption
  <2>3. ASSUME NEW x \in S, codes'[x].user = u, codes'[x].ref = r, NEW y \in Stored
        PROVE  ~(codes'[y].user = u /\ codes'[y].ref = r)
    BY <2>2, <2>3, <1>1, <1>2, CreateEffect DEF RefFree, GetCodeByClientRef
  <2>4. CASE c \in Stored /\ d \in Stored
    BY <2>1, <2>4, CreateEffect DEF ClientRefUnique, GetCodeByClientRef
  <2>5. CASE c \in S /\ d \in S
    BY <2>1, <2>2, <2>5, <1>1, <1>2 DEF SameRef
  <2> QED BY <2>1, <2>3, <2>4, <2>5
<1> QED BY <1>5, <1>6, <1>7 DEF LiveHoldsReservation

\* Releasing a reservation no live row depends on keeps the guards in agreement.
LEMMA ReleaseKeepsNamespace ==
  ASSUME StoreInv, NEW s \in ShortCode, ReleaseAlias(s)
  PROVE  LiveHoldsReservation' /\ ClientRefUnique'
<1>1. Reserved(s) /\ \A c \in Live : codes[c].short # s
  BY ReleaseOk DEF ReleaseAlias
<1>2. codes' = codes /\ reservations' = [reservations EXCEPT ![s].released = TRUE]
  BY DEF ReleaseAlias
<1>3. \A t \in ShortCode : /\ reservations'[t].code = reservations[t].code
                           /\ t # s => reservations'[t] = reservations[t]
  BY <1>2 DEF StoreInv, TypeOK, Reservation
<1>4. Stored' = Stored /\ Live' = Live
  BY <1>2 DEF Stored, Live
<1>5. \A c \in Live : codes[c].short \in ShortCode
  BY StoredRowType DEF StoreInv, Live, Row
<1>6. LiveHoldsReservation'
  BY <1>1, <1>2, <1>3, <1>4, <1>5 DEF StoreInv, LiveHoldsReservation, Reserved
<1>7. ClientRefUnique'
  BY <1>2, <1>4 DEF StoreInv, ClientRefUnique, GetCodeByClientRef
<1> QED BY <1>6, <1>7

\* The empty tables satisfy the invariant.
LEMMA InitInv == StoreInit => StoreInv
<1> SUFFICES ASSUME StoreInit PROVE StoreInv
  OBVIOUS
<1>1. Stored = {} /\ Live = {}
  BY DEF StoreInit, Stored, Live
<1>2. \A s \in ShortCode : reservations[s].code = NoRow
  BY DEF StoreInit
<1> QED BY <1>1, <1>2, InitType
        DEF StoreInv, LiveHoldsReservation, ClientRefUnique, GetCodeByClientRef

\* Every transaction keeps the invariant.
LEMMA NextInv == StoreInv /\ [StoreNext]_storeVars => StoreInv'
<1> SUFFICES ASSUME StoreInv, [StoreNext]_storeVars PROVE StoreInv'
  OBVIOUS
<1>0. TypeOK'
  BY NextType DEF StoreInv
<1>1. ASSUME NEW S \in BatchIds, NEW rows \in [S -> NewRow], CreateCodes(rows)
      PROVE  LiveHoldsReservation' /\ ClientRefUnique'
  BY <1>1, CreateKeepsNamespace
<1>2. ASSUME NEW c \in CodeId, NEW u \in User, NEW d \in Dest, NEW v \in 1..MaxVersion,
             UpdateDestination(c, u, d, v)
      PROVE  LiveHoldsReservation' /\ ClientRefUnique'
  <2>1. c \in Live
    BY <1>2, UpdateOk DEF UpdateDestination
  <2>2. codes[c].state \in State
    BY <2>1, StoredRowType DEF StoreInv, Live, Row
  <2> QED BY <1>2, <2>1, <2>2, AmendKeepsNamespace DEF UpdateDestination
<1>3. ASSUME NEW c \in CodeId, NEW u \in User, NEW st \in State, SetCodeState(c, u, st)
      PROVE  LiveHoldsReservation' /\ ClientRefUnique'
  <2>1. c \in Live
    BY <1>3, SetStateOk DEF SetCodeState
  <2>2. codes[c].dest \in Dest
    BY <2>1, StoredRowType DEF StoreInv, Live, Row
  <2> QED BY <1>3, <2>1, <2>2, AmendKeepsNamespace DEF SetCodeState
<1>4. ASSUME NEW c \in CodeId, NEW u \in User, DeleteCode(c, u)
      PROVE  LiveHoldsReservation' /\ ClientRefUnique'
  <2>1. CASE c \in Live
    <3>1. codes[c].dest \in Dest
      BY <2>1, StoredRowType DEF StoreInv, Live, Row
    <3> QED BY <1>4, <2>1, <3>1, AmendKeepsNamespace DEF DeleteCode, State
  <2>2. CASE c \notin Live
    BY <1>4, <2>2 DEF DeleteCode, StoreInv, LiveHoldsReservation, ClientRefUnique,
                      Live, Stored, Reserved, GetCodeByClientRef
  <2> QED BY <2>1, <2>2
<1>5. ASSUME NEW s \in ShortCode, ReleaseAlias(s)
      PROVE  LiveHoldsReservation' /\ ClientRefUnique'
  BY <1>5, ReleaseKeepsNamespace
<1>6. CASE UNCHANGED storeVars
  BY <1>0, <1>6 DEF storeVars, StoreInv, LiveHoldsReservation, ClientRefUnique,
              Live, Stored, Reserved, GetCodeByClientRef
<1> QED BY <1>0, <1>1, <1>2, <1>3, <1>4, <1>5, <1>6 DEF StoreNext, StoreInv

-----------------------------------------------------------------------------
\* The tables stay well typed.
THEOREM StoreTypeCorrect == StoreSpec => []TypeOK
  BY InitType, NextType, PTL DEF StoreSpec

\* In every reachable state each live code holds the unreleased reservation of
\* its short code and every reservation names a row with that short code.
THEOREM NamespaceGuardsAgree == StoreSpec => []LiveHoldsReservation
<1>1. StoreInv => LiveHoldsReservation
  BY DEF StoreInv
<1> QED BY InitInv, NextInv, <1>1, PTL DEF StoreSpec

\* A live row holds the reservation, and a deleted row resolves only if it holds
\* it: so at most one row answers a scan.
LEMMA InvScan == StoreInv => ScanUnambiguous
  BY DEF StoreInv, LiveHoldsReservation, ScanUnambiguous, Resolvable, Live

\* GetCodeByShortCode never has two rows to choose from, and no user has two
\* rows with one client reference, deleted rows included.
THEOREM LookupsAreUnambiguous == StoreSpec => []LookupsUnambiguous
<1>1. StoreInv => LookupsUnambiguous
  BY InvScan DEF StoreInv, LookupsUnambiguous
<1> QED BY InitInv, NextInv, <1>1, PTL DEF StoreSpec

-----------------------------------------------------------------------------
(* What a transaction may never do.                                        *)

\* What an amended row keeps, and that the set of rows stays the same.
LEMMA AmendEffect ==
  ASSUME StoreInv, NEW c \in Live, NEW d \in Dest, NEW st \in State,
         codes' = [codes EXCEPT ![c] = Amended(codes[c], d, st)]
  PROVE  /\ c \in CodeId
         /\ Stored' = Stored
         /\ \A x \in Stored : codes'[x].short = codes[x].short
         /\ \A x \in Stored : x # c => codes'[x] = codes[x]
         /\ codes'[c] = Amended(codes[c], d, st)
<1>1. codes[c] \in Row /\ c \in CodeId /\ codes \in [CodeId -> Row \cup {NoRow}]
  BY StoredRowType DEF StoreInv, Live, Stored, TypeOK
<1>2. codes'[c] = Amended(codes[c], d, st)
  BY <1>1
<1>3. Amended(codes[c], d, st) \in Row
  BY <1>1 DEF Row, Amended
<1>4. Stored' = Stored
  BY <1>1, <1>2, <1>3, StoreAssumption DEF Stored
<1>5. \A x \in Stored : x # c => codes'[x] = codes[x]
  BY <1>1 DEF Stored
<1>6. codes'[c].short = codes[c].short
  BY <1>2 DEF Amended
<1> QED BY <1>1, <1>2, <1>4, <1>5, <1>6

\* An amended row has moved forward by one version and kept its identity.
LEMMA AmendMovesForward ==
  ASSUME StoreInv, NEW c \in Live, NEW d \in Dest, NEW st \in State,
         codes' = [codes EXCEPT ![c] = Amended(codes[c], d, st)],
         NEW x \in Stored, codes'[x] # codes[x]
  PROVE  /\ codes'[x].version = codes[x].version + 1
         /\ codes[x].state # "deleted"
         /\ codes'[x].short = codes[x].short /\ codes'[x].user = codes[x].user
         /\ codes'[x].mode = codes[x].mode /\ codes'[x].ref = codes[x].ref
<1>1. x = c /\ codes'[c] = Amended(codes[c], d, st)
  BY AmendEffect
<1> QED BY <1>1 DEF Amended, Live

\* What RowsOnlyMoveForward says of one step, and that no row is lost.
Forward ==
  \A c \in Stored :
    /\ c \in Stored'
    /\ codes'[c] # codes[c] =>
         /\ codes'[c].version = codes[c].version + 1
         /\ codes[c].state # "deleted"
         /\ codes'[c].short = codes[c].short /\ codes'[c].user = codes[c].user
         /\ codes'[c].mode = codes[c].mode /\ codes'[c].ref = codes[c].ref

\* Every transaction moves rows forward.
LEMMA StepMovesForward ==
  ASSUME StoreInv, [StoreNext]_storeVars
  PROVE  Forward
<1>0. CASE UNCHANGED storeVars
  BY <1>0 DEF Forward, storeVars, Stored
<1>1. ASSUME NEW S \in BatchIds, NEW rows \in [S -> NewRow], CreateCodes(rows)
      PROVE  Forward
  BY <1>1, CreateEffect DEF StoreInv, Forward
<1>2. ASSUME NEW c \in CodeId, NEW u \in User, NEW d \in Dest, NEW v \in 1..MaxVersion,
             UpdateDestination(c, u, d, v)
      PROVE  Forward
  <2>1. c \in Live
    BY <1>2, UpdateOk DEF UpdateDestination
  <2>2. codes[c].state \in State
    BY <2>1, StoredRowType DEF StoreInv, Live, Row
  <2> QED BY <1>2, <2>1, <2>2, AmendEffect, AmendMovesForward DEF UpdateDestination, Forward
<1>3. ASSUME NEW c \in CodeId, NEW u \in User, NEW st \in State, SetCodeState(c, u, st)
      PROVE  Forward
  <2>1. c \in Live
    BY <1>3, SetStateOk DEF SetCodeState
  <2>2. codes[c].dest \in Dest
    BY <2>1, StoredRowType DEF StoreInv, Live, Row
  <2> QED BY <1>3, <2>1, <2>2, AmendEffect, AmendMovesForward DEF SetCodeState, Forward
<1>4. ASSUME NEW c \in CodeId, NEW u \in User, DeleteCode(c, u)
      PROVE  Forward
  <2>1. CASE c \in Live
    <3>1. codes[c].dest \in Dest
      BY <2>1, StoredRowType DEF StoreInv, Live, Row
    <3> QED BY <1>4, <2>1, <3>1, AmendEffect, AmendMovesForward DEF DeleteCode, State, Forward
  <2>2. CASE c \notin Live
    BY <1>4, <2>2 DEF DeleteCode, Forward, Stored
  <2> QED BY <2>1, <2>2
<1>5. ASSUME NEW s \in ShortCode, ReleaseAlias(s)
      PROVE  Forward
  BY <1>5 DEF ReleaseAlias, Forward, Stored
<1> QED BY <1>0, <1>1, <1>2, <1>3, <1>4, <1>5 DEF StoreNext

\* Rows keep their identity, change one version at a time, and a deleted row
\* never changes again: SetCodeState and UpdateDestination cannot revive it.
THEOREM RowsMoveForward == StoreSpec => RowsOnlyMoveForward
<1>1. StoreInv /\ [StoreNext]_storeVars =>
      [\A c \in Stored :
         codes'[c] # codes[c] =>
           /\ codes'[c].version = codes[c].version + 1
           /\ codes[c].state # "deleted"
           /\ codes'[c].short = codes[c].short /\ codes'[c].user = codes[c].user
           /\ codes'[c].mode = codes[c].mode /\ codes'[c].ref = codes[c].ref]_storeVars
  BY StepMovesForward DEF Forward
<1>2. StoreSpec => []StoreInv
  BY InitInv, NextInv, PTL DEF StoreSpec
<1> QED BY <1>1, <1>2, PTL DEF StoreSpec, RowsOnlyMoveForward

-----------------------------------------------------------------------------
(* The namespace never changes hands silently.                             *)

\* Amending a row, deletion included, changes what no scan resolves to: a live
\* row that is deleted still holds its reservation.
LEMMA AmendKeepsResolvable ==
  ASSUME StoreInv, UNCHANGED reservations,
         NEW c \in Live, NEW d \in Dest, NEW st \in State,
         codes' = [codes EXCEPT ![c] = Amended(codes[c], d, st)],
         NEW s \in ShortCode
  PROVE  Resolvable(s)' = Resolvable(s)
<1>1. /\ Stored' = Stored
      /\ \A x \in Stored : codes'[x].short = codes[x].short
      /\ \A x \in Stored : x # c => codes'[x] = codes[x]
  BY AmendEffect
<1>2. Reserved(s)' = Reserved(s)
  BY DEF Reserved
<1>3. codes[c].short = s => Reserved(s) /\ reservations[s].code = c
  BY DEF StoreInv, LiveHoldsReservation
<1>4. \A x \in Stored : x \in Resolvable(s)' <=> x \in Resolvable(s)
  BY <1>1, <1>2, <1>3 DEF Resolvable
<1> QED BY <1>1, <1>4 DEF Resolvable

\* A short code CreateCodes takes resolved to nothing; the others keep their row.
LEMMA CreateKeepsResolvable ==
  ASSUME StoreInv, NEW S \in BatchIds, NEW rows \in [S -> NewRow], CreateCodes(rows),
         NEW s \in ShortCode, Resolvable(s) # {}
  PROVE  Resolvable(s)' = Resolvable(s)
<1>1. \A c \in S : rows[c].short # s
  <2> SUFFICES ASSUME NEW c \in S, rows[c].short = s PROVE FALSE
    OBVIOUS
  <2>1. ShortFree(s)
    BY InsertOk DEF CreateCodes
  <2> QED BY <2>1 DEF ShortFree, Resolvable, Live
<1>2. reservations'[s] = reservations[s]
  BY <1>1, CreateEffect DEF StoreInv
<1>3. /\ Stored' = Stored \cup S
      /\ \A c \in Stored : codes'[c] = codes[c]
      /\ \A c \in S : codes'[c] = StoredRow(rows[c])
  BY CreateEffect DEF StoreInv
<1>4. \A c \in S : codes'[c].short # s
  <2> SUFFICES ASSUME NEW c \in S PROVE codes'[c].short # s
    OBVIOUS
  <2>1. StoredRow(rows[c]).short = rows[c].short
    BY DEF StoredRow
  <2> QED BY <1>1, <1>3, <2>1
<1>5. Reserved(s)' = Reserved(s)
  BY <1>2 DEF Reserved
<1> QED BY <1>2, <1>3, <1>4, <1>5 DEF Resolvable

\* A released short code resolves to nothing; the others keep their row.
LEMMA ReleaseEmpties ==
  ASSUME StoreInv, NEW s \in ShortCode, ReleaseAlias(s), NEW t \in ShortCode
  PROVE  Resolvable(t)' \in {Resolvable(t), {}}
<1>1. Reserved(s) /\ \A c \in Live : codes[c].short # s
  BY ReleaseOk DEF ReleaseAlias
<1>2. codes' = codes /\ reservations' = [reservations EXCEPT ![s].released = TRUE]
  BY DEF ReleaseAlias
<1>3. Stored' = Stored /\ Live' = Live
  BY <1>2 DEF Stored, Live
<1>4. CASE t = s
  <2>1. ~Reserved(s)'
    BY <1>2 DEF Reserved, StoreInv, TypeOK, Reservation
  <2> QED BY <1>1, <1>2, <1>3, <1>4, <2>1 DEF Resolvable, Live
<1>5. CASE t # s
  <2>1. reservations'[t] = reservations[t]
    BY <1>2, <1>5 DEF StoreInv, TypeOK
  <2> QED BY <1>2, <1>3, <2>1 DEF Resolvable, Reserved
<1> QED BY <1>4, <1>5

\* A short code that resolves to a code never resolves to another one in the next
\* state: it must become free, by an admin release, in between (FR-018).
THEOREM NamespaceNeverHijacked == StoreSpec => NoSilentHijack
<1> DEFINE Kept == \A s \in ShortCode :
                     Resolvable(s) # {} => Resolvable(s)' \in {Resolvable(s), {}}
<1>1. StoreInv /\ [StoreNext]_storeVars => [Kept]_storeVars
  <2> SUFFICES ASSUME StoreInv, StoreNext PROVE Kept
    BY DEF storeVars
  <2>1. ASSUME NEW S \in BatchIds, NEW rows \in [S -> NewRow], CreateCodes(rows)
        PROVE  Kept
    BY <2>1, CreateKeepsResolvable
  <2>2. ASSUME NEW c \in CodeId, NEW u \in User, NEW d \in Dest, NEW v \in 1..MaxVersion,
               UpdateDestination(c, u, d, v)
        PROVE  Kept
    <3>1. c \in Live
      BY <2>2, UpdateOk DEF UpdateDestination
    <3>2. codes[c].state \in State
      BY <3>1, StoredRowType DEF StoreInv, Live, Row
    <3> QED BY <2>2, <3>1, <3>2, AmendKeepsResolvable DEF UpdateDestination
  <2>3. ASSUME NEW c \in CodeId, NEW u \in User, NEW st \in State, SetCodeState(c, u, st)
        PROVE  Kept
    <3>1. c \in Live
      BY <2>3, SetStateOk DEF SetCodeState
    <3>2. codes[c].dest \in Dest
      BY <3>1, StoredRowType DEF StoreInv, Live, Row
    <3> QED BY <2>3, <3>1, <3>2, AmendKeepsResolvable DEF SetCodeState
  <2>4. ASSUME NEW c \in CodeId, NEW u \in User, DeleteCode(c, u)
        PROVE  Kept
    <3>1. CASE c \in Live
      <4>1. codes[c].dest \in Dest
        BY <3>1, StoredRowType DEF StoreInv, Live, Row
      <4> QED BY <2>4, <3>1, <4>1, AmendKeepsResolvable DEF DeleteCode, State
    <3>2. CASE c \notin Live
      BY <2>4, <3>2 DEF DeleteCode, Resolvable, Stored, Reserved
    <3> QED BY <3>1, <3>2
  <2>5. ASSUME NEW s \in ShortCode, ReleaseAlias(s)
        PROVE  Kept
    BY <2>5, ReleaseEmpties
  <2> QED BY <2>1, <2>2, <2>3, <2>4, <2>5 DEF StoreNext
<1>2. StoreSpec => []StoreInv
  BY InitInv, NextInv, PTL DEF StoreSpec
<1> QED BY <1>1, <1>2, PTL DEF StoreSpec, NoSilentHijack

-----------------------------------------------------------------------------
(* The store implements AliasNamespace.                                    *)

\* Amending a row without deleting it is invisible in the namespace.
LEMMA AmendStutters ==
  ASSUME StoreInv, UNCHANGED reservations,
         NEW c \in Live, NEW d \in Dest, NEW st \in State \ {"deleted"},
         codes' = [codes EXCEPT ![c] = Amended(codes[c], d, st)]
  PROVE  UNCHANGED Namespace!namespaceVars
<1>1. /\ Stored' = Stored
      /\ \A x \in Stored : x # c => codes'[x] = codes[x]
      /\ codes'[c] = Amended(codes[c], d, st)
  BY AmendEffect
<1>2. codes'[c].state # "deleted" /\ codes[c].state # "deleted"
  BY <1>1 DEF Amended, Live
<1>3. \A s \in ShortCode : PhaseOf(s)' = PhaseOf(s)
  BY <1>1, <1>2 DEF PhaseOf, Reserved, StoreInv, LiveHoldsReservation
<1>4. \A s \in ShortCode : HolderOf(s)' = HolderOf(s)
  BY DEF HolderOf, Reserved
<1> QED BY <1>1, <1>3, <1>4 DEF Namespace!namespaceVars

\* Deleting a live row retires its short code.
LEMMA DeleteRetires ==
  ASSUME StoreInv, UNCHANGED reservations, NEW c \in Live,
         codes' = [codes EXCEPT ![c] = Amended(codes[c], codes[c].dest, "deleted")],
         NEW s \in ShortCode, s = codes[c].short
  PROVE  Namespace!Retire(s)
<1>1. codes[c].dest \in Dest
  BY StoredRowType DEF StoreInv, Live, Row
<1>2. /\ Stored' = Stored
      /\ \A x \in Stored : x # c => codes'[x] = codes[x]
      /\ codes'[c] = Amended(codes[c], codes[c].dest, "deleted")
  BY <1>1, AmendEffect DEF State
<1>3. codes'[c].state = "deleted" /\ codes[c].state # "deleted"
  BY <1>2 DEF Amended, Live
<1>4. Reserved(s) /\ reservations[s].code = c
  BY DEF StoreInv, LiveHoldsReservation
<1>5. PhaseOf(s) = "live" /\ PhaseOf(s)' = "retired"
  BY <1>3, <1>4 DEF PhaseOf, Reserved
<1>6. ASSUME NEW t \in ShortCode, t # s PROVE PhaseOf(t)' = PhaseOf(t)
  <2>1. CASE Reserved(t)
    <3>1. reservations[t].code \in Stored /\ codes[reservations[t].code].short = t
      BY <2>1 DEF StoreInv, LiveHoldsReservation, Reserved
    <3>2. reservations[t].code # c
      BY <3>1, <1>6
    <3> QED BY <1>2, <2>1, <3>1, <3>2 DEF PhaseOf, Reserved
  <2>2. CASE ~Reserved(t)
    BY <2>2 DEF PhaseOf, Reserved
  <2> QED BY <2>1, <2>2
<1>7. \A t \in ShortCode : HolderOf(t)' = HolderOf(t)
  BY DEF HolderOf, Reserved
<1> QED BY <1>2, <1>5, <1>6, <1>7 DEF Namespace!Retire

\* A release frees a retired short code.
LEMMA ReleaseFrees ==
  ASSUME StoreInv, NEW s \in ShortCode, ReleaseAlias(s)
  PROVE  Namespace!Release(s)
<1>1. Reserved(s) /\ \A c \in Live : codes[c].short # s
  BY ReleaseOk DEF ReleaseAlias
<1>2. codes' = codes /\ reservations' = [reservations EXCEPT ![s].released = TRUE]
  BY DEF ReleaseAlias
<1>3. ~Reserved(s)'
  BY <1>2 DEF Reserved, StoreInv, TypeOK, Reservation
<1>4. \A t \in ShortCode : t # s => reservations'[t] = reservations[t]
  BY <1>2 DEF StoreInv, TypeOK
<1>5. codes[reservations[s].code].state = "deleted"
  BY <1>1 DEF StoreInv, LiveHoldsReservation, Reserved, Live
<1>6. PhaseOf(s) = "retired" /\ PhaseOf(s)' = "free" /\ HolderOf(s)' = NoRow
  BY <1>1, <1>3, <1>5 DEF PhaseOf, HolderOf
<1>7. \A t \in ShortCode : t # s => PhaseOf(t)' = PhaseOf(t) /\ HolderOf(t)' = HolderOf(t)
  BY <1>2, <1>4 DEF PhaseOf, HolderOf, Reserved
<1>8. Stored' = Stored
  BY <1>2 DEF Stored
<1> QED BY <1>6, <1>7, <1>8 DEF Namespace!Release

\* Creating codes claims their short codes, each for its own new code.
LEMMA CreateClaims ==
  ASSUME StoreInv, NEW S \in BatchIds, NEW rows \in [S -> NewRow], CreateCodes(rows)
  PROVE  \E T \in SUBSET ShortCode : \E claimant \in [T -> CodeId] :
           Namespace!Claim(T, claimant)
<1>1. PICK T \in SUBSET ShortCode : T = {rows[c].short : c \in S}
  BY DEF NewRow
<1>2. /\ S \subseteq CodeId
      /\ S \cap Stored = {}
      /\ Stored' = Stored \cup S
      /\ Live' = Live \cup S
      /\ \A c \in Stored : codes'[c] = codes[c]
      /\ \A c \in S : reservations'[rows[c].short] = [code |-> c, released |-> FALSE]
      /\ \A s \in ShortCode \ T : reservations'[s] = reservations[s]
  BY <1>1, CreateEffect DEF StoreInv
<1>3. ASSUME NEW c \in S
      PROVE  reservations'[rows[c].short].code = c /\ ~reservations'[rows[c].short].released
  <2>1. reservations'[rows[c].short] = [code |-> c, released |-> FALSE]
    BY <1>2
  <2> QED BY <2>1
<1>4. PICK claimant \in [T -> CodeId] : \A s \in T : claimant[s] = reservations'[s].code
  <2>1. \A s \in T : reservations'[s].code \in CodeId
    BY <1>1, <1>2, <1>3
  <2>2. [s \in T |-> reservations'[s].code] \in [T -> CodeId]
    BY <2>1
  <2> QED BY <2>2
<1>5. \A c \in S : rows[c].short \in T /\ claimant[rows[c].short] = c
  BY <1>1, <1>3, <1>4
<1>6. \A s \in T : \E c \in S : s = rows[c].short
  BY <1>1
<1>7. \A c \in S : ShortFree(rows[c].short)
  BY InsertOk DEF CreateCodes
<1>8. \A s \in T : PhaseOf(s) = "free" /\ claimant[s] \notin Stored
  BY <1>2, <1>5, <1>6, <1>7 DEF ShortFree, PhaseOf
<1>9. \A s, t \in T : s # t => claimant[s] # claimant[t]
  BY <1>5, <1>6
<1>10. ASSUME NEW s \in T
       PROVE  PhaseOf(s)' = "live" /\ HolderOf(s)' = claimant[s]
  <2>1. PICK c \in S : s = rows[c].short
    BY <1>6
  <2>2. reservations'[s].code = c /\ ~reservations'[s].released /\ claimant[s] = c
    BY <1>3, <1>5, <2>1
  <2>3. c # NoRow
    BY <1>2, StoreAssumption
  <2>4. codes'[c].state # "deleted"
    BY <1>2 DEF Live
  <2> QED BY <2>2, <2>3, <2>4 DEF PhaseOf, HolderOf, Reserved
<1>11. ASSUME NEW s \in ShortCode, s \notin T
       PROVE  PhaseOf(s)' = PhaseOf(s) /\ HolderOf(s)' = HolderOf(s)
  <2>1. reservations'[s] = reservations[s]
    BY <1>2, <1>11
  <2>2. Reserved(s) => codes'[reservations[s].code] = codes[reservations[s].code]
    BY <1>2 DEF StoreInv, LiveHoldsReservation, Reserved
  <2> QED BY <2>1, <2>2 DEF PhaseOf, HolderOf, Reserved
<1>12. S = {claimant[s] : s \in T}
  BY <1>5, <1>6
<1>13. Stored' = Stored \cup {claimant[s] : s \in T}
  BY <1>2, <1>12
<1>14. \A s \in ShortCode : PhaseOf(s)' = IF s \in T THEN "live" ELSE PhaseOf(s)
  BY <1>10, <1>11
<1>15. \A s \in ShortCode : HolderOf(s)' = IF s \in T THEN claimant[s] ELSE HolderOf(s)
  BY <1>10, <1>11
<1>16. \A s \in T : /\ [x \in ShortCode |-> PhaseOf(x)][s] = "free"
                    /\ claimant[s] \notin Stored
  BY <1>1, <1>8
<1>17. Namespace!Claim(T, claimant)
  BY <1>9, <1>13, <1>14, <1>15, <1>16 DEF Namespace!Claim
<1> QED BY <1>4, <1>17

LEMMA InitClaimsNothing ==
  ASSUME StoreInit
  PROVE  Namespace!NamespaceInit
<1>1. Stored = {}
  BY DEF StoreInit, Stored
<1>2. \A s \in ShortCode : PhaseOf(s) = "free" /\ HolderOf(s) = NoRow
  BY DEF StoreInit, PhaseOf, HolderOf, Reserved
<1> QED BY <1>1, <1>2 DEF Namespace!NamespaceInit

LEMMA StepInNamespace ==
  ASSUME StoreInv, [StoreNext]_storeVars
  PROVE  [Namespace!NamespaceNext]_Namespace!namespaceVars
<1>1. ASSUME NEW S \in BatchIds, NEW rows \in [S -> NewRow], CreateCodes(rows)
      PROVE  Namespace!NamespaceNext
  BY <1>1, CreateClaims DEF Namespace!NamespaceNext
<1>2. ASSUME NEW c \in CodeId, NEW u \in User, NEW d \in Dest, NEW v \in 1..MaxVersion,
             UpdateDestination(c, u, d, v)
      PROVE  UNCHANGED Namespace!namespaceVars
  <2>1. c \in Live
    BY <1>2, UpdateOk DEF UpdateDestination
  <2>2. codes[c].state \in State \ {"deleted"}
    BY <2>1, StoredRowType DEF StoreInv, Live, Row
  <2> QED BY <1>2, <2>1, <2>2, AmendStutters DEF UpdateDestination
<1>3. ASSUME NEW c \in CodeId, NEW u \in User, NEW st \in State, SetCodeState(c, u, st)
      PROVE  UNCHANGED Namespace!namespaceVars
  <2>1. c \in Live
    BY <1>3, SetStateOk DEF SetCodeState
  <2>2. codes[c].dest \in Dest /\ st \in State \ {"deleted"}
    BY <1>3, <2>1, StoredRowType DEF StoreInv, Live, Row, SetCodeState
  <2> QED BY <1>3, <2>1, <2>2, AmendStutters DEF SetCodeState
<1>4. ASSUME NEW c \in CodeId, NEW u \in User, DeleteCode(c, u)
      PROVE  [Namespace!NamespaceNext]_Namespace!namespaceVars
  <2>1. CASE c \in Live
    <3>1. codes[c].short \in ShortCode
      BY <2>1, StoredRowType DEF StoreInv, Live, Row
    <3>2. Namespace!Retire(codes[c].short)
      <4>1. PICK s \in ShortCode : s = codes[c].short
        BY <3>1
      <4>2. Namespace!Retire(s)
        BY <1>4, <2>1, <4>1, DeleteRetires DEF DeleteCode
      <4> QED BY <4>1, <4>2
    <3> QED BY <3>1, <3>2 DEF Namespace!NamespaceNext
  <2>2. CASE c \notin Live
    <3>1. codes' = codes /\ reservations' = reservations
      BY <1>4, <2>2 DEF DeleteCode
    <3> QED BY <3>1 DEF Namespace!namespaceVars, PhaseOf, HolderOf, Reserved, Stored
  <2> QED BY <2>1, <2>2
<1>5. ASSUME NEW s \in ShortCode, ReleaseAlias(s)
      PROVE  Namespace!NamespaceNext
  BY <1>5, ReleaseFrees DEF Namespace!NamespaceNext
<1>6. CASE UNCHANGED storeVars
  BY <1>6 DEF storeVars, Namespace!namespaceVars, PhaseOf, HolderOf, Reserved, Stored
<1> QED BY <1>1, <1>2, <1>3, <1>4, <1>5, <1>6 DEF StoreNext

\* The tables implement the namespace the printed codes rely on: every
\* transaction of the store claims, retires or releases short codes exactly as
\* AliasNamespace allows.
THEOREM StoreImplementsNamespace == StoreSpec => ImplementsNamespace
<1>1. StoreSpec => []StoreInv
  BY InitInv, NextInv, PTL DEF StoreSpec
<1>2. StoreInit => Namespace!NamespaceInit
  BY InitClaimsNothing
<1>3. StoreInv /\ [StoreNext]_storeVars => [Namespace!NamespaceNext]_Namespace!namespaceVars
  BY StepInNamespace
<1> QED BY <1>1, <1>2, <1>3, PTL DEF StoreSpec, ImplementsNamespace, Namespace!NamespaceSpec
=============================================================================
