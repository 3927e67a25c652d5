------------------------- MODULE CodesServiceProofs -------------------------
(***************************************************************************)
(* Proofs about CodesService.  ServiceInv is the inductive invariant: the  *)
(* store's own invariant, and what every request in flight knows about the *)
(* rows, the blobs and the cache that other requests change under it.      *)
(***************************************************************************)
EXTENDS CodesService, CodeStoreProofs, FiniteSetTheorems

CreationOps == {"create", "batch"}
NamedStage  == {"inserted", "created", "existing"}
EarlyStage  == {"new", "alias", "pending"}

IsRequest(r) ==
  \/ r \in {Idle} \cup Update \cup Change \cup Scan
  \/ \E S \in SUBSET (1..MaxBatch) : r \in Creation(S)

\* The records of requests are typed, and a request that changes a row knows an
\* id that has one and that row's short code.
ReqInv ==
  /\ req = [w \in Worker |-> req[w]]
  /\ \A w \in Worker : IsRequest(req[w])
  /\ \A w \in Worker : req[w].op \in {"update", "state", "delete"} =>
       req[w].id \in Stored /\ req[w].short = codes[req[w].id].short

OthersTyped ==
  /\ CacheTypeOK
  /\ blobs \subseteq {"image", "logo"} \X CodeId
  /\ gone \subseteq Worker /\ overtaken \subseteq Worker /\ late \subseteq ShortCode
  /\ faults \in 0..MaxFaults /\ hangups \in 0..MaxHangups
  /\ hangups = 0 => gone = {}

\* What item it of a request of user u claims, by stage: it has no id yet, or an
\* id without a row, or an id whose row is the one it asked for.
ItemOK(it, u) ==
  /\ it.stage \in EarlyStage => it.id = NoRow
  /\ it.stage \in ItemStage \ (EarlyStage \cup NamedStage \cup {"error"}) =>
       it.id \in CodeId /\ it.short \in ShortCode
  /\ it.stage \notin NamedStage => it.id \notin Stored
  /\ it.stage = "logo" => it.in.logo
  /\ it.stage = "ready" => <<"image", it.id>> \in blobs
  /\ it.stage \in NamedStage =>
       it.id \in Stored /\ codes[it.id].user = u /\ codes[it.id].ref = it.in.ref
  /\ it.stage = "inserted" => it.short = codes[it.id].short

\* An id that has no row yet belongs to one item of one request.
IdsPrivate ==
  \A w, x \in Worker : \A i \in DOMAIN Items(w), j \in DOMAIN Items(x) :
    /\ Items(w)[i].id = Items(x)[j].id /\ Items(w)[i].id # NoRow
    /\ Items(w)[i].stage \notin NamedStage
    => w = x /\ i = j

\* Nothing is left to insert or to undo once a request's rows are in.
InsertedTogether ==
  \A w \in Worker : ItemsAt(w, {"inserted", "created"}) # {} =>
                    ItemsAt(w, ItemStage \ (Done \cup {"inserted"})) = {}

ItemsInv ==
  /\ \A w \in Worker : \A i \in DOMAIN Items(w) : ItemOK(Items(w)[i], req[w].user)
  /\ IdsPrivate
  /\ InsertedTogether

\* The blobs an item has written and answers for.
Holds(it) ==
  CASE it.stage \in {"ready", "undo"} -> BlobKeysOf(it)
    [] it.stage \in {"image", "unlogo"} /\ it.in.logo -> {<<"logo", it.id>>}
    [] OTHER -> {}

\* Until something fails or a client leaves, every blob belongs to a row or to
\* an item of a request in flight.
BlobsAccounted ==
  faults = 0 /\ hangups = 0 =>
    \A k \in blobs : \/ k[2] \in Stored
                     \/ \E w \in Worker : \E i \in DOMAIN Items(w) : k \in Holds(Items(w)[i])

CreationInv ==
  StoreInv /\ ReqInv /\ OthersTyped /\ ItemsInv /\ RowHasImage /\ BlobsAccounted

\* How far the row has moved since update r first read it, and what r knows of
\* it: the version of its last read, and that a row of that version is live
\* unless it was already deleted then.
UpdateOK(r) ==
  /\ r.pc \in {"read", "cas"} => r.first + r.tries <= codes[r.id].version + 1
  /\ r.pc = "cas" => /\ r.first + r.tries <= r.version + 1
                     /\ r.version <= codes[r.id].version
                     /\ r.version = codes[r.id].version /\ ~r.dead => r.id \in Live
  /\ r.pc = "lost" => r.first + LastWriteWinsAttempts <= codes[r.id].version

UpdateInv == \A w \in Worker : req[w].op = "update" => UpdateOK(req[w])

\* What scan w has read is what the store says now, unless it was overtaken or
\* a mutation has yet to invalidate.
FillFresh(w) ==
  \/ Seen(req[w].res) = Seen(Lookup(req[w].short))
  \/ w \in overtaken
  \/ Unsettled(req[w].short) # {}

\* The same of every scan that is about to fill the cache, and of the cache.
FreshInv ==
  /\ StaleHasCause
  /\ \A w \in Worker : req[w].op = "scan" /\ req[w].pc = "fill" => FillFresh(w)

ServiceInv == CreationInv /\ UpdateInv /\ FreshInv

-----------------------------------------------------------------------------
(* Requests and their items.                                               *)

\* The op of a request says which record it is.
LEMMA Kinds ==
  ASSUME NEW r, IsRequest(r)
  PROVE  /\ r.op \in {"idle", "create", "batch", "update", "state", "delete", "scan"}
         /\ r.op = "idle" <=> r = Idle
         /\ r.op = "update" => r \in Update
         /\ r.op \in {"state", "delete"} => r \in Change
         /\ r.op = "scan" => r \in Scan
         /\ r.op \in CreationOps => \E S \in SUBSET (1..MaxBatch) : r \in Creation(S)
<1>1. CASE r = Idle
  BY <1>1 DEF Idle, CreationOps
<1>2. CASE r \in Update
  BY <1>2 DEF Update, CreationOps, Idle
<1>3. CASE r \in Change
  BY <1>3 DEF Change, CreationOps, Idle
<1>4. CASE r \in Scan
  BY <1>4 DEF Scan, CreationOps, Idle
<1>5. CASE \E S \in SUBSET (1..MaxBatch) : r \in Creation(S)
  BY <1>5 DEF Creation, CreationOps, Idle
<1> QED BY <1>1, <1>2, <1>3, <1>4, <1>5 DEF IsRequest

\* Items(w) is a family of items, and only a creation has any.
LEMMA ItemsTyped ==
  ASSUME ReqInv, NEW w \in Worker
  PROVE  /\ req[w].op \in CreationOps => Items(w) = req[w].items /\ req[w].user \in User
         /\ req[w].op \notin CreationOps => DOMAIN Items(w) = {}
         /\ DOMAIN Items(w) \subseteq 1..MaxBatch
         /\ Items(w) = [i \in DOMAIN Items(w) |-> Items(w)[i]]
         /\ \A i \in DOMAIN Items(w) : Items(w)[i] \in Item
<1>1. CASE req[w].op \in CreationOps
  <2>1. PICK S \in SUBSET (1..MaxBatch) : req[w] \in Creation(S)
    BY <1>1, Kinds DEF ReqInv
  <2>2. Items(w) = req[w].items
    BY <1>1 DEF Items, CreationOps
  <2>3. Items(w) \in [S -> Item] /\ req[w].user \in User
    BY <2>1, <2>2 DEF Creation
  <2> QED BY <1>1, <2>2, <2>3
<1>2. CASE req[w].op \notin CreationOps
  <2>1. Items(w) = << >>
    BY <1>2 DEF Items, CreationOps
  <2> QED BY <1>2, <2>1
<1> QED BY <1>1, <1>2

\* Become replaces one request.
LEMMA BecomeReq ==
  ASSUME ReqInv, NEW w \in Worker, NEW r, Become(w, r)
  PROVE  /\ req' = [x \in Worker |-> req'[x]]
         /\ req'[w] = r
         /\ \A x \in Worker \ {w} : req'[x] = req[x] /\ Items(x)' = Items(x)
<1>1. req' = [x \in Worker |-> IF x = w THEN r ELSE req[x]]
  BY DEF ReqInv, Become
<1>2. \A x \in Worker \ {w} : Items(x)' = Items(x)
  BY <1>1 DEF Items
<1> QED BY <1>1, <1>2

\* A request that becomes a well-formed one, while the store makes a step of its
\* own: what ReqInv says of the others still holds.
LEMMA ReqStep ==
  ASSUME ReqInv, Forward, NEW w \in Worker, NEW r, IsRequest(r), Become(w, r),
         r.op \in {"update", "state", "delete"} =>
           r.id \in Stored' /\ r.short = codes'[r.id].short
  PROVE  ReqInv'
<1>1. /\ req' = [x \in Worker |-> req'[x]]
      /\ req'[w] = r
      /\ \A x \in Worker \ {w} : req'[x] = req[x]
  BY BecomeReq
<1>2. \A c \in Stored : c \in Stored' /\ codes'[c].short = codes[c].short
  BY DEF Forward
<1>3. ASSUME NEW x \in Worker
      PROVE  /\ IsRequest(req'[x])
             /\ req'[x].op \in {"update", "state", "delete"} =>
                  req'[x].id \in Stored' /\ req'[x].short = codes'[req'[x].id].short
  <2>1. CASE x = w
    BY <1>1, <2>1
  <2>2. CASE x # w
    BY <1>1, <1>2, <2>2 DEF ReqInv
  <2> QED BY <2>1, <2>2
<1>4. \A x \in Worker : IsRequest(req[x])'
  BY <1>3 DEF IsRequest
<1> QED BY <1>1, <1>3, <1>4 DEF ReqInv

\* Requests stay as they are while the store makes a step.
LEMMA ReqStays ==
  ASSUME ReqInv, Forward, UNCHANGED req
  PROVE  ReqInv' /\ \A x \in Worker : Items(x)' = Items(x)
<1>1. \A c \in Stored : c \in Stored' /\ codes'[c].short = codes[c].short
  BY DEF Forward
<1>2. \A x \in Worker : Items(x)' = Items(x)
  BY DEF Items
<1>3. \A x \in Worker : IsRequest(req[x])'
  BY DEF IsRequest, ReqInv
<1> QED BY <1>1, <1>2, <1>3 DEF ReqInv

\* Neither before nor after does the request have items.
LEMMA NoItems ==
  ASSUME ReqInv, NEW w \in Worker, NEW r, Become(w, r),
         req[w].op \notin CreationOps, r.op \notin CreationOps
  PROVE  \A x \in Worker : Items(x)' = Items(x)
<1>1. req'[w] = r /\ \A x \in Worker \ {w} : Items(x)' = Items(x)
  BY BecomeReq
<1>2. Items(w) = << >> /\ Items(w)' = << >>
  BY <1>1 DEF Items, CreationOps
<1> QED BY <1>1, <1>2

\* Replacing an item of a request.
ItemStep(w, i, it) ==
  /\ req'[w].op = req[w].op /\ req'[w].user = req[w].user
  /\ Items(w)' = [Items(w) EXCEPT ![i] = it]
  /\ \A x \in Worker \ {w} : req'[x] = req[x] /\ Items(x)' = Items(x)

\* What Undo does to a request whose short code is drawn again.
Redraw(w, i, it) ==
  \E n \in 1..GenerateAttempts, e \in {"none", "alias_taken", "client_ref_taken", "failed"} :
    Become(w, [req[w] EXCEPT !.items[i] = it, !.tries = n, !.err = e])

\* SetItem, and the redraw of Undo, replace an item and keep requests well formed.
LEMMA ItemStepReq ==
  ASSUME ReqInv, Forward, NEW w \in Worker, NEW i \in DOMAIN Items(w), NEW it \in Item,
         SetItem(w, i, it) \/ Redraw(w, i, it)
  PROVE  ItemStep(w, i, it) /\ ReqInv'
<1>1. req[w].op \in CreationOps /\ Items(w) = req[w].items
  BY ItemsTyped
<1>2. PICK S \in SUBSET (1..MaxBatch) : req[w] \in Creation(S)
  BY <1>1, Kinds DEF ReqInv
<1>3. i \in S
  BY <1>1, <1>2 DEF Creation
<1>q. PICK q \in Creation(S) : q = req[w]
  BY <1>2
<1>4. PICK r \in Creation(S) : /\ Become(w, r) /\ r.items = [req[w].items EXCEPT ![i] = it]
                               /\ r.op = req[w].op /\ r.user = req[w].user
  <2>0. PICK its \in [S -> Item] : its = [q.items EXCEPT ![i] = it]
    BY <1>3 DEF Creation
  <2>1. CASE SetItem(w, i, it)
    <3>1. [q EXCEPT !.items[i] = it] = [q EXCEPT !.items = its]
      BY <2>0
    <3>2. PICK r : r = [q EXCEPT !.items = its]
      OBVIOUS
    <3>3. r \in Creation(S) /\ r.items = its /\ r.op = q.op /\ r.user = q.user
      BY <3>2 DEF Creation
    <3>4. Become(w, r)
      BY <1>q, <2>1, <3>1, <3>2, Zenon DEF SetItem
    <3> QED BY <1>q, <2>0, <3>3, <3>4
  <2>2. CASE ~SetItem(w, i, it)
    <3>1. PICK n \in 1..GenerateAttempts, e \in {"none", "alias_taken", "client_ref_taken", "failed"} :
            Become(w, [q EXCEPT !.items[i] = it, !.tries = n, !.err = e])
      BY <1>q, <2>2, Zenon DEF Redraw
    <3>2. [q EXCEPT !.items[i] = it, !.tries = n, !.err = e]
          = [q EXCEPT !.items = its, !.tries = n, !.err = e]
      BY <2>0
    <3>3. PICK r : r = [q EXCEPT !.items = its, !.tries = n, !.err = e]
      OBVIOUS
    <3>4. r \in Creation(S) /\ r.items = its /\ r.op = q.op /\ r.user = q.user
      BY <3>3 DEF Creation
    <3>5. Become(w, r)
      BY <3>1, <3>2, <3>3, Zenon
    <3> QED BY <1>q, <2>0, <3>4, <3>5
  <2> QED BY <2>1, <2>2
<1>5. IsRequest(r)
  BY <1>4 DEF IsRequest
<1>6. ReqInv'
  BY <1>1, <1>4, <1>5, ReqStep DEF CreationOps
<1>7. req'[w] = r /\ \A x \in Worker \ {w} : req'[x] = req[x] /\ Items(x)' = Items(x)
  BY <1>4, BecomeReq
<1>8. Items(w)' = r.items
  BY <1>1, <1>4, <1>7 DEF Items, CreationOps
<1> QED BY <1>1, <1>4, <1>6, <1>7, <1>8 DEF ItemStep

\* The items after one was replaced.
LEMMA ItemStepItems ==
  ASSUME ReqInv, NEW w \in Worker, NEW i \in DOMAIN Items(w), NEW it, ItemStep(w, i, it)
  PROVE  /\ \A x \in Worker : DOMAIN Items(x)' = DOMAIN Items(x)
         /\ Items(w)'[i] = it
         /\ \A x \in Worker : \A j \in DOMAIN Items(x) :
              x # w \/ j # i => Items(x)'[j] = Items(x)[j]
         /\ \A x \in Worker : DOMAIN Items(x) # {} => req'[x].user = req[x].user
  BY ItemsTyped DEF ItemStep

\* An item keeps its id, draws a fresh one, gives one up, or names a row; it
\* joins the inserted ones only from there.
ItemMove(old, it) ==
  /\ it.id \in {old.id, NoRow} \/ it.id \in FreshId \/ it.stage \in NamedStage
  /\ it.stage \notin NamedStage => old.stage \notin NamedStage
  /\ it.stage \in {"inserted", "created"} => old.stage = "inserted"
  /\ old.stage \in Done \cup {"inserted"} => it.stage \in Done \cup {"inserted"}

\* Its step deletes no blob but its own, and without trouble leaves no blob that
\* it does not hold.
BlobMove(old, it) ==
  /\ \A k \in blobs \ blobs' : old.stage \in {"unlogo", "undo"} /\ k[2] = old.id
  /\ faults' = 0 /\ hangups' = 0 =>
       /\ faults = 0 /\ hangups = 0
       /\ \A k \in blobs' : k \in Holds(it) \/ (k \in blobs /\ k \notin Holds(old))

\* An item moves on and the store does not change: it keeps its id, draws a
\* fresh one, gives one up, or names a row; it deletes no blob but its own.
LEMMA ItemStepKeeps ==
  ASSUME StoreInv, ReqInv, ItemsInv, RowHasImage, UNCHANGED storeVars,
         NEW w \in Worker, NEW i \in DOMAIN Items(w), NEW it \in Item, ItemStep(w, i, it),
         NEW old, old = Items(w)[i],
         NEW u, u = req[w].user, ItemOK(it, u)',
         ItemMove(old, it), BlobMove(old, it)
  PROVE  ItemsInv' /\ RowHasImage'
<1> USE DEF ItemMove, BlobMove
<1>1. /\ \A x \in Worker : DOMAIN Items(x)' = DOMAIN Items(x)
      /\ Items(w)'[i] = it
      /\ \A x \in Worker : \A j \in DOMAIN Items(x) :
           x # w \/ j # i => Items(x)'[j] = Items(x)[j]
      /\ \A x \in Worker : DOMAIN Items(x) # {} => req'[x].user = req[x].user
  BY ItemStepItems
<1>2. Stored' = Stored /\ codes' = codes
  BY DEF storeVars, Stored
<1>3. ItemOK(old, u) /\ old \in Item
  BY ItemsTyped DEF ItemsInv
<1>4. \A k \in blobs \ blobs' : k[2] \notin Stored
  BY <1>3 DEF ItemOK, NamedStage
<1>5. RowHasImage'
  <2>1. \A c \in Stored : <<"image", c>> \in blobs /\ <<"image", c>>[2] = c
    BY DEF RowHasImage
  <2> QED BY <1>2, <1>4, <2>1 DEF RowHasImage
<1>6. ASSUME NEW x \in Worker, NEW j \in DOMAIN Items(x), x # w \/ j # i
      PROVE  ItemOK(Items(x)[j], req[x].user)'
  <2>1. PICK o \in Item : o = Items(x)[j]
    BY ItemsTyped
  <2>2. PICK v : v = req[x].user
    OBVIOUS
  <2>3. ItemOK(o, v)
    BY <2>1, <2>2 DEF ItemsInv
  <2>4. o.stage = "ready" => <<"image", o.id>> \in blobs'
    <3> SUFFICES ASSUME o.stage = "ready", <<"image", o.id>> \notin blobs' PROVE FALSE
      OBVIOUS
    <3>1. <<"image", o.id>> \in blobs \ blobs' /\ <<"image", o.id>>[2] = o.id
      BY <2>3 DEF ItemOK
    <3>2. old.id = o.id /\ old.stage \notin NamedStage
      BY <3>1 DEF NamedStage
    <3>3. o.id # NoRow
      BY <2>3, StoreAssumption DEF ItemOK, ItemStage, EarlyStage, NamedStage
    <3> QED BY <1>6, <2>1, <3>2, <3>3 DEF ItemsInv, IdsPrivate
  <2>5. ItemOK(o, v)'
    BY <1>2, <2>3, <2>4 DEF ItemOK
  <2>6. Items(x)'[j] = o /\ req'[x].user = v
    BY <1>1, <1>6, <2>1, <2>2
  <2> QED BY <2>5, <2>6 DEF ItemOK
<1>7. \A x \in Worker : \A j \in DOMAIN Items(x)' : ItemOK(Items(x)[j], req[x].user)'
  <2>1. ItemOK(Items(w)[i], req[w].user)'
    <3>1. req'[w].user = u
      BY <1>1
    <3> QED BY <1>1, <3>1 DEF ItemOK
  <2> QED BY <1>1, <1>6, <2>1
<1>8. IdsPrivate'
  <2>1. \A x \in Worker : \A j \in DOMAIN Items(x) : Items(x)[j].id # it.id \/ it.id \notin FreshId
    BY DEF FreshId
  <2> SUFFICES ASSUME NEW x \in Worker, NEW y \in Worker,
                      NEW j \in DOMAIN Items(x)', NEW k \in DOMAIN Items(y)',
                      Items(x)'[j].id = Items(y)'[k].id, Items(x)'[j].id # NoRow,
                      Items(x)'[j].stage \notin NamedStage
               PROVE  x = y /\ j = k
    BY DEF IdsPrivate
  <2>0. j \in DOMAIN Items(x) /\ k \in DOMAIN Items(y)
    BY <1>1
  <2>2. CASE (x # w \/ j # i) /\ (y # w \/ k # i)
    BY <1>1, <2>0, <2>2 DEF ItemsInv, IdsPrivate
  <2>3. CASE x = w /\ j = i /\ (y # w \/ k # i)
    <3>1. it.id = Items(y)[k].id /\ it.stage \notin NamedStage /\ it.id # NoRow
      BY <1>1, <2>0, <2>3
    <3>2. it.id = old.id /\ old.stage \notin NamedStage
      BY <2>0, <2>1, <3>1
    <3>3. Items(w)[i].id = Items(y)[k].id /\ Items(w)[i].id # NoRow
          /\ Items(w)[i].stage \notin NamedStage
      BY <3>1, <3>2
    <3>4. w = y /\ i = k
      BY <2>0, <3>3 DEF ItemsInv, IdsPrivate
    <3> QED BY <2>3, <3>4
  <2>4. CASE (x # w \/ j # i) /\ y = w /\ k = i
    <3>1. it.id = Items(x)[j].id /\ Items(x)[j].stage \notin NamedStage /\ it.id # NoRow
      BY <1>1, <2>0, <2>4
    <3>2. it.stage \notin NamedStage
      <4>1. Items(x)[j].id \notin Stored
        BY <2>0, <3>1 DEF ItemsInv, ItemOK
      <4> QED BY <1>2, <3>1, <4>1 DEF ItemOK
    <3>3. it.id = old.id
      BY <2>0, <2>1, <3>1, <3>2
    <3>4. Items(x)[j].id = Items(w)[i].id /\ Items(x)[j].id # NoRow
          /\ Items(x)[j].stage \notin NamedStage
      BY <3>1, <3>3
    <3>5. x = w /\ j = i
      BY <2>0, <3>4 DEF ItemsInv, IdsPrivate
    <3> QED BY <2>4, <3>5
  <2> QED BY <2>2, <2>3, <2>4
<1>9. InsertedTogether'
  <2> SUFFICES ASSUME NEW x \in Worker,
                      NEW j \in DOMAIN Items(x), Items(x)'[j].stage \in {"inserted", "created"},
                      NEW k \in DOMAIN Items(x), Items(x)'[k].stage \in ItemStage \ (Done \cup {"inserted"})
               PROVE  FALSE
    BY <1>1 DEF InsertedTogether, ItemsAt
  <2>1. \E l \in DOMAIN Items(x) : Items(x)[l].stage \in {"inserted", "created"}
    BY <1>1
  <2>2. \A l \in DOMAIN Items(x) : Items(x)[l].stage \in Done \cup {"inserted"}
    <3>1. \A l \in DOMAIN Items(x) : Items(x)[l].stage \in ItemStage
      BY ItemsTyped DEF Item
    <3> QED BY <2>1, <3>1 DEF ItemsInv, InsertedTogether, ItemsAt
  <2> QED BY <1>1, <2>2
<1> QED BY <1>5, <1>7, <1>8, <1>9 DEF ItemsInv

\* An item moves on, and answers for the blobs it writes and leaves.
LEMMA ItemStepBlobs ==
  ASSUME ReqInv, BlobsAccounted, UNCHANGED storeVars,
         NEW w \in Worker, NEW i \in DOMAIN Items(w), NEW it \in Item, ItemStep(w, i, it),
         NEW old, old = Items(w)[i],
         BlobMove(old, it)
  PROVE  BlobsAccounted'
<1> USE DEF BlobMove
<1> SUFFICES ASSUME faults' = 0, hangups' = 0, NEW k \in blobs', k[2] \notin Stored'
             PROVE  \E x \in Worker : \E j \in DOMAIN Items(x)' : k \in Holds(Items(x)'[j])
  BY DEF BlobsAccounted, Holds, BlobKeysOf
<1>1. /\ \A x \in Worker : DOMAIN Items(x)' = DOMAIN Items(x)
      /\ Items(w)'[i] = it
      /\ \A x \in Worker : \A j \in DOMAIN Items(x) :
           x # w \/ j # i => Items(x)'[j] = Items(x)[j]
  BY ItemStepItems
<1>2. CASE k \in Holds(it)
  BY <1>1, <1>2
<1>3. CASE k \in blobs /\ k \notin Holds(old)
  <2>1. k[2] \notin Stored
    BY DEF storeVars, Stored
  <2>2. PICK x \in Worker : \E j \in DOMAIN Items(x) : k \in Holds(Items(x)[j])
    BY <1>3, <2>1 DEF BlobsAccounted
  <2>3. PICK j \in DOMAIN Items(x) : k \in Holds(Items(x)[j])
    BY <2>2
  <2>4. x # w \/ j # i
    BY <1>3, <2>3
  <2>5. j \in DOMAIN Items(x)' /\ Items(x)'[j] = Items(x)[j]
    BY <1>1, <2>4
  <2> QED BY <2>3, <2>5
<1> QED BY <1>2, <1>3

\* What a call leaves of the counters; a failed one is trouble.
LEMMA Calls ==
  ASSUME OthersTyped, NEW w \in Worker, CallWorks(w) \/ CallFails(w) \/ UNCHANGED callVars
  PROVE  /\ gone' = gone /\ hangups' = hangups /\ faults' \in 0..MaxFaults
         /\ faults' = 0 => faults = 0
         /\ CallFails(w) => ~(faults' = 0 /\ hangups' = 0)
<1>1. MaxFaults \in Nat
  BY Zenon, ServiceAssumption
<1>2. PICK f \in 0..MaxFaults : f = faults
  BY DEF OthersTyped
<1>3. CASE CallWorks(w) \/ UNCHANGED callVars
  <2>1. gone' = gone /\ hangups' = hangups /\ faults' = faults
    BY <1>3 DEF CallWorks, callVars
  <2>2. CallFails(w) => w \in gone
    BY <1>2, <2>1 DEF CallFails
  <2> QED BY <1>2, <2>1, <2>2 DEF OthersTyped
<1>4. CASE CallFails(w) /\ w \in gone
  <2>1. gone' = gone /\ hangups' = hangups /\ faults' = faults
    BY <1>4 DEF CallFails, callVars
  <2> QED BY <1>2, <1>4, <2>1 DEF OthersTyped
<1>5. CASE CallFails(w) /\ w \notin gone
  BY <1>1, <1>2, <1>5 DEF CallFails
<1> QED BY <1>3, <1>4, <1>5

\* The blobs stay keys of codes, the counters typed.
LEMMA OthersKept ==
  ASSUME OthersTyped, NEW w \in Worker, CallWorks(w) \/ CallFails(w) \/ UNCHANGED callVars,
         UNCHANGED cacheVars, blobs' \subseteq {"image", "logo"} \X CodeId
  PROVE  OthersTyped'
<1>1. gone' = gone /\ hangups' = hangups /\ faults' \in 0..MaxFaults
  BY Calls
<1>2. cache' = cache /\ overtaken' = overtaken /\ late' = late
  BY DEF cacheVars
<1> QED BY <1>1, <1>2 DEF OthersTyped, CacheTypeOK

\* The store does not move.
LEMMA StoreStays ==
  ASSUME StoreInv, UNCHANGED storeVars
  PROVE  StoreInv' /\ Forward
  BY NextInv, StepMovesForward

\* The lemmas above, for a step that replaces one item.
LEMMA ItemStepInv ==
  ASSUME CreationInv, UNCHANGED storeVars, OthersTyped',
         NEW w \in Worker, NEW i \in DOMAIN Items(w), NEW it \in Item,
         SetItem(w, i, it) \/ Redraw(w, i, it),
         NEW old, old = Items(w)[i],
         NEW u, u = req[w].user, ItemOK(it, u)',
         ItemMove(old, it), BlobMove(old, it)
  PROVE  CreationInv'
<1>1. StoreInv /\ ReqInv /\ OthersTyped /\ ItemsInv /\ RowHasImage /\ BlobsAccounted
  BY DEF CreationInv
<1>2. StoreInv' /\ Forward
  BY <1>1, StoreStays
<1>3. ItemStep(w, i, it) /\ ReqInv'
  BY <1>1, <1>2, ItemStepReq
<1>4. ItemsInv' /\ RowHasImage'
  BY <1>1, <1>3, ItemStepKeeps
<1>5. BlobsAccounted'
  BY <1>1, <1>3, ItemStepBlobs
<1> QED BY <1>2, <1>3, <1>4, <1>5 DEF CreationInv

\* An item that changes only its stage.
LEMMA Staged ==
  ASSUME NEW old \in Item, NEW s \in ItemStage, NEW it, it = [old EXCEPT !.stage = s]
  PROVE  /\ it \in Item /\ it.stage = s
         /\ it.id = old.id /\ it.in = old.in /\ it.short = old.short
  BY DEF Item

\* An item of a request whose rows are not in moves on to another such stage.
LEMMA SetStageInv ==
  ASSUME CreationInv, UNCHANGED storeVars, OthersTyped',
         NEW w \in Worker, NEW i \in DOMAIN Items(w),
         NEW old, old = Items(w)[i], old.stage \notin NamedStage \cup {"error"},
         NEW s \in ItemStage \ (NamedStage \cup {"logo"}), SetStage(w, i, s),
         s \in EarlyStage => old.stage \in EarlyStage,
         s \notin EarlyStage \cup {"error"} => old.stage \notin EarlyStage,
         s = "ready" => <<"image", old.id>> \in blobs',
         NEW it, it = [old EXCEPT !.stage = s],
         BlobMove(old, it)
  PROVE  CreationInv'
<1>1. old \in Item /\ ItemOK(old, req[w].user)
  BY ItemsTyped DEF CreationInv, ItemsInv
<1>2. /\ it \in Item /\ it.stage = s
      /\ it.id = old.id /\ it.in = old.in /\ it.short = old.short
  BY <1>1, Staged
<1>3. PICK u : u = req[w].user
  OBVIOUS
<1>4. Stored' = Stored
  BY DEF storeVars, Stored
<1>5. old.stage \in ItemStage
  BY <1>1 DEF Item
<1>6. ItemOK(it, u)'
  BY <1>1, <1>2, <1>4, <1>5 DEF ItemOK, EarlyStage, NamedStage
<1>7. SetItem(w, i, it)
  BY DEF SetStage
<1>8. /\ it.stage \notin NamedStage /\ it.stage \notin {"inserted", "created"}
      /\ old.stage \notin Done \cup {"inserted"}
  BY <1>2 DEF NamedStage, Done
<1>9. ItemMove(old, it)
  BY <1>2, <1>8 DEF ItemMove
<1> QED BY <1>2, <1>3, <1>6, <1>7, <1>9, ItemStepInv

-----------------------------------------------------------------------------
(* The steps of one item.                                                  *)

\* An item that has written nothing yet goes on checking, or fails.
LEMMA EarlyStageInv ==
  ASSUME CreationInv, NEW w \in Worker, NEW i \in DOMAIN Items(w),
         Items(w)[i].stage \in EarlyStage,
         CallWorks(w) \/ CallFails(w) \/ UNCHANGED callVars,
         UNCHANGED <<blobs, cacheVars, storeVars>>,
         NEW s \in EarlyStage \cup {"error"}, SetStage(w, i, s)
  PROVE  CreationInv'
<1>1. PICK old \in Item : old = Items(w)[i]
  BY ItemsTyped DEF CreationInv
<1>2. PICK it : it = [old EXCEPT !.stage = s]
  OBVIOUS
<1>3. blobs' = blobs /\ UNCHANGED cacheVars /\ UNCHANGED storeVars
  OBVIOUS
<1>4. OthersTyped'
  BY <1>3, OthersKept DEF CreationInv, OthersTyped
<1>5. faults' = 0 /\ hangups' = 0 => faults = 0 /\ hangups = 0
  BY Calls DEF CreationInv
<1>6. Holds(old) = {}
  BY <1>1 DEF Holds, EarlyStage
<1>7. old.stage \in EarlyStage /\ old.stage \notin NamedStage \cup {"error"} /\ s \in ItemStage \ (NamedStage \cup {"logo"})
  BY <1>1 DEF EarlyStage, NamedStage, ItemStage
<1>8. s # "ready"
  BY DEF EarlyStage
<1>9. faults' = 0 /\ hangups' = 0 =>
        /\ faults = 0 /\ hangups = 0
        /\ \A k \in blobs' : k \in Holds(it) \/ (k \in blobs /\ k \notin Holds(old))
  BY <1>3, <1>5, <1>6
<1>10. BlobMove(old, it)
  BY <1>3, <1>9 DEF BlobMove
<1> QED BY <1>1, <1>2, <1>3, <1>4, <1>7, <1>8, <1>10, SetStageInv

\* The pre-check of a client_ref.
LEMMA CheckRefInv ==
  ASSUME CreationInv, NEW w \in Worker, NEW i \in DOMAIN Items(w), CheckRef(w, i)
  PROVE  CreationInv'
<1>1. PICK old \in Item : old = Items(w)[i]
  BY ItemsTyped DEF CreationInv
<1>2. old.stage = "new" /\ UNCHANGED <<blobs, cacheVars, storeVars>>
  BY <1>1 DEF CheckRef
<1>3. CallWorks(w) \/ CallFails(w) \/ UNCHANGED callVars
  BY DEF CheckRef
<1>4. Prepared(old.in) \in {"error", "pending", "alias"}
  BY DEF Prepared
<1>5. ASSUME NEW s \in {"error", "pending", "alias"}, SetStage(w, i, s)
      PROVE  CreationInv'
  <2>1. s \in EarlyStage \cup {"error"} /\ old.stage \in EarlyStage
    BY <1>2 DEF EarlyStage
  <2> QED BY <1>1, <1>2, <1>3, <1>5, <2>1, EarlyStageInv
<1>6. ASSUME NEW c \in GetCodeByClientRef(req[w].user, old.in.ref),
             SetItem(w, i, [old EXCEPT !.stage = "existing", !.id = c])
      PROVE  CreationInv'
  <2>1. PICK u : u = req[w].user
    OBVIOUS
  <2>2. c \in Stored /\ codes[c].user = u /\ codes[c].ref = old.in.ref
    BY <2>1 DEF GetCodeByClientRef
  <2>3. PICK it : it = [old EXCEPT !.stage = "existing", !.id = c]
    OBVIOUS
  <2>4. it \in Item /\ it.stage = "existing" /\ it.id = c /\ it.in = old.in
    BY <2>2, <2>3 DEF Item, ItemStage, Stored
  <2>5. Stored' = Stored /\ codes' = codes /\ blobs' = blobs /\ UNCHANGED cacheVars
    BY <1>2 DEF storeVars, Stored
  <2>6. ItemOK(it, u)'
    BY <2>2, <2>4, <2>5 DEF ItemOK, NamedStage, EarlyStage
  <2>7. OthersTyped'
    BY <1>3, <2>5, OthersKept DEF CreationInv, OthersTyped
  <2>8. Holds(old) = {}
    BY <1>2 DEF Holds
  <2>9. faults' = 0 /\ hangups' = 0 =>
          /\ faults = 0 /\ hangups = 0
          /\ \A k \in blobs' : k \in Holds(it) \/ (k \in blobs /\ k \notin Holds(old))
    BY <1>3, <2>5, <2>8, Calls DEF CreationInv
  <2>10. BlobMove(old, it)
    BY <2>5, <2>9 DEF BlobMove
  <2>11. ItemMove(old, it)
    BY <1>2, <2>4 DEF NamedStage, Done, ItemMove
  <2>12. SetItem(w, i, it) /\ UNCHANGED storeVars
    BY <1>2, <1>6, <2>3
  <2> QED BY <1>1, <2>1, <2>4, <2>6, <2>7, <2>10, <2>11, <2>12, ItemStepInv
<1>7. \/ SetStage(w, i, Prepared(old.in)) \/ SetStage(w, i, "error")
      \/ \E c \in GetCodeByClientRef(req[w].user, old.in.ref) :
           SetItem(w, i, [old EXCEPT !.stage = "existing", !.id = c])
  BY <1>1, Zenon DEF CheckRef
<1> QED BY <1>4, <1>5, <1>6, <1>7

\* The pre-check of an alias.
LEMMA CheckAliasInv ==
  ASSUME CreationInv, NEW w \in Worker, NEW i \in DOMAIN Items(w), CheckAlias(w, i)
  PROVE  CreationInv'
<1>1. Items(w)[i].stage \in EarlyStage /\ UNCHANGED <<blobs, cacheVars, storeVars>>
  BY DEF CheckAlias, EarlyStage
<1>2. CallWorks(w) \/ CallFails(w) \/ UNCHANGED callVars
  BY DEF CheckAlias
<1>3. SetStage(w, i, "error") \/ SetStage(w, i, "pending")
  BY DEF CheckAlias
<1>4. {"error", "pending"} \subseteq EarlyStage \cup {"error"}
  BY DEF EarlyStage
<1> QED BY <1>1, <1>2, <1>3, <1>4, EarlyStageInv

\* The item's goroutine draws an id nothing mentions.
LEMMA RenderInv ==
  ASSUME CreationInv, NEW w \in Worker, NEW i \in DOMAIN Items(w), Render(w, i)
  PROVE  CreationInv'
<1>1. PICK old \in Item : old = Items(w)[i]
  BY ItemsTyped DEF CreationInv
<1>2. old.stage = "pending" /\ UNCHANGED <<blobs, cacheVars, storeVars>>
  BY <1>1 DEF Render
<1>3. CASE CallFails(w) /\ SetStage(w, i, "error")
  <2>1. "error" \in EarlyStage \cup {"error"} /\ old.stage \in EarlyStage
    BY <1>2 DEF EarlyStage
  <2> QED BY <1>1, <1>2, <1>3, <2>1, EarlyStageInv
<1>4. ASSUME UNCHANGED callVars, NEW c \in FreshId,
             NEW s \in IF old.in.alias = NoAlias THEN Generated ELSE {old.in.alias},
             SetItem(w, i, Rendered(old, c, s))
      PROVE  CreationInv'
  <2>1. PICK u : u = req[w].user
    OBVIOUS
  <2>2. s \in ShortCode
    <3>1. old.in.alias \in (ShortCode \ Generated) \cup {NoAlias}
      BY DEF Item, Input
    <3>2. Generated \subseteq ShortCode
      BY Zenon, ServiceAssumption
    <3> QED BY <3>1, <3>2
  <2>3. PICK it : it = Rendered(old, c, s)
    OBVIOUS
  <2>4. c \in CodeId /\ c \notin Stored /\ c # NoRow
    BY StoreAssumption DEF FreshId
  <2>5. /\ it \in Item /\ it.stage \in {"logo", "image"} /\ it.id = c /\ it.short = s
        /\ it.stage = "logo" => it.in.logo
    BY <2>2, <2>3, <2>4 DEF Item, ItemStage, Rendered, Input
  <2>6. Stored' = Stored /\ blobs' = blobs /\ UNCHANGED cacheVars
    BY <1>2 DEF storeVars, Stored
  <2>7. ItemOK(it, u)'
    BY <2>2, <2>4, <2>5, <2>6 DEF ItemOK, NamedStage, EarlyStage
  <2>8. OthersTyped'
    BY <1>4, <2>6, OthersKept DEF CreationInv, OthersTyped
  <2>9. Holds(old) = {}
    BY <1>2 DEF Holds
  <2>10. faults' = 0 /\ hangups' = 0 =>
           /\ faults = 0 /\ hangups = 0
           /\ \A k \in blobs' : k \in Holds(it) \/ (k \in blobs /\ k \notin Holds(old))
    BY <1>4, <2>6, <2>9, Calls DEF CreationInv
  <2>11. BlobMove(old, it)
    BY <2>6, <2>10 DEF BlobMove
  <2>12. ItemMove(old, it)
    BY <1>2, <2>5 DEF NamedStage, Done, ItemMove
  <2>13. SetItem(w, i, it) /\ UNCHANGED storeVars
    BY <1>2, <1>4, <2>3
  <2> QED BY <1>1, <2>1, <2>5, <2>7, <2>8, <2>11, <2>12, <2>13, ItemStepInv
<1>5. \/ CallFails(w) /\ SetStage(w, i, "error")
      \/ /\ UNCHANGED callVars
         /\ \E c \in FreshId, s \in IF old.in.alias = NoAlias THEN Generated ELSE {old.in.alias} :
              SetItem(w, i, Rendered(old, c, s))
  BY <1>1, Zenon DEF Render
<1> QED BY <1>3, <1>4, <1>5

\* A Put adds at most the key it was given.
LEMMA PutFailsKeeps ==
  ASSUME NEW w, NEW key, PutFails(w, key)
  PROVE  CallFails(w) /\ blobs \subseteq blobs' /\ blobs' \subseteq blobs \cup {key}
  BY DEF PutFails

\* The logo is stored first.
LEMMA PutLogoInv ==
  ASSUME CreationInv, NEW w \in Worker, NEW i \in DOMAIN Items(w), PutLogo(w, i)
  PROVE  CreationInv'
<1>1. PICK old \in Item : old = Items(w)[i]
  BY ItemsTyped DEF CreationInv
<1>2. old.stage = "logo" /\ UNCHANGED cacheVars /\ UNCHANGED storeVars
  BY <1>1 DEF PutLogo, ItemsAt
<1>3. old.id \in CodeId /\ old.in.logo
  BY <1>1, <1>2 DEF CreationInv, ItemsInv, ItemOK, EarlyStage, NamedStage, ItemStage
<1>4. PICK s \in {"image", "error"} :
        /\ SetStage(w, i, s)
        /\ blobs \subseteq blobs' /\ blobs' \subseteq blobs \cup {<<"logo", old.id>>}
        /\ (CallWorks(w) /\ s = "image") \/ CallFails(w)
  BY <1>1, PutFailsKeeps DEF PutLogo
<1>5. PICK it : it = [old EXCEPT !.stage = s]
  OBVIOUS
<1>6. OthersTyped'
  <2>1. blobs' \subseteq {"image", "logo"} \X CodeId
    BY <1>3, <1>4 DEF CreationInv, OthersTyped
  <2> QED BY <1>2, <1>4, <2>1, OthersKept DEF CreationInv
<1>7. Holds(old) = {}
  BY <1>2 DEF Holds
<1>8. CallWorks(w) => Holds(it) = {<<"logo", old.id>>} \/ CallFails(w)
  <2> SUFFICES ASSUME s = "image" PROVE Holds(it) = {<<"logo", old.id>>}
    BY <1>4
  <2>1. it.stage = "image" /\ it.in = old.in /\ it.id = old.id
    BY <1>5, Staged DEF ItemStage
  <2> QED BY <1>3, <2>1 DEF Holds
<1>9. faults' = 0 /\ hangups' = 0 =>
        /\ faults = 0 /\ hangups = 0
        /\ \A k \in blobs' : k \in Holds(it) \/ (k \in blobs /\ k \notin Holds(old))
  <2> SUFFICES ASSUME faults' = 0, hangups' = 0
               PROVE  /\ faults = 0 /\ hangups = 0
                      /\ \A k \in blobs' : k \in Holds(it) \/ (k \in blobs /\ k \notin Holds(old))
    OBVIOUS
  <2>1. ~CallFails(w) /\ faults = 0 /\ hangups = 0
    BY <1>4, Calls DEF CreationInv
  <2> QED BY <1>4, <1>7, <1>8, <2>1
<1>10. BlobMove(old, it)
  BY <1>4, <1>9 DEF BlobMove
<1>11. /\ s \in ItemStage \ (NamedStage \cup {"logo"}) /\ old.stage \notin NamedStage \cup {"error"}
       /\ s \notin EarlyStage /\ s # "ready" /\ old.stage \notin EarlyStage
  BY <1>2 DEF ItemStage, NamedStage, EarlyStage
<1> QED BY <1>1, <1>2, <1>4, <1>5, <1>6, <1>10, <1>11, SetStageInv

\* The image is stored before the item may be inserted.
LEMMA PutImageInv ==
  ASSUME CreationInv, NEW w \in Worker, NEW i \in DOMAIN Items(w), PutImage(w, i)
  PROVE  CreationInv'
<1>1. PICK old \in Item : old = Items(w)[i]
  BY ItemsTyped DEF CreationInv
<1>2. old.stage = "image" /\ UNCHANGED cacheVars /\ UNCHANGED storeVars
  BY <1>1 DEF PutImage, ItemsAt
<1>3. old.id \in CodeId
  BY <1>1, <1>2 DEF CreationInv, ItemsInv, ItemOK, EarlyStage, NamedStage, ItemStage
<1>4. PICK s \in {"ready", "unlogo", "error"} :
        /\ SetStage(w, i, s)
        /\ blobs \subseteq blobs' /\ blobs' \subseteq blobs \cup {<<"image", old.id>>}
        /\ \/ CallWorks(w) /\ s = "ready" /\ <<"image", old.id>> \in blobs'
           \/ CallFails(w) /\ s # "ready"
  <2>1. CASE /\ CallWorks(w)
             /\ blobs' = blobs \cup {<<"image", old.id>>}
             /\ SetStage(w, i, "ready")
    BY <2>1
  <2>2. CASE /\ PutFails(w, <<"image", old.id>>)
             /\ SetStage(w, i, IF old.in.logo THEN "unlogo" ELSE "error")
    BY <2>2, PutFailsKeeps
  <2> QED BY <1>1, <2>1, <2>2 DEF PutImage
<1>5. PICK it : it = [old EXCEPT !.stage = s]
  OBVIOUS
<1>6. OthersTyped'
  <2>1. blobs' \subseteq {"image", "logo"} \X CodeId
    BY <1>3, <1>4 DEF CreationInv, OthersTyped
  <2> QED BY <1>2, <1>4, <2>1, OthersKept DEF CreationInv
<1>7. (Holds(old) \subseteq Holds(it) /\ <<"image", old.id>> \in Holds(it)) \/ CallFails(w)
  <2> SUFFICES ASSUME s = "ready"
               PROVE  Holds(old) \subseteq Holds(it) /\ <<"image", old.id>> \in Holds(it)
    BY <1>4
  <2>1. it.stage = "ready" /\ it.in = old.in /\ it.id = old.id
    BY <1>5, Staged DEF ItemStage
  <2>2. Holds(it) = BlobKeysOf(it)
    BY <2>1 DEF Holds
  <2> QED BY <1>2, <2>1, <2>2 DEF Holds, BlobKeysOf
<1>8. faults' = 0 /\ hangups' = 0 =>
        /\ faults = 0 /\ hangups = 0
        /\ \A k \in blobs' : k \in Holds(it) \/ (k \in blobs /\ k \notin Holds(old))
  <2> SUFFICES ASSUME faults' = 0, hangups' = 0
               PROVE  /\ faults = 0 /\ hangups = 0
                      /\ \A k \in blobs' : k \in Holds(it) \/ (k \in blobs /\ k \notin Holds(old))
    OBVIOUS
  <2>1. ~CallFails(w) /\ faults = 0 /\ hangups = 0
    BY <1>4, Calls DEF CreationInv
  <2> QED BY <1>4, <1>7, <2>1
<1>9. BlobMove(old, it)
  BY <1>4, <1>8 DEF BlobMove
<1>10. /\ s \in ItemStage \ (NamedStage \cup {"logo"}) /\ old.stage \notin NamedStage \cup {"error"}
       /\ s \notin EarlyStage /\ old.stage \notin EarlyStage
       /\ s = "ready" => <<"image", old.id>> \in blobs'
  BY <1>2, <1>4 DEF ItemStage, NamedStage, EarlyStage
<1> QED BY <1>1, <1>2, <1>4, <1>5, <1>6, <1>9, <1>10, SetStageInv

\* removeBlobs deletes nothing but its keys, and without trouble all of them.
LEMMA Removed ==
  ASSUME NEW w, NEW keys, RemoveBlobs(w, keys)
  PROVE  /\ blobs' \subseteq blobs /\ blobs \ blobs' \subseteq keys
         /\ (CallWorks(w) /\ blobs' = blobs \ keys) \/ CallFails(w)
  BY DEF RemoveBlobs

\* The logo of an item whose image could not be stored is removed.
LEMMA RemoveLogoInv ==
  ASSUME CreationInv, NEW w \in Worker, NEW i \in DOMAIN Items(w), RemoveLogo(w, i)
  PROVE  CreationInv'
<1>1. PICK old \in Item : old = Items(w)[i]
  BY ItemsTyped DEF CreationInv
<1>2. /\ old.stage = "unlogo" /\ UNCHANGED cacheVars /\ UNCHANGED storeVars
      /\ SetStage(w, i, "error") /\ RemoveBlobs(w, {<<"logo", old.id>>})
  BY <1>1 DEF RemoveLogo, ItemsAt
<1>3. /\ blobs' \subseteq blobs /\ blobs \ blobs' \subseteq {<<"logo", old.id>>}
      /\ (CallWorks(w) /\ blobs' = blobs \ {<<"logo", old.id>>}) \/ CallFails(w)
  BY <1>2, Removed
<1>4. PICK it : it = [old EXCEPT !.stage = "error"]
  OBVIOUS
<1>5. OthersTyped'
  <2>1. blobs' \subseteq {"image", "logo"} \X CodeId
    BY <1>3 DEF CreationInv, OthersTyped
  <2> QED BY <1>2, <1>3, <2>1, OthersKept DEF CreationInv
<1>6. Holds(old) \subseteq {<<"logo", old.id>>}
  BY <1>2 DEF Holds
<1>7. faults' = 0 /\ hangups' = 0 =>
        /\ faults = 0 /\ hangups = 0
        /\ \A k \in blobs' : k \in Holds(it) \/ (k \in blobs /\ k \notin Holds(old))
  <2> SUFFICES ASSUME faults' = 0, hangups' = 0
               PROVE  /\ faults = 0 /\ hangups = 0
                      /\ \A k \in blobs' : k \in Holds(it) \/ (k \in blobs /\ k \notin Holds(old))
    OBVIOUS
  <2>1. ~CallFails(w) /\ faults = 0 /\ hangups = 0
    BY <1>3, Calls DEF CreationInv
  <2> QED BY <1>3, <1>6, <2>1
<1>8. BlobMove(old, it)
  BY <1>2, <1>3, <1>7 DEF BlobMove
<1>9. /\ "error" \in ItemStage \ (NamedStage \cup {"logo"}) /\ old.stage \notin NamedStage \cup {"error"}
      /\ "error" \notin EarlyStage /\ "error" # "ready" /\ old.stage \notin EarlyStage
  BY <1>2 DEF ItemStage, NamedStage, EarlyStage
<1> QED BY <1>1, <1>2, <1>4, <1>5, <1>8, <1>9, SetStageInv

\* Undo either gives the item up or draws a new short code for it.
LEMMA UndoEffect ==
  ASSUME CreationInv, NEW w \in Worker, NEW i \in DOMAIN Items(w), Undo(w, i),
         NEW old \in Item, old = Items(w)[i]
  PROVE  \/ DrawsAgain(w, old) /\ Redraw(w, i, NewItem(old.in, "pending"))
         \/ SetStage(w, i, "error")
<1>1. DrawsAgain(w, old) => req[w].tries + 1 \in 1..GenerateAttempts
  <2>1. req[w].op \in CreationOps
    BY ItemsTyped DEF CreationInv
  <2>2. PICK S \in SUBSET (1..MaxBatch) : req[w] \in Creation(S)
    BY <2>1, Kinds DEF CreationInv, ReqInv
  <2>3. GenerateAttempts \in Nat
    BY Zenon, ServiceAssumption
  <2>4. req[w].tries \in 1..GenerateAttempts
    BY <2>2 DEF Creation
  <2> QED BY <2>3, <2>4 DEF DrawsAgain
<1>2. CASE DrawsAgain(w, old)
  <2>1. PICK n \in 1..GenerateAttempts : n = req[w].tries + 1
    BY <1>1, <1>2
  <2>2. Become(w, [req[w] EXCEPT !.items[i] = NewItem(old.in, "pending"),
                                 !.tries = n, !.err = "none"])
    BY <1>2, <2>1, Zenon DEF Undo
  <2>3. "none" \in {"none", "alias_taken", "client_ref_taken", "failed"}
    OBVIOUS
  <2> QED BY <1>2, <2>2, <2>3, Zenon DEF Redraw
<1>3. CASE ~DrawsAgain(w, old)
  BY <1>3, Zenon DEF Undo
<1> QED BY <1>2, <1>3

\* The blobs of a row that never landed are removed, and a generated short code
\* is drawn again.
LEMMA UndoInv ==
  ASSUME CreationInv, NEW w \in Worker, NEW i \in DOMAIN Items(w), Undo(w, i)
  PROVE  CreationInv'
<1>1. PICK old \in Item : old = Items(w)[i]
  BY ItemsTyped DEF CreationInv
<1>2. /\ old.stage = "undo" /\ UNCHANGED cacheVars /\ UNCHANGED storeVars
      /\ RemoveBlobs(w, BlobKeysOf(old))
  BY <1>1 DEF Undo, FirstAt, ItemsAt
<1>3. PICK keys : keys = BlobKeysOf(old)
  OBVIOUS
<1>4. /\ blobs' \subseteq blobs /\ blobs \ blobs' \subseteq keys
      /\ (CallWorks(w) /\ blobs' = blobs \ keys) \/ CallFails(w)
  BY <1>2, <1>3, Removed
<1>5. OthersTyped'
  <2>1. blobs' \subseteq {"image", "logo"} \X CodeId
    BY <1>4 DEF CreationInv, OthersTyped
  <2> QED BY <1>2, <1>4, <2>1, OthersKept DEF CreationInv
<1>6. Holds(old) = keys /\ \A k \in keys : k[2] = old.id
  BY <1>2, <1>3 DEF Holds, BlobKeysOf
<1>7. ASSUME NEW it PROVE BlobMove(old, it)
  <2>1. faults' = 0 /\ hangups' = 0 => ~CallFails(w) /\ faults = 0 /\ hangups = 0
    BY <1>4, Calls DEF CreationInv
  <2>2. \A k \in blobs \ blobs' : k[2] = old.id
    BY <1>4, <1>6
  <2>3. CallWorks(w) /\ blobs' = blobs \ keys => \A k \in blobs' : k \in blobs /\ k \notin Holds(old)
    BY <1>6
  <2> QED BY <1>2, <1>4, <2>1, <2>2, <2>3 DEF BlobMove
<1>8. CASE SetStage(w, i, "error")
  <2>1. PICK it : it = [old EXCEPT !.stage = "error"]
    OBVIOUS
  <2>2. BlobMove(old, it)
    BY <1>7
  <2>3. /\ "error" \in ItemStage \ (NamedStage \cup {"logo"}) /\ old.stage \notin NamedStage \cup {"error"}
        /\ "error" \notin EarlyStage /\ "error" # "ready" /\ old.stage \notin EarlyStage
    BY <1>2 DEF ItemStage, NamedStage, EarlyStage
  <2> QED BY <1>1, <1>2, <1>5, <1>8, <2>1, <2>2, <2>3, SetStageInv
<1>9. CASE DrawsAgain(w, old) /\ Redraw(w, i, NewItem(old.in, "pending"))
  <2>1. PICK it : it = NewItem(old.in, "pending")
    OBVIOUS
  <2>2. it \in Item /\ it.stage = "pending" /\ it.id = NoRow
    BY <2>1 DEF NewItem, Item, ItemStage, Input
  <2>3. PICK u : u = req[w].user
    OBVIOUS
  <2>4. NoRow \notin Stored'
    BY StoreAssumption DEF Stored
  <2>5. ItemOK(it, u)'
    BY <2>2, <2>4 DEF ItemOK, EarlyStage, NamedStage, ItemStage
  <2>6. ItemMove(old, it)
    BY <1>2, <2>2 DEF ItemMove, NamedStage, Done
  <2>7. BlobMove(old, it)
    BY <1>7
  <2> QED BY <1>1, <1>2, <1>5, <1>9, <2>1, <2>2, <2>3, <2>5, <2>6, <2>7, ItemStepInv
<1>10. \/ DrawsAgain(w, old) /\ Redraw(w, i, NewItem(old.in, "pending"))
       \/ SetStage(w, i, "error")
  BY <1>1, UndoEffect
<1> QED BY <1>8, <1>9, <1>10

\* Dropping an entry, or leaving it, keeps the cache and the histories typed.
LEMMA InvalidateTyped ==
  ASSUME OthersTyped, NEW s \in ShortCode, InvalidateFor(s) \/ SkipInvalidate(s)
  PROVE  CacheTypeOK' /\ overtaken' \subseteq Worker /\ late' \subseteq ShortCode
<1>1. overtaken' = overtaken \cup Filling(s) /\ late' \subseteq late \cup {s}
  BY DEF InvalidateFor, SkipInvalidate
<1>2. cache' = [cache EXCEPT ![s] = Absent] \/ cache' = cache
  BY DEF InvalidateFor, SkipInvalidate, Invalidate
<1>3. CacheTypeOK'
  BY <1>2 DEF OthersTyped, CacheTypeOK
<1> QED BY <1>1, <1>3 DEF OthersTyped, Filling

\* The row is in: its short code is invalidated.
LEMMA ConfirmInv ==
  ASSUME CreationInv, NEW w \in Worker, NEW i \in DOMAIN Items(w), Confirm(w, i)
  PROVE  CreationInv'
<1>1. PICK old \in Item : old = Items(w)[i]
  BY ItemsTyped DEF CreationInv
<1>2. /\ old.stage = "inserted" /\ UNCHANGED storeVars /\ blobs' = blobs
      /\ UNCHANGED callVars /\ InvalidateFor(old.short)
      /\ SetItem(w, i, [old EXCEPT !.stage = "created"])
  BY <1>1 DEF Confirm, FirstAt, ItemsAt, SetStage
<1>3. PICK u : u = req[w].user
  OBVIOUS
<1>4. ItemOK(old, u)
  BY <1>1, <1>3 DEF CreationInv, ItemsInv
<1>5. old.short \in ShortCode
  <2>1. old.id \in Stored /\ old.short = codes[old.id].short
    BY <1>2, <1>4 DEF ItemOK, NamedStage
  <2> QED BY <2>1, StoredRowType DEF CreationInv, StoreInv, Row
<1>6. OthersTyped'
  <2>1. CacheTypeOK' /\ overtaken' \subseteq Worker /\ late' \subseteq ShortCode
    BY <1>2, <1>5, InvalidateTyped DEF CreationInv
  <2>2. gone' = gone /\ faults' = faults /\ hangups' = hangups
    BY <1>2 DEF callVars
  <2> QED BY <1>2, <2>1, <2>2 DEF CreationInv, OthersTyped
<1>7. PICK it : it = [old EXCEPT !.stage = "created"]
  OBVIOUS
<1>8. it \in Item /\ it.stage = "created" /\ it.id = old.id /\ it.in = old.in
  BY <1>7, Staged DEF ItemStage
<1>9. Stored' = Stored /\ codes' = codes
  BY <1>2 DEF storeVars, Stored
<1>10. ItemOK(it, u)'
  BY <1>2, <1>4, <1>8, <1>9 DEF ItemOK, EarlyStage, NamedStage
<1>11. ItemMove(old, it)
  BY <1>2, <1>8 DEF ItemMove, NamedStage, Done
<1>12. BlobMove(old, it)
  <2>1. Holds(old) = {}
    BY <1>2 DEF Holds
  <2>2. faults' = faults /\ hangups' = hangups
    BY <1>2 DEF callVars
  <2> QED BY <1>2, <2>1, <2>2 DEF BlobMove
<1> QED BY <1>1, <1>2, <1>3, <1>6, <1>7, <1>8, <1>10, <1>11, <1>12, ItemStepInv

-----------------------------------------------------------------------------
(* The transaction of a creation.                                          *)

\* An item as it is after MoveReady.
MovedTo(it, s) == IF it.stage = "ready" THEN [it EXCEPT !.stage = s] ELSE it

\* MoveReady moves every item that is ready, and nothing else.
LEMMA MoveReadyReq ==
  ASSUME ReqInv, Forward, NEW w \in Worker, DOMAIN Items(w) # {}, NEW s \in ItemStage,
         NEW e \in {"none", "alias_taken", "client_ref_taken", "failed"}, MoveReady(w, s, e)
  PROVE  /\ ReqInv'
         /\ req'[w].op = req[w].op /\ req'[w].user = req[w].user
         /\ Items(w)' = [i \in DOMAIN Items(w) |-> MovedTo(Items(w)[i], s)]
         /\ \A x \in Worker \ {w} : req'[x] = req[x] /\ Items(x)' = Items(x)
<1>1. req[w].op \in CreationOps /\ Items(w) = req[w].items
  BY ItemsTyped
<1>2. PICK S \in SUBSET (1..MaxBatch) : req[w] \in Creation(S)
  BY <1>1, Kinds DEF ReqInv
<1>3. PICK q \in Creation(S) : q = req[w]
  BY <1>2
<1>4. DOMAIN Items(w) = S
  BY <1>1, <1>2 DEF Creation
<1>5. PICK its : its = [i \in DOMAIN Items(w) |-> MovedTo(Items(w)[i], s)]
  OBVIOUS
<1>6. its \in [S -> Item]
  <2>1. \A i \in S : MovedTo(Items(w)[i], s) \in Item
    BY <1>4, ItemsTyped, Staged DEF MovedTo
  <2> QED BY <1>4, <1>5, <2>1
<1>7. PICK r : r = [q EXCEPT !.err = e, !.items = its]
  OBVIOUS
<1>8. r \in Creation(S) /\ r.items = its /\ r.op = q.op /\ r.user = q.user
  BY <1>6, <1>7 DEF Creation
<1>9. Become(w, r)
  BY <1>3, <1>5, <1>7, Zenon DEF MoveReady, MovedTo
<1>10. IsRequest(r)
  BY <1>8 DEF IsRequest
<1>11. ReqInv'
  BY <1>1, <1>3, <1>8, <1>9, <1>10, ReqStep DEF CreationOps
<1>12. req'[w] = r /\ \A x \in Worker \ {w} : req'[x] = req[x] /\ Items(x)' = Items(x)
  BY <1>9, BecomeReq
<1>13. Items(w)' = its
  BY <1>1, <1>3, <1>8, <1>12 DEF Items, CreationOps
<1> QED BY <1>3, <1>5, <1>8, <1>11, <1>12, <1>13

\* The row of a ready item.
RowOf(it, u) ==
  [short |-> it.short, user |-> u, mode |-> it.in.mode, ref |-> it.in.ref,
   dest |-> it.in.dest, state |-> "active"]

\* Rows(w) has one well-typed row for each ready item, and no more than a batch.
LEMMA RowsTyped ==
  ASSUME CreationInv, NEW w \in Worker, ItemsAt(w, {"ready"}) # {}
  PROVE  /\ DOMAIN Rows(w) = {Items(w)[i].id : i \in ItemsAt(w, {"ready"})}
         /\ DOMAIN Rows(w) \in BatchIds
         /\ Rows(w) \in [DOMAIN Rows(w) -> NewRow]
         /\ \A i \in ItemsAt(w, {"ready"}) : Rows(w)[Items(w)[i].id] = RowOf(Items(w)[i], req[w].user)
<1>1. PICK R : R = ItemsAt(w, {"ready"})
  OBVIOUS
<1>2. /\ R \subseteq DOMAIN Items(w) /\ R \subseteq 1..MaxBatch /\ R # {}
      /\ \A i \in R : Items(w)[i] \in Item /\ Items(w)[i].stage = "ready"
  BY <1>1, ItemsTyped DEF CreationInv, ItemsAt
<1>3. \A i \in R : Items(w)[i].id \in CodeId /\ Items(w)[i].short \in ShortCode
  BY <1>2 DEF CreationInv, ItemsInv, ItemOK, ItemStage, EarlyStage, NamedStage
<1>4. \A i, j \in R : Items(w)[i].id = Items(w)[j].id => i = j
  <2> SUFFICES ASSUME NEW i \in R, NEW j \in R, Items(w)[i].id = Items(w)[j].id
               PROVE  i = j
    OBVIOUS
  <2>1. Items(w)[i].id # NoRow /\ Items(w)[i].stage \notin NamedStage
    BY <1>2, <1>3, StoreAssumption DEF NamedStage
  <2> QED BY <1>2, <2>1 DEF CreationInv, ItemsInv, IdsPrivate
<1>5. PICK S : S = {Items(w)[i].id : i \in R}
  OBVIOUS
<1>6. S \in BatchIds
  <2>1. PICK f : f = [i \in R |-> Items(w)[i].id]
    OBVIOUS
  <2>2. f \in Surjection(R, S)
    BY <1>5, <2>1 DEF Surjection
  <2>3. MaxBatch \in Nat
    BY StoreAssumption
  <2>4. IsFiniteSet(1..MaxBatch) /\ Cardinality(1..MaxBatch) = MaxBatch
    BY <2>3, FS_Interval
  <2>5. IsFiniteSet(R) /\ Cardinality(R) <= MaxBatch
    BY <1>2, <2>4, FS_Subset
  <2>6. IsFiniteSet(S) /\ Cardinality(S) <= Cardinality(R)
    BY <2>2, <2>5, FS_Surjection
  <2>7. Cardinality(S) \in Nat /\ Cardinality(R) \in Nat
    BY <2>5, <2>6, FS_CardinalityType
  <2>8. S # {} /\ S \subseteq CodeId
    BY <1>2, <1>3, <1>5
  <2>9. Cardinality(S) <= MaxBatch
    BY <2>3, <2>5, <2>6, <2>7
  <2> QED BY <2>6, <2>8, <2>9 DEF BatchIds
<1>7. DOMAIN Rows(w) = S
  BY <1>1, <1>5 DEF Rows
<1>8. ASSUME NEW i \in R
      PROVE  Rows(w)[Items(w)[i].id] = RowOf(Items(w)[i], req[w].user)
  <2>1. PICK c : c = Items(w)[i].id
    OBVIOUS
  <2>2. c \in {Items(w)[j].id : j \in R}
    BY <2>1
  <2>3. PICK ch : ch = CHOOSE it \in {Items(w)[j] : j \in R} : it.id = c
    OBVIOUS
  <2>4. ch = Items(w)[i]
    <3>1. Items(w)[i] \in {Items(w)[j] : j \in R} /\ Items(w)[i].id = c
      BY <2>1
    <3>2. ch \in {Items(w)[j] : j \in R} /\ ch.id = c
      BY <2>3, <3>1
    <3> QED BY <1>4, <2>1, <3>2
  <2>5. Rows(w)[c] = [short |-> ch.short, user |-> req[w].user, mode |-> ch.in.mode,
                      ref |-> ch.in.ref, dest |-> ch.in.dest, state |-> "active"]
    BY <1>1, <2>2, <2>3 DEF Rows
  <2> QED BY <2>1, <2>4, <2>5 DEF RowOf
<1>9. \A i \in R : RowOf(Items(w)[i], req[w].user) \in NewRow
  <2> SUFFICES ASSUME NEW i \in R PROVE RowOf(Items(w)[i], req[w].user) \in NewRow
    OBVIOUS
  <2>1. req[w].user \in User
    BY <1>2, ItemsTyped DEF CreationInv
  <2>2. Items(w)[i].in \in Input
    BY <1>2 DEF Item
  <2> QED BY <1>3, <2>1, <2>2 DEF RowOf, NewRow, Input
<1>10. Rows(w) \in [S -> NewRow]
  <2>1. \A c \in S : Rows(w)[c] \in NewRow
    BY <1>5, <1>8, <1>9
  <2>2. Rows(w) = [c \in S |-> Rows(w)[c]]
    BY <1>1, <1>5 DEF Rows
  <2> QED BY <2>1, <2>2
<1> QED BY <1>1, <1>5, <1>6, <1>7, <1>8, <1>10

\* The rows of a batch are in: every ready item now names its row.
LEMMA InsertedInv ==
  ASSUME CreationInv, NEW w \in Worker, ItemsAt(w, {"ready"}) # {},
         ItemsAt(w, ItemStage \ (Done \cup {"ready"})) = {},
         CallWorks(w), CreateCodes(Rows(w)), MoveReady(w, "inserted", "none"),
         UNCHANGED <<blobs, cacheVars>>
  PROVE  StoreNext /\ CreationInv'
<1> USE DEF CreationInv
<1>0. PICK S \in BatchIds : S = DOMAIN Rows(w)
  BY RowsTyped
<1>r. PICK rows \in [S -> NewRow] : rows = Rows(w)
  BY <1>0, RowsTyped
<1>1. /\ CreateCodes(rows)
      /\ S = {Items(w)[i].id : i \in ItemsAt(w, {"ready"})}
      /\ \A i \in ItemsAt(w, {"ready"}) : rows[Items(w)[i].id] = RowOf(Items(w)[i], req[w].user)
  BY <1>0, <1>r, RowsTyped, Zenon
<1>2. /\ S \subseteq CodeId /\ S \cap Stored = {} /\ Stored' = Stored \cup S
      /\ \A c \in S : codes'[c] = StoredRow(rows[c])
      /\ \A c \in Stored : codes'[c] = codes[c]
  BY <1>1, CreateEffect DEF StoreInv
<1>3. StoreNext
  BY <1>1, <1>2 DEF StoreNext
<1>4. StoreInv' /\ Forward
  BY <1>3, NextInv, StepMovesForward
<1>5. blobs' = blobs /\ UNCHANGED cacheVars
  OBVIOUS
<1>6. OthersTyped'
  BY <1>5, OthersKept DEF OthersTyped
<1>7. /\ ReqInv'
      /\ req'[w].op = req[w].op /\ req'[w].user = req[w].user
      /\ Items(w)' = [i \in DOMAIN Items(w) |-> MovedTo(Items(w)[i], "inserted")]
      /\ \A x \in Worker \ {w} : req'[x] = req[x] /\ Items(x)' = Items(x)
  <2>1. "inserted" \in ItemStage /\ "none" \in {"none", "alias_taken", "client_ref_taken", "failed"}
    BY DEF ItemStage
  <2>2. DOMAIN Items(w) # {}
    BY DEF ItemsAt
  <2> QED BY <1>4, <2>1, <2>2, MoveReadyReq
<1>8. /\ \A x \in Worker : DOMAIN Items(x)' = DOMAIN Items(x)
      /\ \A x \in Worker : DOMAIN Items(x) # {} => req'[x].user = req[x].user
      /\ \A x \in Worker : \A j \in DOMAIN Items(x) :
           x # w \/ Items(x)[j].stage # "ready" => Items(x)'[j] = Items(x)[j]
      /\ \A j \in DOMAIN Items(w) : Items(w)[j].stage = "ready" =>
           Items(w)'[j] = [Items(w)[j] EXCEPT !.stage = "inserted"]
  BY <1>7 DEF MovedTo
<1>9. ASSUME NEW j \in DOMAIN Items(w), Items(w)[j].stage = "ready"
      PROVE  /\ Items(w)'[j].stage = "inserted" /\ Items(w)'[j].id = Items(w)[j].id
             /\ ItemOK(Items(w)[j], req[w].user)'
  <2>1. PICK o \in Item : o = Items(w)[j]
    BY ItemsTyped
  <2>2. PICK it : it = [o EXCEPT !.stage = "inserted"]
    OBVIOUS
  <2>3. it.stage = "inserted" /\ it.id = o.id /\ it.in = o.in /\ it.short = o.short
    BY <2>2, Staged DEF ItemStage
  <2>4. PICK u : u = req[w].user
    OBVIOUS
  <2>5. j \in ItemsAt(w, {"ready"})
    BY <1>9 DEF ItemsAt
  <2>6. o.id \in S /\ rows[o.id] = RowOf(o, u)
    BY <1>1, <2>1, <2>4, <2>5
  <2>7. /\ o.id \in Stored' /\ codes'[o.id].user = u /\ codes'[o.id].ref = o.in.ref
        /\ codes'[o.id].short = o.short
    <3>1. codes'[o.id] = StoredRow(RowOf(o, u)) /\ o.id \in Stored'
      BY <1>2, <2>6
    <3>2. /\ StoredRow(RowOf(o, u)).user = u /\ StoredRow(RowOf(o, u)).ref = o.in.ref
          /\ StoredRow(RowOf(o, u)).short = o.short
      BY DEF StoredRow, RowOf
    <3> QED BY <3>1, <3>2
  <2>8. ItemOK(it, u)'
    BY <1>2, <2>3, <2>6, <2>7 DEF ItemOK, EarlyStage, NamedStage
  <2>9. Items(w)'[j] = it /\ req'[w].user = u
    BY <1>7, <1>8, <1>9, <2>1, <2>2, <2>4
  <2> QED BY <2>1, <2>3, <2>8, <2>9 DEF ItemOK
<1>10. ASSUME NEW x \in Worker, NEW j \in DOMAIN Items(x), x # w \/ Items(x)[j].stage # "ready",
              Items(x)[j].stage \notin NamedStage
       PROVE  Items(x)[j].id \notin S
  <2> SUFFICES ASSUME Items(x)[j].id \in S PROVE FALSE
    OBVIOUS
  <2>1. PICK i \in ItemsAt(w, {"ready"}) : Items(x)[j].id = Items(w)[i].id
    BY <1>1
  <2>2. i \in DOMAIN Items(w) /\ Items(w)[i].stage = "ready" /\ Items(x)[j].id # NoRow
    BY <1>2, <2>1, StoreAssumption DEF ItemsAt
  <2>3. x = w /\ j = i
    BY <1>10, <2>1, <2>2 DEF ItemsInv, IdsPrivate
  <2> QED BY <1>10, <2>2, <2>3
<1>11. ASSUME NEW x \in Worker, NEW j \in DOMAIN Items(x), x # w \/ Items(x)[j].stage # "ready"
       PROVE  ItemOK(Items(x)[j], req[x].user)'
  <2>1. PICK o : o = Items(x)[j]
    OBVIOUS
  <2>2. PICK u : u = req[x].user
    OBVIOUS
  <2>3. ItemOK(o, u)
    BY <2>1, <2>2 DEF ItemsInv
  <2>4. o.stage \notin NamedStage => o.id \notin Stored'
    BY <1>2, <1>10, <1>11, <2>1, <2>3 DEF ItemOK
  <2>5. o.stage \in NamedStage => o.id \in Stored' /\ codes'[o.id] = codes[o.id]
    BY <1>2, <2>3 DEF ItemOK
  <2>6. ItemOK(o, u)'
    BY <1>5, <2>3, <2>4, <2>5 DEF ItemOK, NamedStage
  <2>7. Items(x)'[j] = o /\ req'[x].user = u
    BY <1>8, <1>11, <2>1, <2>2
  <2> QED BY <2>6, <2>7 DEF ItemOK
<1>12. \A x \in Worker : \A j \in DOMAIN Items(x)' : ItemOK(Items(x)[j], req[x].user)'
  BY <1>8, <1>9, <1>11
<1>13. IdsPrivate'
  <2> SUFFICES ASSUME NEW x \in Worker, NEW y \in Worker,
                      NEW j \in DOMAIN Items(x)', NEW k \in DOMAIN Items(y)',
                      Items(x)'[j].id = Items(y)'[k].id, Items(x)'[j].id # NoRow,
                      Items(x)'[j].stage \notin NamedStage
               PROVE  x = y /\ j = k
    BY DEF IdsPrivate
  <2>1. j \in DOMAIN Items(x) /\ k \in DOMAIN Items(y)
    BY <1>8
  <2>2. x # w \/ Items(x)[j].stage # "ready"
    BY <1>9, <2>1 DEF NamedStage
  <2>3. Items(x)'[j] = Items(x)[j] /\ Items(y)'[k].id = Items(y)[k].id
    BY <1>8, <1>9, <2>1, <2>2
  <2> QED BY <2>1, <2>3 DEF ItemsInv, IdsPrivate
<1>14. InsertedTogether'
  <2> SUFFICES ASSUME NEW x \in Worker,
                      NEW j \in DOMAIN Items(x), Items(x)'[j].stage \in {"inserted", "created"},
                      NEW k \in DOMAIN Items(x), Items(x)'[k].stage \in ItemStage \ (Done \cup {"inserted"})
               PROVE  FALSE
    BY <1>8 DEF InsertedTogether, ItemsAt
  <2>1. CASE x = w
    <3>1. Items(w)[k].stage \in Done \cup {"ready"}
      <4>1. Items(w)[k].stage \in ItemStage
        BY <2>1, ItemsTyped DEF Item
      <4> QED BY <2>1, <4>1 DEF ItemsAt
    <3> QED BY <1>8, <1>9, <2>1, <3>1 DEF Done
  <2>2. CASE x # w
    BY <1>8, <2>2 DEF ItemsInv, InsertedTogether, ItemsAt
  <2> QED BY <2>1, <2>2
<1>15. RowHasImage'
  <2>1. \A c \in S : <<"image", c>> \in blobs
    <3> SUFFICES ASSUME NEW i \in ItemsAt(w, {"ready"}) PROVE <<"image", Items(w)[i].id>> \in blobs
      BY <1>1
    <3> QED BY DEF ItemsAt, ItemsInv, ItemOK
  <2> QED BY <1>2, <1>5, <2>1 DEF RowHasImage
<1>16. BlobsAccounted'
  <2> SUFFICES ASSUME faults' = 0, hangups' = 0, NEW k \in blobs', k[2] \notin Stored'
               PROVE  \E x \in Worker : \E j \in DOMAIN Items(x)' : k \in Holds(Items(x)'[j])
    BY DEF BlobsAccounted, Holds, BlobKeysOf
  <2>1. faults = 0 /\ hangups = 0
    BY Calls
  <2>2. PICK x \in Worker : \E j \in DOMAIN Items(x) : k \in Holds(Items(x)[j])
    BY <1>2, <1>5, <2>1 DEF BlobsAccounted
  <2>3. PICK j \in DOMAIN Items(x) : k \in Holds(Items(x)[j])
    BY <2>2
  <2>4. k[2] = Items(x)[j].id
    BY <2>3 DEF Holds, BlobKeysOf
  <2>5. x # w \/ Items(x)[j].stage # "ready"
    <3> SUFFICES ASSUME x = w, Items(x)[j].stage = "ready" PROVE FALSE
      OBVIOUS
    <3>1. j \in ItemsAt(w, {"ready"})
      BY DEF ItemsAt
    <3> QED BY <1>1, <1>2, <2>4, <3>1
  <2>6. j \in DOMAIN Items(x)' /\ Items(x)'[j] = Items(x)[j]
    BY <1>8, <2>5
  <2> QED BY <2>3, <2>6
<1> QED BY <1>3, <1>4, <1>6, <1>7, <1>12, <1>13, <1>14, <1>15, <1>16 DEF ItemsInv

\* The transaction was refused or failed: every ready item has its blobs to undo.
LEMMA RefusedInv ==
  ASSUME CreationInv, NEW w \in Worker, ItemsAt(w, {"ready"}) # {},
         CallWorks(w) \/ CallFails(w),
         NEW e \in {"none", "alias_taken", "client_ref_taken", "failed"}, MoveReady(w, "undo", e),
         UNCHANGED <<blobs, cacheVars, storeVars>>
  PROVE  CreationInv'
<1> USE DEF CreationInv
<1>1. StoreInv' /\ Forward
  BY StoreStays
<1>2. blobs' = blobs /\ UNCHANGED cacheVars /\ Stored' = Stored /\ codes' = codes
  BY DEF storeVars, Stored
<1>3. OthersTyped'
  BY <1>2, OthersKept DEF OthersTyped
<1>4. /\ ReqInv'
      /\ req'[w].op = req[w].op /\ req'[w].user = req[w].user
      /\ Items(w)' = [i \in DOMAIN Items(w) |-> MovedTo(Items(w)[i], "undo")]
      /\ \A x \in Worker \ {w} : req'[x] = req[x] /\ Items(x)' = Items(x)
  <2>1. "undo" \in ItemStage /\ DOMAIN Items(w) # {}
    BY DEF ItemStage, ItemsAt
  <2> QED BY <1>1, <2>1, MoveReadyReq
<1>5. /\ \A x \in Worker : DOMAIN Items(x)' = DOMAIN Items(x)
      /\ \A x \in Worker : DOMAIN Items(x) # {} => req'[x].user = req[x].user
      /\ \A x \in Worker : \A j \in DOMAIN Items(x) :
           x # w \/ Items(x)[j].stage # "ready" => Items(x)'[j] = Items(x)[j]
      /\ \A j \in DOMAIN Items(w) : Items(w)[j].stage = "ready" =>
           Items(w)'[j] = [Items(w)[j] EXCEPT !.stage = "undo"]
  BY <1>4 DEF MovedTo
<1>6. ASSUME NEW x \in Worker, NEW j \in DOMAIN Items(x)
      PROVE  /\ Items(x)'[j].id = Items(x)[j].id
             /\ Holds(Items(x)[j]) = Holds(Items(x)'[j])
             /\ \/ Items(x)'[j].stage = Items(x)[j].stage
                \/ x = w /\ Items(x)[j].stage = "ready" /\ Items(x)'[j].stage = "undo"
             /\ ItemOK(Items(x)[j], req[x].user)'
  <2>1. PICK o \in Item : o = Items(x)[j]
    BY ItemsTyped
  <2>2. PICK u : u = req[x].user
    OBVIOUS
  <2>3. ItemOK(o, u)
    BY <2>1, <2>2 DEF ItemsInv
  <2>4. CASE x # w \/ o.stage # "ready"
    <3>1. ItemOK(o, u)'
      BY <1>2, <2>3 DEF ItemOK
    <3>2. Items(x)'[j] = o /\ req'[x].user = u
      BY <1>5, <2>1, <2>2, <2>4
    <3>3. ItemOK(Items(x)[j], req[x].user)'
      BY <3>1, <3>2 DEF ItemOK
    <3> QED BY <2>1, <3>2, <3>3
  <2>5. CASE x = w /\ o.stage = "ready"
    <3>1. PICK it : it = [o EXCEPT !.stage = "undo"]
      OBVIOUS
    <3>2. it.stage = "undo" /\ it.id = o.id /\ it.in = o.in /\ it.short = o.short
      BY <3>1, Staged DEF ItemStage
    <3>3. ItemOK(it, u)'
      BY <1>2, <2>3, <2>5, <3>2 DEF ItemOK, EarlyStage, NamedStage, ItemStage
    <3>4. Items(x)'[j] = it /\ req'[x].user = u
      BY <1>5, <2>1, <2>2, <2>5, <3>1
    <3>5. Holds(it) = Holds(o)
      BY <2>5, <3>2 DEF Holds, BlobKeysOf
    <3> QED BY <2>1, <2>5, <3>2, <3>3, <3>4, <3>5 DEF ItemOK
  <2> QED BY <2>1, <2>4, <2>5
<1>7. \A x \in Worker : \A j \in DOMAIN Items(x)' : ItemOK(Items(x)[j], req[x].user)'
  BY <1>5, <1>6
<1>8. IdsPrivate'
  <2> SUFFICES ASSUME NEW x \in Worker, NEW y \in Worker,
                      NEW j \in DOMAIN Items(x)', NEW k \in DOMAIN Items(y)',
                      Items(x)'[j].id = Items(y)'[k].id, Items(x)'[j].id # NoRow,
                      Items(x)'[j].stage \notin NamedStage
               PROVE  x = y /\ j = k
    BY DEF IdsPrivate
  <2>1. j \in DOMAIN Items(x) /\ k \in DOMAIN Items(y)
    BY <1>5
  <2>2. Items(x)[j].id = Items(y)[k].id /\ Items(x)[j].id # NoRow /\ Items(x)[j].stage \notin NamedStage
    BY <1>6, <2>1 DEF NamedStage
  <2> QED BY <2>1, <2>2 DEF ItemsInv, IdsPrivate
<1>9. InsertedTogether'
  <2> SUFFICES ASSUME NEW x \in Worker,
                      NEW j \in DOMAIN Items(x), Items(x)'[j].stage \in {"inserted", "created"},
                      NEW k \in DOMAIN Items(x), Items(x)'[k].stage \in ItemStage \ (Done \cup {"inserted"})
               PROVE  FALSE
    BY <1>5 DEF InsertedTogether, ItemsAt
  <2>1. Items(x)[j].stage \in {"inserted", "created"}
    BY <1>6
  <2>2. Items(x)[k].stage \in ItemStage \ (Done \cup {"inserted"})
    BY <1>6 DEF Done, ItemStage
  <2> QED BY <2>1, <2>2 DEF ItemsInv, InsertedTogether, ItemsAt
<1>10. RowHasImage'
  BY <1>2 DEF RowHasImage
<1>11. BlobsAccounted'
  <2> SUFFICES ASSUME faults' = 0, hangups' = 0, NEW k \in blobs', k[2] \notin Stored'
               PROVE  \E x \in Worker : \E j \in DOMAIN Items(x)' : k \in Holds(Items(x)'[j])
    BY DEF BlobsAccounted, Holds, BlobKeysOf
  <2>1. faults = 0 /\ hangups = 0
    BY Calls
  <2>2. PICK x \in Worker : \E j \in DOMAIN Items(x) : k \in Holds(Items(x)[j])
    BY <1>2, <2>1 DEF BlobsAccounted
  <2> QED BY <1>5, <1>6, <2>2
<1> QED BY <1>1, <1>3, <1>4, <1>7, <1>8, <1>9, <1>10, <1>11 DEF ItemsInv

\* Insert: a transaction of the store, or none.
LEMMA InsertInv ==
  ASSUME CreationInv, NEW w \in Worker, Insert(w)
  PROVE  CreationInv' /\ (StoreNext \/ UNCHANGED storeVars)
<1>1. CASE CallWorks(w) /\ CreateCodes(Rows(w)) /\ MoveReady(w, "inserted", "none")
  BY <1>1, InsertedInv DEF Insert
<1>2. ASSUME CallWorks(w) \/ CallFails(w), UNCHANGED storeVars,
             NEW e \in {"none", "alias_taken", "client_ref_taken", "failed"}, MoveReady(w, "undo", e)
      PROVE  CreationInv'
  BY <1>2, RefusedInv DEF Insert
<1>3. \A e \in InsertErrors(Rows(w)) : e \in {"none", "alias_taken", "client_ref_taken", "failed"}
  BY DEF InsertErrors
<1>4. "failed" \in {"none", "alias_taken", "client_ref_taken", "failed"}
  OBVIOUS
<1> QED BY <1>1, <1>2, <1>3, <1>4, Zenon DEF Insert

-----------------------------------------------------------------------------
(* The other steps: they leave items alone, or a request's items leave.    *)

\* No item changes, some vanish with their request: without trouble only those
\* that hold no blob.
LEMMA ItemsLeaveInv ==
  ASSUME CreationInv, [StoreNext]_storeVars, Stored' = Stored, blobs' = blobs,
         ReqInv', OthersTyped',
         \A x \in Worker : \/ DOMAIN Items(x)' = {}
                           \/ Items(x)' = Items(x) /\ req'[x].user = req[x].user,
         faults' = 0 /\ hangups' = 0 =>
           /\ faults = 0 /\ hangups = 0
           /\ \A x \in Worker : \/ Items(x)' = Items(x)
                                \/ \A i \in DOMAIN Items(x) : Holds(Items(x)[i]) = {}
  PROVE  CreationInv'
<1> USE DEF CreationInv
<1>1. StoreInv' /\ Forward
  BY NextInv, StepMovesForward
<1>2. ASSUME NEW x \in Worker, NEW j \in DOMAIN Items(x)'
      PROVE  /\ j \in DOMAIN Items(x) /\ Items(x)'[j] = Items(x)[j]
             /\ ItemOK(Items(x)[j], req[x].user)'
  <2>1. Items(x)' = Items(x) /\ req'[x].user = req[x].user
    BY <1>2
  <2>2. PICK o : o = Items(x)[j]
    OBVIOUS
  <2>3. PICK u : u = req[x].user
    OBVIOUS
  <2>4. ItemOK(o, u)
    BY <1>2, <2>1, <2>2, <2>3 DEF ItemsInv
  <2>5. o.id \in Stored => codes'[o.id].user = codes[o.id].user /\ codes'[o.id].ref = codes[o.id].ref
                           /\ codes'[o.id].short = codes[o.id].short
    BY <1>1 DEF Forward
  <2>6. ItemOK(o, u)'
    BY <2>4, <2>5 DEF ItemOK, NamedStage
  <2>7. Items(x)'[j] = o /\ req'[x].user = u
    BY <2>1, <2>2, <2>3
  <2>8. ItemOK(Items(x)[j], req[x].user)'
    BY <2>6, <2>7 DEF ItemOK
  <2> QED BY <1>2, <2>1, <2>8
<1>3. IdsPrivate'
  <2> SUFFICES ASSUME NEW x \in Worker, NEW y \in Worker,
                      NEW j \in DOMAIN Items(x)', NEW k \in DOMAIN Items(y)',
                      Items(x)'[j].id = Items(y)'[k].id, Items(x)'[j].id # NoRow,
                      Items(x)'[j].stage \notin NamedStage
               PROVE  x = y /\ j = k
    BY DEF IdsPrivate
  <2>1. /\ j \in DOMAIN Items(x) /\ Items(x)'[j] = Items(x)[j]
        /\ k \in DOMAIN Items(y) /\ Items(y)'[k] = Items(y)[k]
    BY <1>2
  <2> QED BY <2>1 DEF ItemsInv, IdsPrivate
<1>4. InsertedTogether'
  <2> SUFFICES ASSUME NEW x \in Worker,
                      NEW j \in DOMAIN Items(x)', Items(x)'[j].stage \in {"inserted", "created"},
                      NEW k \in DOMAIN Items(x)', Items(x)'[k].stage \in ItemStage \ (Done \cup {"inserted"})
               PROVE  FALSE
    BY DEF InsertedTogether, ItemsAt
  <2>1. /\ j \in DOMAIN Items(x) /\ Items(x)'[j] = Items(x)[j]
        /\ k \in DOMAIN Items(x) /\ Items(x)'[k] = Items(x)[k]
    BY <1>2
  <2> QED BY <2>1 DEF ItemsInv, InsertedTogether, ItemsAt
<1>5. RowHasImage'
  BY DEF RowHasImage
<1>6. BlobsAccounted'
  <2> SUFFICES ASSUME faults' = 0, hangups' = 0, NEW k \in blobs', k[2] \notin Stored'
               PROVE  \E x \in Worker : \E j \in DOMAIN Items(x)' : k \in Holds(Items(x)'[j])
    BY DEF BlobsAccounted, Holds, BlobKeysOf
  <2>1. PICK x \in Worker : \E j \in DOMAIN Items(x) : k \in Holds(Items(x)[j])
    BY DEF BlobsAccounted
  <2>2. Items(x)' = Items(x)
    BY <2>1
  <2> QED BY <2>1, <2>2
<1> QED BY <1>1, <1>2, <1>3, <1>4, <1>5, <1>6 DEF ItemsInv

\* How calls and returns leave the counters: a client's absence ends with its
\* request, and trouble is not forgotten.
CountersKept ==
  /\ gone' \subseteq gone /\ hangups' = hangups
  /\ faults' \in 0..MaxFaults /\ (faults' = 0 => faults = 0)

\* Every call and every return keeps the counters so.
LEMMA CountersAreKept ==
  ASSUME OthersTyped, NEW w \in Worker,
         \/ CallWorks(w) \/ CallFails(w) \/ UNCHANGED callVars
         \/ ReturnError(w)
         \/ gone' \in {gone, gone \ {w}} /\ UNCHANGED <<faults, hangups>>
  PROVE  CountersKept
<1>1. CASE CallWorks(w) \/ CallFails(w) \/ UNCHANGED callVars
  BY <1>1, Calls DEF CountersKept
<1>2. CASE ReturnError(w)
  <2>1. MaxFaults \in Nat
    BY Zenon, ServiceAssumption
  <2>2. PICK f \in 0..MaxFaults : f = faults
    BY DEF OthersTyped
  <2>3. /\ gone' = gone \ {w} /\ hangups' = hangups
        /\ w \in gone \/ f < MaxFaults
        /\ faults' = IF w \in gone THEN f ELSE f + 1
    BY <1>2, <2>2 DEF ReturnError, Return
  <2> QED BY <2>1, <2>2, <2>3 DEF CountersKept
<1>3. CASE gone' \in {gone, gone \ {w}} /\ UNCHANGED <<faults, hangups>>
  BY <1>3 DEF CountersKept, OthersTyped
<1> QED BY <1>1, <1>2, <1>3

\* A request without items becomes another one without items.
LEMMA OtherStepInv ==
  ASSUME CreationInv, [StoreNext]_storeVars, Stored' = Stored, blobs' = blobs,
         NEW w \in Worker, NEW r, Become(w, r), IsRequest(r),
         r.op \notin CreationOps, req[w].op \notin CreationOps,
         r.op \in {"update", "state", "delete"} =>
           r.id \in Stored /\ r.short = codes'[r.id].short,
         CountersKept,
         UNCHANGED cacheVars \/ (CacheTypeOK' /\ overtaken' \subseteq Worker /\ late' \subseteq ShortCode)
  PROVE  CreationInv'
<1> USE DEF CreationInv
<1>1. StoreInv' /\ Forward
  BY NextInv, StepMovesForward
<1>2. ReqInv'
  BY <1>1, ReqStep
<1>3. \A x \in Worker : Items(x)' = Items(x)
  BY NoItems
<1>4. CacheTypeOK' /\ overtaken' \subseteq Worker /\ late' \subseteq ShortCode
  BY DEF cacheVars, OthersTyped, CacheTypeOK
<1>5. OthersTyped'
  BY <1>4 DEF OthersTyped, CountersKept
<1>6. faults' = 0 /\ hangups' = 0 => faults = 0 /\ hangups = 0
  BY DEF CountersKept
<1>7. \A x \in Worker : \/ DOMAIN Items(x)' = {}
                        \/ Items(x)' = Items(x) /\ req'[x].user = req[x].user
  <2>1. \A x \in Worker \ {w} : req'[x] = req[x]
    BY BecomeReq
  <2>2. DOMAIN Items(w)' = {}
    BY <1>3, ItemsTyped
  <2> QED BY <1>3, <2>1, <2>2
<1> QED BY <1>2, <1>3, <1>5, <1>6, <1>7, ItemsLeaveInv

\* A new request, with items that have done nothing yet.
LEMMA BeginCreationInv ==
  ASSUME CreationInv, NEW w \in Worker, NEW r, Begin(w, r), IsRequest(r), r.op \in CreationOps,
         \A i \in DOMAIN r.items : r.items[i].stage \in EarlyStage /\ r.items[i].id = NoRow
  PROVE  CreationInv'
<1> USE DEF CreationInv
<1>1. /\ req[w] = Idle /\ Become(w, r) /\ UNCHANGED callVars /\ blobs' = blobs
      /\ UNCHANGED cacheVars /\ UNCHANGED storeVars
  BY DEF Begin
<1>2. StoreInv' /\ Forward
  BY <1>1, StoreStays
<1>3. ReqInv'
  BY <1>1, <1>2, ReqStep DEF CreationOps
<1>4. OthersTyped'
  BY <1>1, OthersKept DEF OthersTyped
<1>5. req'[w] = r /\ \A x \in Worker \ {w} : req'[x] = req[x] /\ Items(x)' = Items(x)
  BY <1>1, BecomeReq
<1>6. DOMAIN Items(w) = {} /\ Items(w)' = r.items
  <2>1. req[w].op = "idle"
    BY <1>1 DEF Idle
  <2> QED BY <1>5, <2>1, ItemsTyped DEF Items, CreationOps
<1>7. Stored' = Stored /\ codes' = codes /\ NoRow \notin Stored
  BY <1>1, StoreAssumption DEF storeVars, Stored
<1>8. ASSUME NEW x \in Worker, NEW j \in DOMAIN Items(x)'
      PROVE  ItemOK(Items(x)[j], req[x].user)'
  <2>1. PICK o : o = Items(x)'[j]
    OBVIOUS
  <2>2. PICK u : u = req'[x].user
    OBVIOUS
  <2>3. ItemOK(o, u)'
    <3>1. CASE x = w
      BY <1>6, <1>7, <1>8, <2>1, <3>1 DEF ItemOK, EarlyStage, NamedStage
    <3>2. CASE x # w
      <4>1. ItemOK(o, u)
        BY <1>5, <1>8, <2>1, <2>2, <3>2 DEF ItemsInv
      <4> QED BY <1>1, <1>7, <4>1 DEF ItemOK
    <3> QED BY <3>1, <3>2
  <2> QED BY <2>1, <2>2, <2>3 DEF ItemOK
<1>9. IdsPrivate'
  <2> SUFFICES ASSUME NEW x \in Worker, NEW y \in Worker,
                      NEW j \in DOMAIN Items(x)', NEW k \in DOMAIN Items(y)',
                      Items(x)'[j].id = Items(y)'[k].id, Items(x)'[j].id # NoRow,
                      Items(x)'[j].stage \notin NamedStage
               PROVE  x = y /\ j = k
    BY DEF IdsPrivate
  <2>1. x # w /\ y # w
    BY <1>6
  <2> QED BY <1>5, <2>1 DEF ItemsInv, IdsPrivate
<1>10. InsertedTogether'
  <2> SUFFICES ASSUME NEW x \in Worker,
                      NEW j \in DOMAIN Items(x)', Items(x)'[j].stage \in {"inserted", "created"},
                      NEW k \in DOMAIN Items(x)', Items(x)'[k].stage \in ItemStage \ (Done \cup {"inserted"})
               PROVE  FALSE
    BY DEF InsertedTogether, ItemsAt
  <2>1. x # w
    BY <1>6 DEF EarlyStage
  <2> QED BY <1>5, <2>1 DEF ItemsInv, InsertedTogether, ItemsAt
<1>11. RowHasImage'
  BY <1>1, <1>7 DEF RowHasImage
<1>12. BlobsAccounted'
  <2> SUFFICES ASSUME faults' = 0, hangups' = 0, NEW k \in blobs', k[2] \notin Stored'
               PROVE  \E x \in Worker : \E j \in DOMAIN Items(x)' : k \in Holds(Items(x)'[j])
    BY DEF BlobsAccounted, Holds, BlobKeysOf
  <2>1. faults = 0 /\ hangups = 0
    BY <1>1 DEF callVars
  <2>2. PICK x \in Worker : \E j \in DOMAIN Items(x) : k \in Holds(Items(x)[j])
    BY <1>1, <1>7, <2>1 DEF BlobsAccounted
  <2>3. x # w
    BY <1>6, <2>2
  <2> QED BY <1>5, <2>2, <2>3
<1> QED BY <1>2, <1>3, <1>4, <1>8, <1>9, <1>10, <1>11, <1>12 DEF ItemsInv

\* Create starts with one item.
LEMMA BeginCreateInv ==
  ASSUME CreationInv, NEW w \in Worker, BeginCreate(w)
  PROVE  CreationInv'
<1>1. PICK u \in User, in \in Inputs :
        Begin(w, [op |-> "create", user |-> u, items |-> [i \in {1} |-> NewItem(in, "pending")],
                  tries |-> 1, err |-> "none"])
  BY DEF BeginCreate
<1>2. PICK r : r = [op |-> "create", user |-> u, items |-> [i \in {1} |-> NewItem(in, "pending")],
                    tries |-> 1, err |-> "none"]
  OBVIOUS
<1>3. Inputs \subseteq Input /\ GenerateAttempts \in Nat \ {0}
  BY Zenon, ServiceAssumption
<1>4. NewItem(in, "pending") \in Item
  BY <1>3 DEF NewItem, Item, Input, ItemStage
<1>5. {1} \in SUBSET (1..MaxBatch)
  BY StoreAssumption
<1>6. r \in Creation({1})
  BY <1>2, <1>3, <1>4 DEF Creation
<1>7. IsRequest(r) /\ r.op \in CreationOps
  BY <1>2, <1>5, <1>6 DEF IsRequest, CreationOps
<1>8. \A i \in DOMAIN r.items : r.items[i].stage \in EarlyStage /\ r.items[i].id = NoRow
  BY <1>2 DEF NewItem, EarlyStage
<1> QED BY <1>1, <1>2, <1>7, <1>8, BeginCreationInv

\* CreateBatch starts with the items the wire format accepted.
LEMMA BeginBatchInv ==
  ASSUME CreationInv, NEW w \in Worker, BeginBatch(w)
  PROVE  CreationInv'
<1>1. PICK u \in User, b \in Requested :
        /\ Len(b) <= MaxBatch
        /\ Begin(w, [op |-> "batch", user |-> u,
                     items |-> [i \in inputIdx(b) |-> NewItem(b[i], "new")],
                     tries |-> 1, err |-> "none"])
  BY DEF BeginBatch
<1>2. PICK r : r = [op |-> "batch", user |-> u,
                    items |-> [i \in inputIdx(b) |-> NewItem(b[i], "new")],
                    tries |-> 1, err |-> "none"]
  OBVIOUS
<1>3. Inputs \subseteq Input /\ GenerateAttempts \in Nat \ {0} /\ \A a \in Batches : a \in Seq(Input)
  BY Zenon, ServiceAssumption
<1>4. b \in Seq(Input)
  <2>1. CASE b \in Batches
    BY <1>3, <2>1
  <2>2. CASE b \notin Batches
    <3>1. PICK in \in Inputs : b = <<in>>
      BY <2>2 DEF Requested
    <3>2. in \in Input
      BY <1>3
    <3> QED BY <3>1, <3>2
  <2> QED BY <2>1, <2>2
<1>5. inputIdx(b) \in SUBSET (1..MaxBatch) /\ \A i \in inputIdx(b) : b[i] \in Input
  <2>1. DOMAIN b = 1..Len(b) /\ Len(b) \in Nat /\ \A i \in 1..Len(b) : b[i] \in Input
    BY <1>4
  <2>2. \A i \in 1..Len(b) : i \in 1..MaxBatch
    BY <1>1, <2>1, StoreAssumption
  <2> QED BY <2>1, <2>2 DEF inputIdx
<1>6. \A i \in inputIdx(b) : NewItem(b[i], "new") \in Item
  BY <1>5 DEF NewItem, Item, Input, ItemStage
<1>7. r \in Creation(inputIdx(b))
  BY <1>2, <1>3, <1>6 DEF Creation
<1>8. IsRequest(r) /\ r.op \in CreationOps
  BY <1>2, <1>5, <1>7 DEF IsRequest, CreationOps
<1>9. \A i \in DOMAIN r.items : r.items[i].stage \in EarlyStage /\ r.items[i].id = NoRow
  BY <1>2 DEF NewItem, EarlyStage
<1> QED BY <1>1, <1>2, <1>8, <1>9, BeginCreationInv

\* Idle is a request, and has no items.
LEMMA IdleRequest == IsRequest(Idle) /\ Idle.op = "idle" /\ "idle" \notin CreationOps
  BY DEF IsRequest, Idle, CreationOps

\* A creation answers when every item is done, and done items hold no blob.
LEMMA AnswerInv ==
  ASSUME CreationInv, NEW w \in Worker, Answer(w)
  PROVE  CreationInv'
<1> USE DEF CreationInv
<1>1. /\ Become(w, Idle) /\ gone' = gone \ {w} /\ blobs' = blobs /\ UNCHANGED cacheVars
      /\ UNCHANGED storeVars /\ faults' = faults /\ hangups' = hangups
      /\ ItemsAt(w, ItemStage \ Done) = {}
  BY DEF Answer, Return
<1>2. StoreInv' /\ Forward /\ Stored' = Stored
  BY <1>1, StoreStays DEF storeVars, Stored
<1>3. ReqInv'
  BY <1>1, <1>2, IdleRequest, ReqStep
<1>4. req'[w] = Idle /\ \A x \in Worker \ {w} : req'[x] = req[x] /\ Items(x)' = Items(x)
  BY <1>1, BecomeReq
<1>5. DOMAIN Items(w)' = {}
  BY <1>4, IdleRequest DEF Items, CreationOps
<1>6. OthersTyped'
  BY <1>1 DEF OthersTyped, cacheVars, CacheTypeOK
<1>7. \A i \in DOMAIN Items(w) : Holds(Items(w)[i]) = {}
  <2> SUFFICES ASSUME NEW i \in DOMAIN Items(w) PROVE Holds(Items(w)[i]) = {}
    OBVIOUS
  <2>1. Items(w)[i].stage \in ItemStage
    BY ItemsTyped DEF Item
  <2>2. Items(w)[i].stage \in Done
    BY <1>1, <2>1 DEF ItemsAt
  <2> QED BY <2>2 DEF Holds, Done
<1> QED BY <1>1, <1>2, <1>3, <1>4, <1>5, <1>6, <1>7, ItemsLeaveInv

\* Every step of a creation.
LEMMA CreateStepInv ==
  ASSUME CreationInv, NEW w \in Worker, CreateStep(w)
  PROVE  CreationInv' /\ [StoreNext]_storeVars
<1>1. CASE BeginCreate(w)
  BY <1>1, BeginCreateInv DEF BeginCreate, Begin
<1>2. CASE BeginBatch(w)
  BY <1>2, BeginBatchInv DEF BeginBatch, Begin
<1>3. CASE Insert(w)
  BY <1>3, InsertInv
<1>4. CASE Answer(w)
  BY <1>4, AnswerInv DEF Answer
<1>5. ASSUME NEW i \in DOMAIN Items(w), CheckRef(w, i)
      PROVE  CreationInv' /\ UNCHANGED storeVars
  BY <1>5, CheckRefInv DEF CheckRef
<1>6. ASSUME NEW i \in DOMAIN Items(w), CheckAlias(w, i)
      PROVE  CreationInv' /\ UNCHANGED storeVars
  BY <1>6, CheckAliasInv DEF CheckAlias
<1>7. ASSUME NEW i \in DOMAIN Items(w), Render(w, i)
      PROVE  CreationInv' /\ UNCHANGED storeVars
  BY <1>7, RenderInv DEF Render
<1>8. ASSUME NEW i \in DOMAIN Items(w), PutLogo(w, i)
      PROVE  CreationInv' /\ UNCHANGED storeVars
  BY <1>8, PutLogoInv DEF PutLogo
<1>9. ASSUME NEW i \in DOMAIN Items(w), PutImage(w, i)
      PROVE  CreationInv' /\ UNCHANGED storeVars
  BY <1>9, PutImageInv DEF PutImage
<1>10. ASSUME NEW i \in DOMAIN Items(w), RemoveLogo(w, i)
       PROVE  CreationInv' /\ UNCHANGED storeVars
  BY <1>10, RemoveLogoInv DEF RemoveLogo
<1>11. ASSUME NEW i \in DOMAIN Items(w), Undo(w, i)
       PROVE  CreationInv' /\ UNCHANGED storeVars
  <2>1. UNCHANGED storeVars
    BY <1>11, Zenon DEF Undo
  <2> QED BY <1>11, <2>1, UndoInv
<1>12. ASSUME NEW i \in DOMAIN Items(w), Confirm(w, i)
       PROVE  CreationInv' /\ UNCHANGED storeVars
  BY <1>12, ConfirmInv DEF Confirm
<1> QED BY <1>1, <1>2, <1>3, <1>4, <1>5, <1>6, <1>7, <1>8, <1>9, <1>10, <1>11, <1>12 DEF CreateStep

-----------------------------------------------------------------------------
(* Updates, state changes and deletes.                                     *)

\* A transaction on one row keeps the set of rows.
LEMMA RowStep ==
  ASSUME StoreInv, NEW c \in CodeId, NEW u \in User,
         \/ \E d \in Dest, v \in Nat : UpdateDestination(c, u, d, v)
         \/ \E st \in State : SetCodeState(c, u, st)
         \/ DeleteCode(c, u)
  PROVE  StoreNext /\ Stored' = Stored
<1>1. ASSUME NEW d \in Dest, NEW v \in Nat, UpdateDestination(c, u, d, v)
      PROVE  StoreNext /\ Stored' = Stored
  <2>1. c \in Live /\ codes[c].version = v
    BY <1>1, UpdateOk DEF UpdateDestination
  <2>2. codes[c].state \in State /\ codes[c].version \in Nat \ {0}
    BY <2>1, StoredRowType DEF StoreInv, Live, Row
  <2>3. v \in 1..MaxVersion
    BY <1>1, <2>1, <2>2, StoreAssumption DEF UpdateDestination
  <2> QED BY <1>1, <2>1, <2>2, <2>3, AmendEffect DEF UpdateDestination, StoreNext
<1>2. ASSUME NEW st \in State, SetCodeState(c, u, st)
      PROVE  StoreNext /\ Stored' = Stored
  <2>1. c \in Live
    BY <1>2, SetStateOk DEF SetCodeState
  <2>2. codes[c].dest \in Dest
    BY <2>1, StoredRowType DEF StoreInv, Live, Row
  <2> QED BY <1>2, <2>1, <2>2, AmendEffect DEF SetCodeState, StoreNext
<1>3. ASSUME DeleteCode(c, u)
      PROVE  StoreNext /\ Stored' = Stored
  <2>1. CASE c \in Live
    <3>1. codes[c].dest \in Dest
      BY <2>1, StoredRowType DEF StoreInv, Live, Row
    <3> QED BY <1>3, <2>1, <3>1, AmendEffect DEF DeleteCode, State, StoreNext
  <2>2. CASE c \notin Live
    BY <1>3, <2>2 DEF DeleteCode, Stored, StoreNext
  <2> QED BY <2>1, <2>2
<1> QED BY <1>1, <1>2, <1>3

\* The goroutine of a request without items returns.
LEMMA ReturnInv ==
  ASSUME CreationInv, NEW w \in Worker, req[w].op \notin CreationOps, Become(w, Idle),
         blobs' = blobs, UNCHANGED storeVars, CountersKept,
         UNCHANGED cacheVars \/ (CacheTypeOK' /\ overtaken' \subseteq Worker /\ late' \subseteq ShortCode)
  PROVE  CreationInv'
<1>1. Stored' = Stored
  BY DEF storeVars, Stored
<1> QED BY <1>1, IdleRequest, OtherStepInv

\* A request without items begins.
LEMMA BeginOtherInv ==
  ASSUME CreationInv, NEW w \in Worker, NEW r, Begin(w, r), IsRequest(r), r.op \notin CreationOps,
         r.op \in {"update", "state", "delete"} => r.id \in Stored /\ r.short = codes[r.id].short
  PROVE  CreationInv' /\ UNCHANGED storeVars
<1>1. /\ req[w] = Idle /\ Become(w, r) /\ UNCHANGED callVars /\ blobs' = blobs
      /\ UNCHANGED cacheVars /\ UNCHANGED storeVars
  BY DEF Begin
<1>2. Stored' = Stored /\ codes' = codes
  BY <1>1 DEF storeVars, Stored
<1>3. CountersKept
  BY <1>1, CountersAreKept DEF CreationInv
<1>4. req[w].op \notin CreationOps
  BY <1>1, IdleRequest
<1> QED BY <1>1, <1>2, <1>3, <1>4, OtherStepInv

\* An update begins, from the API or from the console's form.
LEMMA BeginUpdateInv ==
  ASSUME CreationInv, NEW w \in Worker, BeginUpdate(w) \/ ConsolePatch(w)
  PROVE  CreationInv' /\ UNCHANGED storeVars
<1>1. /\ NewDest \subseteq Dest /\ IfMatch \subseteq Nat
      /\ LastWriteWinsAttempts \in Nat \ {0}
  BY Zenon, ServiceAssumption
<1>2. ASSUME NEW u \in User, NEW c \in Stored, NEW d \in NewDest, NEW p \in {"cas", "read"},
             NEW v \in Nat,
             Begin(w, [op |-> "update", pc |-> p, user |-> u, id |-> c, short |-> codes[c].short,
                       dest |-> d, expect |-> v, version |-> codes[c].version,
                       dead |-> c \notin Live, tries |-> 1, first |-> codes[c].version])
      PROVE  CreationInv' /\ UNCHANGED storeVars
  <2>1. PICK b \in BOOLEAN : b = (c \notin Live)
    OBVIOUS
  <2>2. c \in CodeId /\ codes[c].version \in Nat /\ codes[c].short \in ShortCode
    BY StoredRowType DEF CreationInv, StoreInv, Row, Stored
  <2>3. PICK r : r = [op |-> "update", pc |-> p, user |-> u, id |-> c, short |-> codes[c].short,
                      dest |-> d, expect |-> v, version |-> codes[c].version,
                      dead |-> b, tries |-> 1, first |-> codes[c].version]
    OBVIOUS
  <2>4. r \in Update
    BY <1>1, <2>2, <2>3 DEF Update
  <2>5. Begin(w, r)
    BY <1>2, <2>1, <2>3, Zenon
  <2>6. IsRequest(r) /\ r.op \notin CreationOps /\ r.id \in Stored /\ r.short = codes[r.id].short
    BY <2>3, <2>4 DEF IsRequest, CreationOps
  <2> QED BY <2>5, <2>6, BeginOtherInv
<1>3. {"cas", "read"} = {"cas", "read"} /\ \A c \in Stored : codes[c].version \in Nat
  BY StoredRowType DEF CreationInv, StoreInv, Row
<1>4. CASE BeginUpdate(w)
  <2>1. "cas" \in {"cas", "read"}
    OBVIOUS
  <2> QED BY <1>1, <1>2, <1>4, <2>1, Zenon DEF BeginUpdate
<1>5. CASE ConsolePatch(w)
  <2>1. "read" \in {"cas", "read"}
    OBVIOUS
  <2> QED BY <1>2, <1>3, <1>5, <2>1, Zenon DEF ConsolePatch
<1> QED BY <1>4, <1>5

\* A step of an update after it began.
LEMMA UpdateReadInv ==
  ASSUME CreationInv, NEW w \in Worker, UpdateRead(w)
  PROVE  CreationInv' /\ UNCHANGED storeVars
<1>1. /\ req[w].op = "update" /\ blobs' = blobs /\ UNCHANGED cacheVars /\ UNCHANGED storeVars
  BY DEF UpdateRead
<1>2. PICK q \in Update : q = req[w]
  BY <1>1, Kinds DEF CreationInv, ReqInv
<1>3. q.id \in Stored /\ q.short = codes[q.id].short /\ q.op = "update"
  BY <1>1, <1>2 DEF CreationInv, ReqInv
<1>4. req[w].op \notin CreationOps
  BY <1>1 DEF CreationOps
<1>5. CASE ReturnError(w)
  <2>1. CountersKept /\ Become(w, Idle)
    BY <1>5, CountersAreKept DEF CreationInv, ReturnError, Return
  <2> QED BY <1>1, <1>4, <2>1, ReturnInv
<1>6. CASE CallWorks(w) /\ Become(w, [q EXCEPT !.pc = "cas", !.version = codes[q.id].version,
                                              !.dead = q.id \notin Live])
  <2>1. PICK b \in BOOLEAN : b = (q.id \notin Live)
    OBVIOUS
  <2>2. PICK n \in Nat : n = codes[q.id].version
    BY <1>3, StoredRowType DEF CreationInv, StoreInv, Row
  <2>3. PICK r : r = [q EXCEPT !.pc = "cas", !.version = n, !.dead = b]
    OBVIOUS
  <2>4. r \in Update /\ r.id = q.id /\ r.short = q.short /\ r.op = "update"
    BY <1>3, <2>3 DEF Update
  <2>5. Become(w, r)
    BY <1>6, <2>1, <2>2, <2>3, Zenon
  <2>6. Stored' = Stored /\ codes' = codes
    BY <1>1 DEF storeVars, Stored
  <2>7. IsRequest(r) /\ r.op \notin CreationOps /\ r.id \in Stored /\ r.short = codes'[r.id].short
    BY <1>3, <2>4, <2>6 DEF IsRequest, CreationOps
  <2>8. CountersKept
    BY <1>6, CountersAreKept DEF CreationInv
  <2> QED BY <1>1, <1>4, <2>5, <2>6, <2>7, <2>8, OtherStepInv
<1> QED BY <1>2, <1>5, <1>6, Zenon DEF UpdateRead

\* The guarded UPDATE: done, lost to another writer, or failed.
LEMMA UpdateCasInv ==
  ASSUME CreationInv, NEW w \in Worker, UpdateCas(w)
  PROVE  CreationInv' /\ [StoreNext]_storeVars
<1>1. req[w].op = "update" /\ blobs' = blobs /\ UNCHANGED cacheVars
  BY DEF UpdateCas
<1>2. PICK q \in Update : q = req[w]
  BY <1>1, Kinds DEF CreationInv, ReqInv
<1>3. q.id \in Stored /\ q.short = codes[q.id].short /\ q.op = "update"
  BY <1>1, <1>2 DEF CreationInv, ReqInv
<1>4. req[w].op \notin CreationOps
  BY <1>1 DEF CreationOps
<1>5. PICK v \in Nat : v = IF q.expect > 0 THEN q.expect ELSE q.version
  BY DEF Update
<1>6. CASE ReturnError(w) /\ UNCHANGED storeVars
  <2>1. CountersKept /\ Become(w, Idle)
    BY <1>6, CountersAreKept DEF CreationInv, ReturnError, Return
  <2> QED BY <1>1, <1>4, <1>6, <2>1, ReturnInv
<1>7. CASE /\ CallWorks(w)
           /\ UpdateDestination(q.id, q.user, q.dest, v)
           /\ Become(w, [q EXCEPT !.pc = "inval"])
  <2>1. PICK r : r = [q EXCEPT !.pc = "inval"]
    OBVIOUS
  <2>2. r \in Update /\ r.id = q.id /\ r.short = q.short /\ r.op = "update"
    BY <1>3, <2>1 DEF Update
  <2>3. q.id \in CodeId /\ q.user \in User /\ q.dest \in Dest
    BY DEF Update
  <2>4. StoreNext /\ Stored' = Stored
    BY <1>7, <2>3, RowStep DEF CreationInv
  <2>5. codes'[q.id].short = codes[q.id].short
    BY <1>3, <2>4, StepMovesForward DEF CreationInv, Forward
  <2>6. IsRequest(r) /\ r.op \notin CreationOps /\ r.id \in Stored /\ r.short = codes'[r.id].short
    BY <1>3, <2>2, <2>5 DEF IsRequest, CreationOps
  <2>7. CountersKept
    BY <1>7, CountersAreKept DEF CreationInv
  <2> QED BY <1>1, <1>4, <1>7, <2>1, <2>4, <2>6, <2>7, OtherStepInv
<1>8. ASSUME w \notin gone, UNCHANGED <<faults, hangups, storeVars>>,
             \/ Return(w)
             \/ Retries(q) /\ Become(w, [q EXCEPT !.pc = "read", !.tries = q.tries + 1]) /\ UNCHANGED gone
             \/ Become(w, [q EXCEPT !.pc = "lost"]) /\ UNCHANGED gone
      PROVE  CreationInv'
  <2>0. CountersKept /\ Stored' = Stored /\ codes' = codes /\ UNCHANGED storeVars
    BY <1>8, CountersAreKept DEF CreationInv, Return, storeVars, Stored
  <2>1. CASE Return(w)
    BY <1>1, <1>4, <2>0, <2>1, ReturnInv DEF Return
  <2>2. ASSUME NEW r, Become(w, r), r \in Update, r.id = q.id, r.short = q.short, r.op = "update"
        PROVE  CreationInv'
    <3>1. IsRequest(r) /\ r.op \notin CreationOps /\ r.id \in Stored /\ r.short = codes'[r.id].short
      BY <1>3, <2>0, <2>2 DEF IsRequest, CreationOps
    <3> QED BY <1>1, <1>4, <2>0, <2>2, <3>1, OtherStepInv
  <2>3. CASE Retries(q) /\ Become(w, [q EXCEPT !.pc = "read", !.tries = q.tries + 1])
    <3>1. LastWriteWinsAttempts \in Nat
      BY Zenon, ServiceAssumption
    <3>2. PICK n \in 1..LastWriteWinsAttempts : n = q.tries + 1
      BY <2>3, <3>1 DEF Retries, Update
    <3>3. PICK r : r = [q EXCEPT !.pc = "read", !.tries = n]
      OBVIOUS
    <3>4. r \in Update /\ r.id = q.id /\ r.short = q.short /\ r.op = "update"
      BY <1>3, <3>3 DEF Update
    <3>5. Become(w, r)
      BY <2>3, <3>2, <3>3, Zenon
    <3> QED BY <2>2, <3>4, <3>5
  <2>4. CASE Become(w, [q EXCEPT !.pc = "lost"])
    <3>1. PICK r : r = [q EXCEPT !.pc = "lost"]
      OBVIOUS
    <3>2. r \in Update /\ r.id = q.id /\ r.short = q.short /\ r.op = "update"
      BY <1>3, <3>1 DEF Update
    <3> QED BY <2>2, <2>4, <3>1, <3>2
  <2> QED BY <1>8, <2>1, <2>3, <2>4
<1>9. CASE /\ UpdateResult(q.id, q.user, v) = "conflict"
           /\ w \notin gone
           /\ CASE q.expect > 0 \/ q.dead -> Return(w)
                [] Retries(q) ->
                     Become(w, [q EXCEPT !.pc = "read", !.tries = q.tries + 1]) /\ UNCHANGED gone
                [] OTHER -> Become(w, [q EXCEPT !.pc = "lost"]) /\ UNCHANGED gone
           /\ UNCHANGED <<faults, hangups, storeVars>>
  <2>1. \/ Return(w)
        \/ Retries(q) /\ Become(w, [q EXCEPT !.pc = "read", !.tries = q.tries + 1]) /\ UNCHANGED gone
        \/ Become(w, [q EXCEPT !.pc = "lost"]) /\ UNCHANGED gone
    BY <1>9, Zenon DEF Retries
  <2> QED BY <1>8, <1>9, <2>1
<1> QED BY <1>2, <1>5, <1>6, <1>7, <1>9, Zenon DEF UpdateCas

\* The invalidation that ends an update, a state change or a delete.
LEMMA InvalidateInv ==
  ASSUME CreationInv, NEW w \in Worker, UpdateInvalidate(w) \/ ChangeInvalidate(w)
  PROVE  CreationInv' /\ UNCHANGED storeVars
<1>1. /\ req[w].op \in {"update", "state", "delete"} /\ blobs' = blobs /\ UNCHANGED storeVars
      /\ InvalidateFor(req[w].short) /\ Return(w) /\ UNCHANGED <<faults, hangups>>
  BY DEF UpdateInvalidate, ChangeInvalidate
<1>2. req[w].short \in ShortCode
  BY <1>1, StoredRowType DEF CreationInv, ReqInv, StoreInv, Row
<1>3. CacheTypeOK' /\ overtaken' \subseteq Worker /\ late' \subseteq ShortCode
  BY <1>1, <1>2, InvalidateTyped DEF CreationInv
<1>4. CountersKept /\ Become(w, Idle)
  BY <1>1, CountersAreKept DEF CreationInv, Return
<1>5. req[w].op \notin CreationOps
  BY <1>1 DEF CreationOps
<1> QED BY <1>1, <1>3, <1>4, <1>5, ReturnInv

\* Every step of an update.
LEMMA UpdateStepInv ==
  ASSUME CreationInv, NEW w \in Worker, UpdateStep(w)
  PROVE  CreationInv' /\ [StoreNext]_storeVars
<1>1. CASE UpdateLost(w)
  <2>1. /\ blobs' = blobs /\ UNCHANGED storeVars /\ UNCHANGED cacheVars
        /\ Become(w, Idle) /\ req[w].op \notin CreationOps
    BY <1>1 DEF UpdateLost, Return, CreationOps
  <2>2. CountersKept
    BY <1>1, CountersAreKept DEF CreationInv, UpdateLost, Return
  <2> QED BY <2>1, <2>2, ReturnInv
<1> QED BY <1>1, BeginUpdateInv, UpdateReadInv, UpdateCasInv, InvalidateInv DEF UpdateStep

\* A state change or a delete begins.
LEMMA BeginChangeInv ==
  ASSUME CreationInv, NEW w \in Worker, BeginSetState(w) \/ BeginDelete(w)
  PROVE  CreationInv' /\ UNCHANGED storeVars
<1>1. PICK u \in User, c \in Stored, st \in State, op \in {"state", "delete"} :
        Begin(w, [op |-> op, pc |-> "write", user |-> u, id |-> c,
                  short |-> codes[c].short, to |-> st])
  <2>1. {"active", "disabled"} \subseteq State /\ "deleted" \in State
    BY DEF State
  <2>2. "state" \in {"state", "delete"} /\ "delete" \in {"state", "delete"}
    OBVIOUS
  <2> QED BY <2>1, <2>2, Zenon DEF BeginSetState, BeginDelete
<1>2. PICK r : r = [op |-> op, pc |-> "write", user |-> u, id |-> c,
                    short |-> codes[c].short, to |-> st]
  OBVIOUS
<1>3. c \in CodeId /\ codes[c].short \in ShortCode
  BY StoredRowType DEF CreationInv, StoreInv, Row, Stored
<1>4. r \in Change
  BY <1>2, <1>3 DEF Change
<1>5. IsRequest(r) /\ r.op \notin CreationOps /\ r.id \in Stored /\ r.short = codes[r.id].short
  BY <1>2, <1>4 DEF IsRequest, CreationOps
<1> QED BY <1>1, <1>2, <1>5, BeginOtherInv

\* A change goes on with another pc, whatever the store did.
LEMMA ChangeGoesOn ==
  ASSUME CreationInv, NEW w \in Worker, NEW q \in Change, q = req[w],
         [StoreNext]_storeVars, Stored' = Stored, blobs' = blobs, CallWorks(w), UNCHANGED cacheVars,
         NEW p \in {"reget", "inval"}, NEW r, r = [q EXCEPT !.pc = p], Become(w, r)
  PROVE  CreationInv'
<1>1. q.op \in {"state", "delete"}
  BY DEF Change
<1>2. q.id \in Stored /\ q.short = codes[q.id].short /\ req[w].op \notin CreationOps
  BY <1>1 DEF CreationInv, ReqInv, CreationOps
<1>3. r \in Change /\ r.id = q.id /\ r.short = q.short /\ r.op = q.op
  BY DEF Change
<1>4. codes'[q.id].short = codes[q.id].short
  BY <1>2, StepMovesForward DEF CreationInv, Forward
<1>5. IsRequest(r) /\ r.op \notin CreationOps /\ r.id \in Stored /\ r.short = codes'[r.id].short
  BY <1>1, <1>2, <1>3, <1>4 DEF IsRequest, CreationOps
<1>6. CountersKept
  BY CountersAreKept DEF CreationInv
<1> QED BY <1>2, <1>5, <1>6, OtherStepInv

\* The UPDATE of a state change.
LEMMA SetStateWriteInv ==
  ASSUME CreationInv, NEW w \in Worker, SetStateWrite(w)
  PROVE  CreationInv' /\ [StoreNext]_storeVars
<1>1. req[w].op = "state" /\ blobs' = blobs /\ UNCHANGED cacheVars
  BY DEF SetStateWrite
<1>2. PICK q \in Change : q = req[w]
  BY <1>1, Kinds DEF CreationInv, ReqInv
<1>3. req[w].op \notin CreationOps
  BY <1>1 DEF CreationOps
<1>4. CASE ReturnError(w) /\ UNCHANGED storeVars
  <2>1. CountersKept /\ Become(w, Idle)
    BY <1>4, CountersAreKept DEF CreationInv, ReturnError, Return
  <2> QED BY <1>1, <1>3, <1>4, <2>1, ReturnInv
<1>5. CASE Return(w) /\ UNCHANGED <<faults, hangups, storeVars>>
  <2>1. CountersKept /\ Become(w, Idle)
    BY <1>5, CountersAreKept DEF CreationInv, Return
  <2> QED BY <1>1, <1>3, <1>5, <2>1, ReturnInv
<1>6. CASE CallWorks(w) /\ SetCodeState(q.id, q.user, q.to) /\ Become(w, [q EXCEPT !.pc = "reget"])
  <2>1. q.id \in CodeId /\ q.user \in User /\ q.to \in State
    BY DEF Change
  <2>2. StoreNext /\ Stored' = Stored
    BY <1>6, <2>1, RowStep DEF CreationInv
  <2>3. "reget" \in {"reget", "inval"}
    OBVIOUS
  <2> QED BY <1>1, <1>2, <1>6, <2>2, <2>3, ChangeGoesOn
<1> QED BY <1>2, <1>4, <1>5, <1>6, Zenon DEF SetStateWrite

\* The re-read after a state change.
LEMMA SetStateRegetInv ==
  ASSUME CreationInv, NEW w \in Worker, SetStateReget(w)
  PROVE  CreationInv' /\ UNCHANGED storeVars
<1>1. req[w].op = "state" /\ blobs' = blobs /\ UNCHANGED storeVars
  BY DEF SetStateReget
<1>2. PICK q \in Change : q = req[w]
  BY <1>1, Kinds DEF CreationInv, ReqInv
<1>3. req[w].op \notin CreationOps /\ q.short = codes[q.id].short /\ q.short \in ShortCode
  BY <1>1, <1>2 DEF CreationOps, CreationInv, ReqInv, Change
<1>4. CASE ReturnError(w) /\ SkipInvalidate(q.short)
  <2>1. CountersKept /\ Become(w, Idle)
    BY <1>4, CountersAreKept DEF CreationInv, ReturnError, Return
  <2>2. CacheTypeOK' /\ overtaken' \subseteq Worker /\ late' \subseteq ShortCode
    BY <1>3, <1>4, InvalidateTyped DEF CreationInv
  <2> QED BY <1>1, <1>3, <2>1, <2>2, ReturnInv
<1>5. CASE /\ CallWorks(w) /\ UNCHANGED cacheVars
           /\ Become(w, [q EXCEPT !.pc = "inval", !.short = codes[q.id].short])
  <2>1. [q EXCEPT !.pc = "inval", !.short = codes[q.id].short] = [q EXCEPT !.pc = "inval"]
    BY <1>3 DEF Change
  <2>2. Become(w, [q EXCEPT !.pc = "inval"])
    BY <1>5, <2>1, Zenon
  <2>3. "inval" \in {"reget", "inval"} /\ Stored' = Stored
    BY <1>1 DEF storeVars, Stored
  <2> QED BY <1>1, <1>2, <1>5, <2>2, <2>3, ChangeGoesOn
<1> QED BY <1>2, <1>4, <1>5, Zenon DEF SetStateReget

\* The soft delete.
LEMMA DeleteWriteInv ==
  ASSUME CreationInv, NEW w \in Worker, DeleteWrite(w)
  PROVE  CreationInv' /\ [StoreNext]_storeVars
<1>1. req[w].op = "delete" /\ blobs' = blobs /\ UNCHANGED cacheVars
  BY DEF DeleteWrite
<1>2. PICK q \in Change : q = req[w]
  BY <1>1, Kinds DEF CreationInv, ReqInv
<1>3. req[w].op \notin CreationOps
  BY <1>1 DEF CreationOps
<1>4. CASE ReturnError(w) /\ UNCHANGED storeVars
  <2>1. CountersKept /\ Become(w, Idle)
    BY <1>4, CountersAreKept DEF CreationInv, ReturnError, Return
  <2> QED BY <1>1, <1>3, <1>4, <2>1, ReturnInv
<1>5. CASE CallWorks(w) /\ DeleteCode(q.id, q.user) /\ Become(w, [q EXCEPT !.pc = "inval"])
  <2>1. q.id \in CodeId /\ q.user \in User
    BY DEF Change
  <2>2. StoreNext /\ Stored' = Stored
    BY <1>5, <2>1, RowStep DEF CreationInv
  <2>3. "inval" \in {"reget", "inval"}
    OBVIOUS
  <2> QED BY <1>1, <1>2, <1>5, <2>2, <2>3, ChangeGoesOn
<1> QED BY <1>2, <1>4, <1>5, Zenon DEF DeleteWrite

\* Every step of a state change or a delete.
LEMMA ChangeStepInv ==
  ASSUME CreationInv, NEW w \in Worker, ChangeStep(w)
  PROVE  CreationInv' /\ [StoreNext]_storeVars
  BY BeginChangeInv, SetStateWriteInv, SetStateRegetInv, DeleteWriteInv, InvalidateInv DEF ChangeStep

-----------------------------------------------------------------------------
(* Scans, and the environment.                                             *)

\* What a lookup answers is a resolution.
LEMMA LookupType ==
  ASSUME StoreInv, NEW s \in ShortCode
  PROVE  Lookup(s) \in Resolution
<1>1. GetCodeByShortCode(s) \in Resolvable(s) \cup {NoRow}
  BY DEF GetCodeByShortCode
<1>2. CASE GetCodeByShortCode(s) = NoRow
  BY <1>2 DEF Lookup, Resolution
<1>3. CASE GetCodeByShortCode(s) # NoRow
  <2>1. PICK c \in Stored : c = GetCodeByShortCode(s)
    BY <1>1, <1>3 DEF Resolvable
  <2>2. c \in CodeId /\ codes[c].dest \in Dest /\ codes[c].state \in State
    BY StoredRowType DEF StoreInv, Row, Stored
  <2> QED BY <1>3, <2>1, <2>2 DEF Lookup, Resolution
<1> QED BY <1>2, <1>3

\* Every step of a scan.
LEMMA ScanStepInv ==
  ASSUME CreationInv, NEW w \in Worker, ScanStep(w)
  PROVE  CreationInv' /\ UNCHANGED storeVars
<1> USE DEF CreationInv
<1>1. CASE ScanHit(w)
  <2>1. UNCHANGED storeVars /\ UNCHANGED cacheVars /\ blobs' = blobs /\ UNCHANGED req /\ UNCHANGED callVars
    BY <1>1 DEF ScanHit, CacheHit, cacheVars
  <2>2. StoreInv' /\ Forward /\ Stored' = Stored
    BY <2>1, StoreStays DEF storeVars, Stored
  <2>3. ReqInv' /\ \A x \in Worker : Items(x)' = Items(x)
    BY <2>1, <2>2, ReqStays
  <2>4. OthersTyped'
    BY <2>1, OthersKept DEF OthersTyped
  <2> QED BY <2>1, <2>2, <2>3, <2>4, ItemsLeaveInv DEF callVars
<1>2. CASE ScanMiss(w)
  <2>1. PICK s \in ShortCode : Begin(w, [op |-> "scan", pc |-> "lookup", short |-> s, res |-> NotFound])
    BY <1>2 DEF ScanMiss
  <2>2. PICK r : r = [op |-> "scan", pc |-> "lookup", short |-> s, res |-> NotFound]
    OBVIOUS
  <2>3. r \in Scan
    BY <2>2 DEF Scan, Resolution
  <2>4. IsRequest(r) /\ r.op \notin CreationOps /\ r.op \notin {"update", "state", "delete"}
    BY <2>2, <2>3 DEF IsRequest, CreationOps
  <2> QED BY <2>1, <2>2, <2>4, BeginOtherInv
<1>3. CASE ScanLookup(w)
  <2>1. req[w].op = "scan" /\ blobs' = blobs /\ UNCHANGED cacheVars /\ UNCHANGED storeVars
    BY <1>3 DEF ScanLookup
  <2>2. PICK q \in Scan : q = req[w]
    BY <2>1, Kinds DEF ReqInv
  <2>3. req[w].op \notin CreationOps
    BY <2>1 DEF CreationOps
  <2>4. CASE ReturnError(w)
    <3>1. CountersKept /\ Become(w, Idle)
      BY <2>4, CountersAreKept DEF ReturnError, Return
    <3> QED BY <2>1, <2>3, <3>1, ReturnInv
  <2>5. CASE CallWorks(w) /\ Become(w, [q EXCEPT !.pc = "fill", !.res = Lookup(q.short)])
    <3>1. PICK l \in Resolution : l = Lookup(q.short)
      BY LookupType DEF Scan
    <3>2. PICK r : r = [q EXCEPT !.pc = "fill", !.res = l]
      OBVIOUS
    <3>3. r \in Scan
      BY <3>2 DEF Scan
    <3>4. IsRequest(r) /\ r.op \notin CreationOps /\ r.op \notin {"update", "state", "delete"}
      BY <3>3 DEF IsRequest, CreationOps, Scan
    <3>5. CountersKept
      BY <2>5, CountersAreKept
    <3>6. Become(w, r) /\ Stored' = Stored
      BY <2>1, <2>5, <3>1, <3>2 DEF storeVars, Stored
    <3> QED BY <2>1, <2>3, <3>4, <3>5, <3>6, OtherStepInv
  <2> QED BY <1>3, <2>1, <2>2, <2>4, <2>5, Zenon DEF ScanLookup
<1>4. CASE ScanFill(w)
  <2>1. /\ req[w].op = "scan" /\ blobs' = blobs /\ UNCHANGED storeVars /\ Return(w)
        /\ CacheSet(req[w].short, req[w].res) /\ UNCHANGED <<faults, hangups>>
        /\ late' \subseteq late \cup {req[w].short} /\ overtaken' = overtaken \ {w}
    BY <1>4 DEF ScanFill
  <2>2. PICK q \in Scan : q = req[w]
    BY <2>1, Kinds DEF ReqInv
  <2>3. req[w].op \notin CreationOps /\ q.short \in ShortCode /\ q.res \in Resolution
    BY <2>1 DEF CreationOps, Scan
  <2>4. CountersKept /\ Become(w, Idle)
    BY <2>1, CountersAreKept DEF Return
  <2>5. CacheTypeOK'
    <3>1. PICK a : a = IF Cached(q.short) THEN cache[q.short].age ELSE 0
      OBVIOUS
    <3>2. a \in 0..(TTL - 1)
      BY <2>3, <3>1, CacheAssumption DEF OthersTyped, CacheTypeOK, Cached, Entry
    <3>3. [res |-> q.res, age |-> a] \in Entry
      BY <2>3, <3>2 DEF Entry
    <3> QED BY <2>1, <2>2, <3>1, <3>3 DEF OthersTyped, CacheTypeOK, CacheSet
  <2>6. overtaken' \subseteq Worker /\ late' \subseteq ShortCode
    BY <2>1, <2>2, <2>3 DEF OthersTyped
  <2> QED BY <2>1, <2>3, <2>4, <2>5, <2>6, ReturnInv
<1> QED BY <1>1, <1>2, <1>3, <1>4 DEF ScanStep

\* The admin's release empties a short code and touches no row.
LEMMA AdminReleaseInv ==
  ASSUME CreationInv, AdminRelease
  PROVE  CreationInv' /\ StoreNext
<1> USE DEF CreationInv
<1>1. PICK s \in ShortCode : ReleaseAlias(s)
  BY DEF AdminRelease
<1>2. StoreNext /\ codes' = codes
  BY <1>1 DEF StoreNext, ReleaseAlias
<1>3. Stored' = Stored
  BY <1>2 DEF Stored
<1>4. /\ blobs' = blobs /\ UNCHANGED cacheVars /\ UNCHANGED req
      /\ gone' = gone /\ faults' = faults /\ hangups' = hangups
  BY DEF AdminRelease, callVars
<1>5. Forward
  BY <1>2, StepMovesForward
<1>6. ReqInv' /\ \A x \in Worker : Items(x)' = Items(x)
  BY <1>4, <1>5, ReqStays
<1>7. OthersTyped'
  BY <1>4 DEF OthersTyped, cacheVars, CacheTypeOK
<1> QED BY <1>2, <1>3, <1>4, <1>6, <1>7, ItemsLeaveInv

\* Time passing and a full cache only shed entries.
LEMMA CacheShedsInv ==
  ASSUME CreationInv, Tick \/ Evict
  PROVE  CreationInv' /\ UNCHANGED storeVars
<1> USE DEF CreationInv
<1>1. /\ blobs' = blobs /\ UNCHANGED req /\ UNCHANGED storeVars /\ overtaken' = overtaken
      /\ gone' = gone /\ faults' = faults /\ hangups' = hangups
      /\ late' \subseteq late
  BY DEF Tick, Evict, callVars
<1>2. CacheTypeOK'
  <2>0. cache \in [ShortCode -> Entry \cup {Absent}] /\ TTL \in Nat \ {0}
    BY CacheAssumption DEF OthersTyped, CacheTypeOK
  <2>1. CASE Tick
    <3>1. ASSUME NEW s \in ShortCode, Cached(s), cache[s].age + 1 # TTL
          PROVE  [res |-> cache[s].res, age |-> cache[s].age + 1] \in Entry
      <4>1. cache[s].res \in Resolution /\ cache[s].age \in 0..(TTL - 1)
        BY <2>0, <3>1 DEF Cached, Entry
      <4>2. cache[s].age + 1 \in 0..(TTL - 1)
        BY <2>0, <3>1, <4>1
      <4> QED BY <4>1, <4>2 DEF Entry
    <3> QED BY <2>1, <3>1 DEF Tick, CacheTick, CacheTypeOK
  <2>2. CASE Evict
    BY <2>0, <2>2 DEF Evict, CacheEvict, CacheTypeOK
  <2> QED BY <2>1, <2>2
<1>3. StoreInv' /\ Forward /\ Stored' = Stored
  BY <1>1, StoreStays DEF storeVars, Stored
<1>4. ReqInv' /\ \A x \in Worker : Items(x)' = Items(x)
  BY <1>1, <1>3, ReqStays
<1>5. OthersTyped'
  BY <1>1, <1>2 DEF OthersTyped
<1> QED BY <1>1, <1>3, <1>4, <1>5, ItemsLeaveInv

\* A client that hangs up is trouble from then on.
LEMMA HangUpInv ==
  ASSUME CreationInv, NEW w \in Worker, HangUp(w)
  PROVE  CreationInv' /\ UNCHANGED storeVars
<1> USE DEF CreationInv
<1>1. /\ blobs' = blobs /\ UNCHANGED req /\ UNCHANGED storeVars /\ UNCHANGED cacheVars
      /\ gone' = gone \cup {w} /\ faults' = faults /\ hangups' = hangups + 1
      /\ hangups < MaxHangups
  BY DEF HangUp
<1>2. MaxHangups \in Nat /\ hangups \in 0..MaxHangups
  BY Zenon, ServiceAssumption DEF OthersTyped
<1>3. hangups' \in 0..MaxHangups /\ hangups' # 0
  BY <1>1, <1>2
<1>4. StoreInv' /\ Forward /\ Stored' = Stored
  BY <1>1, StoreStays DEF storeVars, Stored
<1>5. ReqInv' /\ \A x \in Worker : Items(x)' = Items(x)
  BY <1>1, <1>4, ReqStays
<1>6. OthersTyped'
  BY <1>1, <1>3 DEF OthersTyped, cacheVars, CacheTypeOK
<1> QED BY <1>1, <1>3, <1>4, <1>5, <1>6, ItemsLeaveInv

\* A crash loses the requests and the cache; what it leaves behind is trouble.
LEMMA CrashInv ==
  ASSUME CreationInv, Crash
  PROVE  CreationInv' /\ UNCHANGED storeVars
<1> USE DEF CreationInv
<1>1. /\ blobs' = blobs /\ req' = [w \in Worker |-> Idle] /\ UNCHANGED storeVars
      /\ cache' = [s \in ShortCode |-> Absent] /\ gone' = {} /\ overtaken' = {} /\ late' = {}
      /\ faults' = faults + 1 /\ faults < MaxFaults /\ hangups' = hangups
  BY DEF Crash
<1>2. MaxFaults \in Nat /\ faults \in 0..MaxFaults
  BY Zenon, ServiceAssumption DEF OthersTyped
<1>3. faults' \in 0..MaxFaults /\ faults' # 0
  BY <1>1, <1>2
<1>4. StoreInv' /\ Stored' = Stored
  BY <1>1, StoreStays DEF storeVars, Stored
<1>5. \A x \in Worker : Items(x)' = << >> /\ DOMAIN Items(x)' = {}
  BY <1>1 DEF Items, Idle
<1>6. ReqInv'
  <2>1. \A x \in Worker : IsRequest(req[x])'
    BY <1>1 DEF IsRequest
  <2>2. \A x \in Worker : req'[x].op \notin {"update", "state", "delete"}
    BY <1>1 DEF Idle
  <2> QED BY <1>1, <2>1, <2>2 DEF ReqInv
<1>7. OthersTyped'
  BY <1>1, <1>3 DEF OthersTyped, CacheTypeOK
<1> QED BY <1>1, <1>3, <1>4, <1>5, <1>6, <1>7, ItemsLeaveInv

\* Initially there is nothing to account for.
LEMMA InitCreationInv == ServiceInit => CreationInv
<1> SUFFICES ASSUME ServiceInit PROVE CreationInv
  OBVIOUS
<1>1. StoreInv
  BY InitInv DEF ServiceInit
<1>2. Stored = {}
  BY DEF ServiceInit, StoreInit, Stored
<1>3. req = [w \in Worker |-> Idle]
  BY DEF ServiceInit
<1>4. \A x \in Worker : Items(x) = << >> /\ DOMAIN Items(x) = {}
  BY <1>3 DEF Items, Idle
<1>5. ReqInv
  BY <1>3 DEF ReqInv, IsRequest, Idle
<1>6. MaxFaults \in Nat /\ MaxHangups \in Nat
  BY Zenon, ServiceAssumption
<1>7. OthersTyped
  BY <1>6 DEF OthersTyped, ServiceInit, CacheInit, CacheTypeOK
<1>8. ItemsInv
  BY <1>4 DEF ItemsInv, IdsPrivate, InsertedTogether, ItemsAt
<1>9. RowHasImage /\ BlobsAccounted
  BY <1>2 DEF RowHasImage, BlobsAccounted, ServiceInit
<1> QED BY <1>1, <1>5, <1>7, <1>8, <1>9 DEF CreationInv

\* Every step keeps CreationInv and is a transaction of the store or none.
LEMMA NextCreationInv ==
  ASSUME CreationInv, [ServiceNext]_serviceVars
  PROVE  CreationInv' /\ [StoreNext]_storeVars
<1>1. CASE UNCHANGED serviceVars
  <2>1. /\ blobs' = blobs /\ UNCHANGED req /\ UNCHANGED storeVars /\ UNCHANGED cacheVars
        /\ gone' = gone /\ faults' = faults /\ hangups' = hangups
    BY <1>1 DEF serviceVars, callVars
  <2>2. StoreInv' /\ Forward /\ Stored' = Stored
    BY <2>1, StoreStays DEF storeVars, Stored, CreationInv
  <2>3. ReqInv' /\ \A x \in Worker : Items(x)' = Items(x)
    BY <2>1, <2>2, ReqStays DEF CreationInv
  <2>4. OthersTyped'
    BY <2>1 DEF OthersTyped, cacheVars, CacheTypeOK, CreationInv
  <2> QED BY <2>1, <2>2, <2>3, <2>4, ItemsLeaveInv
<1>2. ASSUME NEW w \in Worker, CreateStep(w) \/ UpdateStep(w) \/ ChangeStep(w) \/ ScanStep(w) \/ HangUp(w)
      PROVE  CreationInv' /\ [StoreNext]_storeVars
  BY <1>2, CreateStepInv, UpdateStepInv, ChangeStepInv, ScanStepInv, HangUpInv
<1>3. CASE AdminRelease \/ Tick \/ Evict \/ Crash
  BY <1>3, AdminReleaseInv, CacheShedsInv, CrashInv
<1> QED BY <1>1, <1>2, <1>3 DEF ServiceNext

\* CreationInv holds throughout.
LEMMA CreationInvariant == ServiceSpec => []CreationInv
  BY InitCreationInv, NextCreationInv, PTL DEF ServiceSpec

-----------------------------------------------------------------------------
(* What follows for creations.                                             *)

\* For every instance of the service: a stored row has its image, however
\* requests interleave, whatever calls fail and wherever the process crashes.
\* materialise writes the image before Create inserts the row, and only an item
\* without a row deletes blobs.
THEOREM ImageTheorem == ServiceSpec => []RowHasImage
<1>1. CreationInv => RowHasImage
  BY DEF CreationInv
<1> QED BY <1>1, CreationInvariant, PTL

\* For every instance of the service: once every request has returned, and no
\* call has failed and no client has left, each blob belongs to a row.
THEOREM OrphanTheorem == ServiceSpec => []NoOrphanWithoutTrouble
<1>1. CreationInv => NoOrphanWithoutTrouble
  <2> SUFFICES ASSUME CreationInv, Quiet, faults = 0, hangups = 0, NEW k \in blobs
               PROVE  k[2] \in Stored
    BY DEF NoOrphanWithoutTrouble, Orphans
  <2>1. \A w \in Worker : DOMAIN Items(w) = {}
    BY DEF Quiet, Items, Idle
  <2> QED BY <2>1 DEF CreationInv, BlobsAccounted
<1> QED BY <1>1, CreationInvariant, PTL

\* For every instance of the service: what a creation is about to answer is
\* what the store holds, and overlapping requests of a user that carry the same
\* client_ref name the same code.
THEOREM AnswersTheorem == ServiceSpec => []AnswersAreTrue
<1>1. CreationInv => ServiceTypeOK
  BY DEF CreationInv, StoreInv, ReqInv, IsRequest, OthersTyped, ServiceTypeOK
<1>2. ASSUME CreationInv, NEW w \in Worker, NEW i \in DOMAIN Items(w)
      PROVE  /\ ItemOK(Items(w)[i], req[w].user) /\ Items(w)[i] \in Item /\ req[w].user \in User
             /\ Items(w)[i].in.ref \in Ref \cup {NoRef}
  <2>1. Items(w)[i] \in Item
    BY <1>2, ItemsTyped DEF CreationInv
  <2>2. req[w].user \in User
    BY <1>2, ItemsTyped DEF CreationInv
  <2> QED BY <1>2, <2>1, <2>2 DEF CreationInv, ItemsInv, Item, Input
<1>3. ASSUME CreationInv, NEW w \in Worker
      PROVE  /\ \A i \in Named(w) :
                  Items(w)[i].id \in Stored /\ <<"image", Items(w)[i].id>> \in blobs
             /\ \A i \in ItemsAt(w, {"undo", "error"}) : Items(w)[i].id \notin Stored
             /\ ~ (ItemsAt(w, {"undo"}) # {} /\ ItemsAt(w, {"inserted", "created"}) # {})
  <2>1. \A i \in Named(w) : Items(w)[i].id \in Stored
    BY <1>2, <1>3 DEF Named, ItemsAt, ItemOK, NamedStage
  <2>2. \A i \in ItemsAt(w, {"undo", "error"}) : Items(w)[i].id \notin Stored
    BY <1>2, <1>3 DEF ItemsAt, ItemOK, NamedStage
  <2>3. ItemsAt(w, {"undo"}) # {} => ItemsAt(w, ItemStage \ (Done \cup {"inserted"})) # {}
    BY DEF ItemsAt, ItemStage, Done
  <2> QED BY <1>3, <2>1, <2>2, <2>3 DEF CreationInv, ItemsInv, InsertedTogether, RowHasImage
<1>4. ASSUME CreationInv, NEW w \in Worker, NEW x \in Worker,
             NEW i \in Named(w), NEW j \in Named(x),
             req[w].user = req[x].user,
             Items(w)[i].in.ref = Items(x)[j].in.ref, Items(w)[i].in.ref # NoRef
      PROVE  Items(w)[i].id = Items(x)[j].id
  <2>1. /\ i \in DOMAIN Items(w) /\ Items(w)[i].stage \in NamedStage
        /\ j \in DOMAIN Items(x) /\ Items(x)[j].stage \in NamedStage
    BY DEF Named, ItemsAt, NamedStage
  <2>2. PICK u \in User, r \in Ref : u = req[w].user /\ r = Items(w)[i].in.ref
    BY <1>2, <1>4, <2>1
  <2>3. Items(w)[i].id \in GetCodeByClientRef(u, r)
    BY <1>2, <1>4, <2>1, <2>2 DEF ItemOK, GetCodeByClientRef
  <2>4. Items(x)[j].id \in GetCodeByClientRef(u, r)
    BY <1>2, <1>4, <2>1, <2>2 DEF ItemOK, GetCodeByClientRef
  <2> QED BY <1>4, <2>3, <2>4 DEF CreationInv, StoreInv, ClientRefUnique
<1>5. CreationInv => AnswersAreTrue
  <2> SUFFICES ASSUME CreationInv PROVE AnswersAreTrue
    OBVIOUS
  <2>1. ServiceTypeOK
    BY <1>1
  <2>2. \A w \in Worker :
          /\ \A i \in Named(w) :
               Items(w)[i].id \in Stored /\ <<"image", Items(w)[i].id>> \in blobs
          /\ \A i \in ItemsAt(w, {"undo", "error"}) : Items(w)[i].id \notin Stored
          /\ ~ (ItemsAt(w, {"undo"}) # {} /\ ItemsAt(w, {"inserted", "created"}) # {})
    BY <1>3
  <2>3. \A w, x \in Worker : \A i \in Named(w), j \in Named(x) :
          /\ req[w].user = req[x].user
          /\ Items(w)[i].in.ref = Items(x)[j].in.ref /\ Items(w)[i].in.ref # NoRef
          => Items(w)[i].id = Items(x)[j].id
    BY <1>4
  <2> QED BY <2>1, <2>2, <2>3, Zenon DEF AnswersAreTrue
<1> QED BY <1>5, CreationInvariant, PTL

-----------------------------------------------------------------------------
(* What the store promises holds while the service's requests interleave.  *)

\* For every instance of the service: the namespace of short codes obeys
\* AliasNamespace, no request hands a printed code to another one, and rows only
\* move forward, however requests interleave.
THEOREM ServiceKeepsNamespace ==
  ServiceSpec => ImplementsNamespace /\ NoSilentHijack /\ RowsOnlyMoveForward
<1>1. ServiceInit => StoreInit
  BY DEF ServiceInit
<1>2. CreationInv /\ [ServiceNext]_serviceVars => [StoreNext]_storeVars
  BY NextCreationInv
<1>3. ServiceSpec => StoreSpec
  BY <1>1, <1>2, CreationInvariant, PTL DEF ServiceSpec, StoreSpec
<1> QED BY <1>3, StoreImplementsNamespace, NamespaceNeverHijacked, RowsMoveForward, PTL

-----------------------------------------------------------------------------
(* Steps that leave the updates, the scans and the pending invalidations   *)
(* of other requests alone.                                                *)

StepOf(w) == \A x \in Worker \ {w} : req'[x] = req[x] /\ Items(x)' = Items(x)

UpdatesKept == \A x \in Worker : req'[x].op = "update" => req'[x] = req[x]
FillsKept == \A x \in Worker : req'[x].op = "scan" /\ req'[x].pc = "fill" => req'[x] = req[x]
MutatorsKept == \A s \in ShortCode : Unsettled(s) \subseteq Unsettled(s)'

Calm == FillsKept /\ MutatorsKept

\* A request that owed no invalidation, and is no scan about to fill now.
LEMMA StepCalm ==
  ASSUME NEW w \in Worker, StepOf(w),
         ~(req'[w].op = "scan" /\ req'[w].pc = "fill"),
         \A s \in ShortCode : w \notin Unsettled(s)
  PROVE  Calm /\ (req'[w].op # "update" => UpdatesKept)
<1>1. FillsKept /\ (req'[w].op # "update" => UpdatesKept)
  BY DEF StepOf, UpdatesKept, FillsKept
<1>2. ASSUME NEW s \in ShortCode, NEW x \in Unsettled(s) PROVE x \in Unsettled(s)'
  <2>1. x \in Worker /\ x # w
    BY <1>2 DEF Unsettled
  <2>2. req'[x] = req[x] /\ Items(x)' = Items(x)
    BY <2>1 DEF StepOf
  <2> QED BY <1>2, <2>1, <2>2 DEF Unsettled, ItemsAt
<1> QED BY <1>1, <1>2 DEF Calm, MutatorsKept

\* What a request owes nothing for.
LEMMA OwesNothing ==
  ASSUME ReqInv, NEW w \in Worker, ItemsAt(w, {"inserted"}) = {},
         req[w].op \in {"update", "state", "delete"} => req[w].pc \notin {"reget", "inval"}
  PROVE  \A s \in ShortCode : w \notin Unsettled(s)
  BY DEF Unsettled

\* Requests that are not creations have no items to owe for.
LEMMA NoneInserted ==
  ASSUME ReqInv, NEW w \in Worker, req[w].op \notin CreationOps
  PROVE  ItemsAt(w, {"inserted"}) = {}
  BY ItemsTyped DEF ItemsAt

\* SetItem, and the redraw of Undo, replace an item.
LEMMA SetItemIsStep ==
  ASSUME ReqInv, NEW w \in Worker, NEW i \in DOMAIN Items(w), NEW it,
         SetItem(w, i, it) \/ Redraw(w, i, it)
  PROVE  ItemStep(w, i, it)
<1>1. req[w].op \in CreationOps /\ Items(w) = req[w].items
  BY ItemsTyped
<1>2. PICK S \in SUBSET (1..MaxBatch) : req[w] \in Creation(S)
  BY <1>1, Kinds DEF ReqInv
<1>3. PICK q \in Creation(S) : q = req[w]
  BY <1>2
<1>4. ASSUME NEW r, Become(w, r), r.op = q.op, r.user = q.user, r.items = [q.items EXCEPT ![i] = it]
      PROVE  ItemStep(w, i, it)
  <2>1. req'[w] = r /\ \A x \in Worker \ {w} : req'[x] = req[x] /\ Items(x)' = Items(x)
    BY <1>4, BecomeReq
  <2>2. Items(w)' = r.items
    BY <1>1, <1>3, <1>4, <2>1 DEF Items, CreationOps
  <2> QED BY <1>1, <1>3, <1>4, <2>1, <2>2 DEF ItemStep
<1>5. CASE SetItem(w, i, it)
  <2>1. PICK r : r = [q EXCEPT !.items[i] = it]
    OBVIOUS
  <2>2. r.op = q.op /\ r.user = q.user /\ r.items = [q.items EXCEPT ![i] = it]
    BY <2>1 DEF Creation
  <2> QED BY <1>3, <1>4, <1>5, <2>1, <2>2 DEF SetItem
<1>6. CASE Redraw(w, i, it)
  <2>1. PICK n \in 1..GenerateAttempts, e \in {"none", "alias_taken", "client_ref_taken", "failed"} :
          Become(w, [q EXCEPT !.items[i] = it, !.tries = n, !.err = e])
    BY <1>3, <1>6, Zenon DEF Redraw
  <2>2. PICK r : r = [q EXCEPT !.items[i] = it, !.tries = n, !.err = e]
    OBVIOUS
  <2>3. r.op = q.op /\ r.user = q.user /\ r.items = [q.items EXCEPT ![i] = it]
    BY <2>2 DEF Creation
  <2> QED BY <1>4, <2>1, <2>2, <2>3
<1> QED BY <1>5, <1>6

\* An item that is not in the table yet moves on.
LEMMA ItemStepCalm ==
  ASSUME ReqInv, NEW w \in Worker, NEW i \in DOMAIN Items(w), NEW it, ItemStep(w, i, it),
         NEW s \in ShortCode, NEW x \in Unsettled(s), x # w \/ Items(w)[i].short # s
                                                            \/ Items(w)[i].stage # "inserted"
  PROVE  x \in Unsettled(s)'
<1>1. x \in Worker
  BY DEF Unsettled
<1>2. CASE x # w
  <2>1. req'[x] = req[x] /\ Items(x)' = Items(x)
    BY <1>1, <1>2 DEF ItemStep
  <2> QED BY <1>1, <2>1 DEF Unsettled, ItemsAt
<1>3. CASE x = w
  <2>1. req[w].op \in CreationOps
    BY ItemsTyped
  <2>2. PICK j \in ItemsAt(w, {"inserted"}) : Items(w)[j].short = s
    BY <1>3, <2>1 DEF Unsettled, CreationOps
  <2>3. j \in DOMAIN Items(w)' /\ Items(w)'[j] = Items(w)[j]
    BY <1>3, <2>2, ItemStepItems DEF ItemsAt
  <2> QED BY <1>3, <2>2, <2>3 DEF Unsettled, ItemsAt
<1> QED BY <1>2, <1>3

\* The updates and scans of a step that replaces an item.
LEMMA ItemStepOthers ==
  ASSUME ReqInv, NEW w \in Worker, NEW i \in DOMAIN Items(w), NEW it, ItemStep(w, i, it)
  PROVE  UpdatesKept /\ FillsKept
<1>1. req'[w].op \in CreationOps
  BY ItemsTyped DEF ItemStep
<1> QED BY <1>1 DEF UpdatesKept, FillsKept, ItemStep, CreationOps

\* Every step of a creation but its transaction and the invalidations after it.
LEMMA CreateCalm ==
  ASSUME CreationInv, NEW w \in Worker, CreateStep(w), ~Insert(w),
         \A i \in DOMAIN Items(w) : ~Confirm(w, i)
  PROVE  Calm /\ UpdatesKept /\ UNCHANGED cacheVars /\ UNCHANGED storeVars
<1> USE DEF CreationInv
<1>1. ASSUME NEW r, Begin(w, r), r.op \in CreationOps
      PROVE  Calm /\ UpdatesKept /\ UNCHANGED cacheVars /\ UNCHANGED storeVars
  <2>1. req[w] = Idle /\ Become(w, r) /\ UNCHANGED cacheVars /\ UNCHANGED storeVars
    BY <1>1 DEF Begin
  <2>2. req'[w] = r /\ StepOf(w)
    BY <2>1, BecomeReq DEF StepOf
  <2>3. \A s \in ShortCode : w \notin Unsettled(s)
    BY <2>1, NoneInserted, OwesNothing, IdleRequest
  <2> QED BY <1>1, <2>1, <2>2, <2>3, StepCalm DEF CreationOps
<1>2. CASE BeginCreate(w)
  <2>1. PICK u \in User, in \in Inputs :
          Begin(w, [op |-> "create", user |-> u, items |-> [i \in {1} |-> NewItem(in, "pending")],
                    tries |-> 1, err |-> "none"])
    BY <1>2 DEF BeginCreate
  <2> QED BY <1>1, <2>1 DEF CreationOps
<1>3. CASE BeginBatch(w)
  <2>1. PICK u \in User, b \in Requested :
          Begin(w, [op |-> "batch", user |-> u, items |-> [i \in inputIdx(b) |-> NewItem(b[i], "new")],
                    tries |-> 1, err |-> "none"])
    BY <1>3 DEF BeginBatch
  <2> QED BY <1>1, <2>1 DEF CreationOps
<1>4. CASE Answer(w)
  <2>1. /\ Become(w, Idle) /\ UNCHANGED cacheVars /\ UNCHANGED storeVars
        /\ ItemsAt(w, ItemStage \ Done) = {} /\ req[w].op \in CreationOps
    BY <1>4 DEF Answer, Return, CreationOps
  <2>2. req'[w] = Idle /\ StepOf(w)
    BY <2>1, BecomeReq DEF StepOf
  <2>3. ItemsAt(w, {"inserted"}) = {}
    BY <2>1 DEF ItemsAt, ItemStage, Done
  <2>4. \A s \in ShortCode : w \notin Unsettled(s)
    BY <2>1, <2>3, OwesNothing DEF CreationOps
  <2> QED BY <2>1, <2>2, <2>4, StepCalm, IdleRequest
<1>5. ASSUME NEW i \in DOMAIN Items(w), NEW it, SetItem(w, i, it) \/ Redraw(w, i, it),
             Items(w)[i].stage # "inserted"
      PROVE  Calm /\ UpdatesKept
  <2>1. ItemStep(w, i, it)
    BY <1>5, SetItemIsStep
  <2>2. UpdatesKept /\ FillsKept
    BY <2>1, ItemStepOthers
  <2>3. MutatorsKept
    BY <1>5, <2>1, ItemStepCalm DEF MutatorsKept
  <2> QED BY <2>2, <2>3 DEF Calm
<1>6. ASSUME NEW i \in DOMAIN Items(w),
             \/ CheckRef(w, i) \/ CheckAlias(w, i) \/ Render(w, i) \/ PutLogo(w, i)
             \/ PutImage(w, i) \/ RemoveLogo(w, i)
      PROVE  Calm /\ UpdatesKept /\ UNCHANGED cacheVars /\ UNCHANGED storeVars
  <2>1. UNCHANGED cacheVars /\ UNCHANGED storeVars
    BY <1>6, Zenon DEF CheckRef, CheckAlias, Render, PutLogo, PutImage, RemoveLogo
  <2>2. Items(w)[i].stage # "inserted"
    BY <1>6 DEF CheckRef, CheckAlias, Render, PutLogo, PutImage, RemoveLogo, ItemsAt
  <2>3. \E it : SetItem(w, i, it)
    BY <1>6, Zenon DEF CheckRef, CheckAlias, Render, PutLogo, PutImage, RemoveLogo, SetStage
  <2> QED BY <1>5, <2>1, <2>2, <2>3
<1>7. ASSUME NEW i \in DOMAIN Items(w), Undo(w, i)
      PROVE  Calm /\ UpdatesKept /\ UNCHANGED cacheVars /\ UNCHANGED storeVars
  <2>1. UNCHANGED cacheVars /\ UNCHANGED storeVars
    BY <1>7, Zenon DEF Undo
  <2>2. Items(w)[i].stage # "inserted"
    BY <1>7 DEF Undo, FirstAt, ItemsAt
  <2>3. \E it : SetItem(w, i, it) \/ Redraw(w, i, it)
    <3>1. PICK old \in Item : old = Items(w)[i]
      BY ItemsTyped
    <3>2. Redraw(w, i, NewItem(old.in, "pending")) \/ SetStage(w, i, "error")
      BY <1>7, <3>1, UndoEffect
    <3> QED BY <3>2, Zenon DEF SetStage
  <2> QED BY <1>5, <2>1, <2>2, <2>3
<1> QED BY <1>2, <1>3, <1>4, <1>6, <1>7 DEF CreateStep

-----------------------------------------------------------------------------
(* Updates that keep losing.                                               *)

\* What an update knows of its row stays true when the store makes a step.
LEMMA UpdateKept ==
  ASSUME StoreInv, [StoreNext]_storeVars, NEW r \in Update, r.id \in Stored, UpdateOK(r)
  PROVE  UpdateOK(r)'
<1>1. StoreInv' /\ Forward
  BY NextInv, StepMovesForward
<1>2. r.id \in Stored' /\ r.id \in CodeId
  BY <1>1 DEF Forward, Update
<1>3. PICK n \in Nat : n = codes[r.id].version
  BY StoredRowType DEF StoreInv, Row
<1>4. PICK m \in Nat : m = codes'[r.id].version
  <2>1. codes'[r.id] # NoRow /\ codes' \in [CodeId -> Row \cup {NoRow}]
    BY <1>1, <1>2 DEF Stored, StoreInv, TypeOK
  <2> QED BY <1>2, <2>1 DEF Row
<1>5. PICK f \in Nat, t \in Nat, v \in Nat : f = r.first /\ t = r.tries /\ v = r.version
  BY DEF Update
<1>6. LastWriteWinsAttempts \in Nat
  BY Zenon, ServiceAssumption
<1>7. CASE codes'[r.id] = codes[r.id]
  BY <1>2, <1>7 DEF UpdateOK, Live
<1>8. CASE codes'[r.id] # codes[r.id]
  <2>1. m = n + 1
    BY <1>1, <1>3, <1>4, <1>8 DEF Forward
  <2> QED BY <1>3, <1>4, <1>5, <1>6, <2>1 DEF UpdateOK
<1> QED BY <1>7, <1>8

\* A step that alters no update.
LEMMA UpdatesStay ==
  ASSUME CreationInv, UpdateInv, [StoreNext]_storeVars,
         NEW x \in Worker, req'[x] = req[x], req[x].op = "update"
  PROVE  UpdateOK(req[x])'
<1>1. PICK r : r = req[x]
  OBVIOUS
<1>2. r \in Update /\ r.id \in Stored /\ UpdateOK(r)
  BY <1>1, Kinds DEF CreationInv, ReqInv, UpdateInv
<1>3. UpdateOK(r)' /\ r = req'[x]
  BY <1>1, <1>2, UpdateKept DEF CreationInv
<1> QED BY <1>3 DEF UpdateOK

\* A request whose knowledge of the row is true, the others as they were.
LEMMA UpdateMoves ==
  ASSUME CreationInv, UpdateInv, [StoreNext]_storeVars,
         NEW w \in Worker, NEW r, Become(w, r), r.op = "update" => UpdateOK(r)'
  PROVE  UpdateInv'
<1>1. req'[w] = r /\ \A x \in Worker \ {w} : req'[x] = req[x]
  BY BecomeReq DEF CreationInv
<1>2. req'[w].op = "update" => UpdateOK(req[w])'
  BY <1>1 DEF UpdateOK
<1> QED BY <1>1, <1>2, UpdatesStay DEF UpdateInv

\* No update is altered.
LEMMA UpdatesKeptInv ==
  ASSUME CreationInv, UpdateInv, [StoreNext]_storeVars, UpdatesKept
  PROVE  UpdateInv'
  BY UpdatesStay DEF UpdateInv, UpdatesKept

\* An update begins with what it read of the row.
LEMMA BeginUpdateKnows ==
  ASSUME CreationInv, UpdateInv, NEW w \in Worker, BeginUpdate(w) \/ ConsolePatch(w)
  PROVE  UpdateInv'
<1>1. ASSUME NEW u \in User, NEW c \in Stored, NEW d, NEW p, NEW v,
             Begin(w, [op |-> "update", pc |-> p, user |-> u, id |-> c, short |-> codes[c].short,
                       dest |-> d, expect |-> v, version |-> codes[c].version,
                       dead |-> c \notin Live, tries |-> 1, first |-> codes[c].version]),
             p \in {"cas", "read"}
      PROVE  UpdateInv'
  <2>1. PICK b \in BOOLEAN : b = (c \notin Live)
    OBVIOUS
  <2>2. PICK n \in Nat : n = codes[c].version
    BY StoredRowType DEF CreationInv, StoreInv, Row
  <2>3. PICK r : r = [op |-> "update", pc |-> p, user |-> u, id |-> c, short |-> codes[c].short,
                      dest |-> d, expect |-> v, version |-> n, dead |-> b, tries |-> 1, first |-> n]
    OBVIOUS
  <2>4. Begin(w, r)
    BY <1>1, <2>1, <2>2, <2>3, Zenon
  <2>5. Become(w, r) /\ UNCHANGED storeVars
    BY <2>4 DEF Begin
  <2>6. codes'[c].version = n /\ Live' = Live
    BY <2>2, <2>5 DEF storeVars, Live, Stored
  <2>7. b \/ c \in Live'
    BY <2>1, <2>6, Zenon
  <2>8. UpdateOK(r)'
    BY <1>1, <2>3, <2>6, <2>7 DEF UpdateOK
  <2> QED BY <2>5, <2>8, UpdateMoves
<1>2. CASE BeginUpdate(w)
  <2>1. "cas" \in {"cas", "read"}
    OBVIOUS
  <2> QED BY <1>1, <1>2, <2>1, Zenon DEF BeginUpdate
<1>3. CASE ConsolePatch(w)
  <2>1. "read" \in {"cas", "read"}
    OBVIOUS
  <2> QED BY <1>1, <1>3, <2>1, Zenon DEF ConsolePatch
<1> QED BY <1>2, <1>3

\* A read brings the update up to date; only an UPDATE that met another version
\* is tried again or given up.
LEMMA UpdateGoesOn ==
  ASSUME CreationInv, UpdateInv, NEW w \in Worker, UpdateRead(w) \/ UpdateCas(w)
  PROVE  UpdateInv'
<1>0. [StoreNext]_storeVars
  BY UpdateReadInv, UpdateCasInv
<1>1. req[w].op = "update"
  BY DEF UpdateRead, UpdateCas
<1>2. PICK q \in Update : q = req[w]
  BY <1>1, Kinds DEF CreationInv, ReqInv
<1>3. q.id \in Stored /\ q.id \in CodeId /\ q.op = "update" /\ UpdateOK(q)
  BY <1>1, <1>2 DEF CreationInv, ReqInv, UpdateInv, Update
<1>4. PICK n \in Nat : n = codes[q.id].version
  BY <1>3, StoredRowType DEF CreationInv, StoreInv, Row
<1>5. CASE Become(w, Idle)
  BY <1>0, <1>5, IdleRequest, UpdateMoves
<1>6. ReturnError(w) \/ Return(w) => Become(w, Idle)
  BY DEF ReturnError, Return
<1>7. PICK f \in Nat, t \in Nat, v \in Nat : f = q.first /\ t = q.tries /\ v = q.version
  BY DEF Update
<1>8. LastWriteWinsAttempts \in Nat
  BY Zenon, ServiceAssumption
<1>9. CASE /\ UNCHANGED storeVars /\ q.pc = "read"
           /\ Become(w, [q EXCEPT !.pc = "cas", !.version = codes[q.id].version,
                                  !.dead = q.id \notin Live])
  <2>1. PICK b \in BOOLEAN : b = (q.id \notin Live)
    OBVIOUS
  <2>2. PICK r : r = [q EXCEPT !.pc = "cas", !.version = n, !.dead = b]
    OBVIOUS
  <2>3. Become(w, r)
    BY <1>4, <1>9, <2>1, <2>2, Zenon
  <2>4. /\ r.pc = "cas" /\ r.version = n /\ r.dead = b /\ r.id = q.id
        /\ r.first = f /\ r.tries = t
    BY <1>7, <2>2 DEF Update
  <2>5. codes'[q.id].version = n /\ Live' = Live
    BY <1>4, <1>9 DEF storeVars, Live, Stored
  <2>6. f + t <= n + 1
    BY <1>3, <1>4, <1>7, <1>9 DEF UpdateOK
  <2>7. b \/ q.id \in Live'
    BY <2>1, <2>5, Zenon
  <2>8. UpdateOK(r)'
    BY <2>4, <2>5, <2>6, <2>7 DEF UpdateOK
  <2> QED BY <1>0, <2>3, <2>8, UpdateMoves
<1>10. CASE Become(w, [q EXCEPT !.pc = "inval"])
  <2>1. PICK r : r = [q EXCEPT !.pc = "inval"]
    OBVIOUS
  <2>2. r.pc = "inval"
    BY <2>1 DEF Update
  <2>3. UpdateOK(r)'
    BY <2>2 DEF UpdateOK
  <2> QED BY <1>0, <1>10, <2>1, <2>3, UpdateMoves
<1>11. ASSUME q.pc = "cas", UNCHANGED storeVars, ~(q.expect > 0), ~q.dead,
              UpdateResult(q.id, q.user, v) = "conflict",
              \/ Retries(q) /\ Become(w, [q EXCEPT !.pc = "read", !.tries = q.tries + 1])
              \/ ~Retries(q) /\ Become(w, [q EXCEPT !.pc = "lost"])
       PROVE  UpdateInv'
  <2>1. q.expect = 0
    BY <1>11 DEF Update
  <2>2. n # v \/ q.id \notin Live
    BY <1>4, <1>11 DEF UpdateResult
  <2>3. f + t <= v + 1 /\ v <= n /\ v # n
    BY <1>3, <1>4, <1>7, <1>11, <2>2 DEF UpdateOK
  <2>4. codes'[q.id].version = n
    BY <1>4, <1>11 DEF storeVars
  <2>5. CASE Retries(q) /\ Become(w, [q EXCEPT !.pc = "read", !.tries = q.tries + 1])
    <3>1. PICK r : r = [q EXCEPT !.pc = "read", !.tries = t + 1]
      OBVIOUS
    <3>2. Become(w, r)
      BY <1>7, <2>5, <3>1, Zenon
    <3>3. r.pc = "read" /\ r.tries = t + 1 /\ r.first = f /\ r.id = q.id
      BY <1>7, <3>1 DEF Update
    <3>4. UpdateOK(r)'
      BY <2>3, <2>4, <3>3 DEF UpdateOK
    <3> QED BY <1>0, <3>2, <3>4, UpdateMoves
  <2>6. CASE ~Retries(q) /\ Become(w, [q EXCEPT !.pc = "lost"])
    <3>1. PICK r : r = [q EXCEPT !.pc = "lost"]
      OBVIOUS
    <3>2. r.pc = "lost" /\ r.first = f /\ r.id = q.id
      BY <1>7, <3>1 DEF Update
    <3>3. t >= LastWriteWinsAttempts
      BY <1>7, <1>8, <1>11, <2>1, <2>6 DEF Retries
    <3>4. UpdateOK(r)'
      BY <1>8, <2>3, <2>4, <3>2, <3>3 DEF UpdateOK
    <3> QED BY <1>0, <2>6, <3>1, <3>4, UpdateMoves
  <2> QED BY <1>11, <2>5, <2>6
<1>12. CASE UpdateRead(w)
  BY <1>2, <1>5, <1>6, <1>9, <1>12, Zenon DEF UpdateRead
<1>13. CASE UpdateCas(w)
  <2>1. CASE CallWorks(w) /\ Become(w, [q EXCEPT !.pc = "inval"])
    BY <1>10, <2>1
  <2>2. CASE ReturnError(w)
    BY <1>5, <1>6, <2>2
  <2>3. CASE /\ q.pc = "cas" /\ UNCHANGED storeVars
             /\ UpdateResult(q.id, q.user, IF q.expect > 0 THEN q.expect ELSE q.version) = "conflict"
             /\ CASE q.expect > 0 \/ q.dead -> Return(w)
                  [] Retries(q) ->
                       Become(w, [q EXCEPT !.pc = "read", !.tries = q.tries + 1]) /\ UNCHANGED gone
                  [] OTHER -> Become(w, [q EXCEPT !.pc = "lost"]) /\ UNCHANGED gone
    <3>1. CASE q.expect > 0 \/ q.dead
      <4>1. ~Retries(q)
        BY <3>1 DEF Retries, Update
      <4>2. Return(w)
        BY <2>3, <3>1, <4>1, Zenon
      <4> QED BY <1>5, <1>6, <4>2
    <3>2. CASE ~(q.expect > 0) /\ ~q.dead
      <4>1. UpdateResult(q.id, q.user, v) = "conflict"
        BY <1>7, <2>3, <3>2, Zenon
      <4>2. \/ Retries(q) /\ Become(w, [q EXCEPT !.pc = "read", !.tries = q.tries + 1])
            \/ ~Retries(q) /\ Become(w, [q EXCEPT !.pc = "lost"])
        BY <2>3, <3>2, Zenon
      <4> QED BY <1>11, <2>3, <3>2, <4>1, <4>2
    <3> QED BY <3>1, <3>2
  <2> QED BY <1>2, <1>13, <2>1, <2>2, <2>3, Zenon DEF UpdateCas
<1> QED BY <1>12, <1>13

\* A request begins: nobody else notices.
LEMMA BeginCalm ==
  ASSUME ReqInv, NEW w \in Worker, NEW r, Begin(w, r), ~(r.op = "scan" /\ r.pc = "fill")
  PROVE  /\ Calm /\ (r.op # "update" => UpdatesKept)
         /\ UNCHANGED cacheVars /\ UNCHANGED storeVars
<1>1. req[w] = Idle /\ Become(w, r) /\ UNCHANGED cacheVars /\ UNCHANGED storeVars
  BY DEF Begin
<1>2. req'[w] = r /\ StepOf(w)
  BY <1>1, BecomeReq DEF StepOf
<1>3. \A s \in ShortCode : w \notin Unsettled(s)
  BY <1>1, NoneInserted, OwesNothing, IdleRequest
<1> QED BY <1>1, <1>2, <1>3, StepCalm

\* A request that owes nothing returns.
LEMMA ReturnCalm ==
  ASSUME ReqInv, NEW w \in Worker, Become(w, Idle), req[w].op \notin CreationOps,
         req[w].op \in {"update", "state", "delete"} => req[w].pc \notin {"reget", "inval"}
  PROVE  Calm /\ UpdatesKept
<1>1. req'[w] = Idle /\ StepOf(w)
  BY BecomeReq DEF StepOf
<1>2. \A s \in ShortCode : w \notin Unsettled(s)
  BY NoneInserted, OwesNothing
<1> QED BY <1>1, <1>2, StepCalm, IdleRequest

\* Only an update's own steps make an update of a request.
LEMMA OthersKeepUpdates ==
  ASSUME CreationInv, NEW w \in Worker,
         CreateStep(w) \/ ChangeStep(w) \/ ScanStep(w) \/ UpdateInvalidate(w) \/ UpdateLost(w)
  PROVE  UpdatesKept
<1> USE DEF CreationInv
<1>0. ASSUME NEW r, Become(w, r), r.op # "update" PROVE UpdatesKept
  BY <1>0, BecomeReq DEF UpdatesKept
<1>i. Return(w) \/ ReturnError(w) => UpdatesKept
  BY <1>0, IdleRequest DEF Return, ReturnError
<1>1. CASE CreateStep(w)
  <2>1. CASE Insert(w)
    <3>1. Forward /\ DOMAIN Items(w) # {}
      BY <2>1, InsertInv, StepMovesForward DEF Insert, ItemsAt
    <3>2. ASSUME NEW s \in ItemStage, NEW e \in {"none", "alias_taken", "client_ref_taken", "failed"},
                 MoveReady(w, s, e)
          PROVE  UpdatesKept
      <4>1. req'[w].op = req[w].op /\ \A x \in Worker \ {w} : req'[x] = req[x]
        BY <3>1, <3>2, MoveReadyReq
      <4>2. req[w].op \in CreationOps
        BY <3>1, ItemsTyped
      <4> QED BY <4>1, <4>2 DEF UpdatesKept, CreationOps
    <3>3. \A e \in InsertErrors(Rows(w)) : e \in {"none", "alias_taken", "client_ref_taken", "failed"}
      BY DEF InsertErrors
    <3>4. "failed" \in {"none", "alias_taken", "client_ref_taken", "failed"}
          /\ "none" \in {"none", "alias_taken", "client_ref_taken", "failed"}
      OBVIOUS
    <3>5. "inserted" \in ItemStage /\ "undo" \in ItemStage
      BY DEF ItemStage
    <3> QED BY <2>1, <3>2, <3>3, <3>4, <3>5, Zenon DEF Insert
  <2>2. ASSUME NEW i \in DOMAIN Items(w), Confirm(w, i) PROVE UpdatesKept
    <3>1. \E it : SetItem(w, i, it)
      BY <2>2, Zenon DEF Confirm, SetStage
    <3> QED BY <3>1, SetItemIsStep, ItemStepOthers
  <2> QED BY <1>1, <2>1, <2>2, CreateCalm
<1>2. CASE ChangeStep(w)
  <2>1. ASSUME NEW q \in Change, NEW r, Become(w, r), r.op = q.op PROVE UpdatesKept
    BY <1>0, <2>1 DEF Change
  <2>2. CASE BeginSetState(w) \/ BeginDelete(w)
    <3>1. \E r : Begin(w, r) /\ r.op # "update"
      <4>1. CASE BeginSetState(w)
        <5>1. PICK u \in User, c \in Stored, st \in {"active", "disabled"} :
                Begin(w, [op |-> "state", pc |-> "write", user |-> u, id |-> c,
                          short |-> codes[c].short, to |-> st])
          BY <4>1 DEF BeginSetState
        <5> QED BY <5>1
      <4>2. CASE BeginDelete(w)
        <5>1. PICK u \in User, c \in Stored :
                Begin(w, [op |-> "delete", pc |-> "write", user |-> u, id |-> c,
                          short |-> codes[c].short, to |-> "deleted"])
          BY <4>2 DEF BeginDelete
        <5> QED BY <5>1
      <4> QED BY <2>2, <4>1, <4>2
    <3> QED BY <1>0, <3>1 DEF Begin
  <2>3. CASE ChangeInvalidate(w)
    BY <1>i, <2>3 DEF ChangeInvalidate
  <2>4. CASE SetStateWrite(w) \/ SetStateReget(w) \/ DeleteWrite(w)
    <3>1. req[w].op \in {"state", "delete"}
      BY <2>4 DEF SetStateWrite, SetStateReget, DeleteWrite
    <3>2. PICK q \in Change : q = req[w]
      BY <3>1, Kinds DEF ReqInv
    <3>3. \/ ReturnError(w) \/ Return(w)
          \/ Become(w, [q EXCEPT !.pc = "reget"])
          \/ Become(w, [q EXCEPT !.pc = "inval"])
          \/ Become(w, [q EXCEPT !.pc = "inval", !.short = codes[q.id].short])
      BY <2>4, <3>2, Zenon DEF SetStateWrite, SetStateReget, DeleteWrite
    <3>4. /\ [q EXCEPT !.pc = "reget"].op = q.op
          /\ [q EXCEPT !.pc = "inval"].op = q.op
          /\ \A s : [q EXCEPT !.pc = "inval", !.short = s].op = q.op
      BY DEF Change
    <3> QED BY <1>i, <2>1, <3>3, <3>4, Zenon
  <2> QED BY <1>2, <2>2, <2>3, <2>4 DEF ChangeStep
<1>3. CASE ScanStep(w)
  <2>1. CASE ScanHit(w)
    BY <2>1 DEF ScanHit, UpdatesKept
  <2>2. CASE ScanMiss(w)
    <3>1. PICK s \in ShortCode : Begin(w, [op |-> "scan", pc |-> "lookup", short |-> s, res |-> NotFound])
      BY <2>2 DEF ScanMiss
    <3> QED BY <1>0, <3>1 DEF Begin
  <2>3. CASE ScanLookup(w)
    <3>1. PICK q \in Scan : q = req[w]
      BY <2>3, Kinds DEF ReqInv, ScanLookup
    <3>2. ReturnError(w) \/ Become(w, [q EXCEPT !.pc = "fill", !.res = Lookup(q.short)])
      BY <2>3, <3>1, Zenon DEF ScanLookup
    <3>3. \A l : [q EXCEPT !.pc = "fill", !.res = l].op # "update"
      BY DEF Scan
    <3> QED BY <1>0, <1>i, <3>2, <3>3, Zenon
  <2>4. CASE ScanFill(w)
    BY <1>i, <2>4 DEF ScanFill
  <2> QED BY <1>3, <2>1, <2>2, <2>3, <2>4 DEF ScanStep
<1>4. CASE UpdateInvalidate(w) \/ UpdateLost(w)
  BY <1>i, <1>4 DEF UpdateInvalidate, UpdateLost
<1> QED BY <1>1, <1>2, <1>3, <1>4

\* Every step keeps UpdateInv.
LEMMA NextUpdateInv ==
  ASSUME CreationInv, UpdateInv, [ServiceNext]_serviceVars
  PROVE  UpdateInv'
<1>1. [StoreNext]_storeVars
  BY NextCreationInv
<1>2. ASSUME NEW w \in Worker, CreateStep(w) \/ UpdateStep(w) \/ ChangeStep(w) \/ ScanStep(w)
      PROVE  UpdateInv'
  BY <1>1, <1>2, BeginUpdateKnows, UpdateGoesOn, OthersKeepUpdates, UpdatesKeptInv DEF UpdateStep
<1>3. CASE (\E w \in Worker : HangUp(w)) \/ AdminRelease \/ Tick \/ Evict \/ UNCHANGED serviceVars
  <2>1. UNCHANGED req
    BY <1>3 DEF HangUp, AdminRelease, Tick, Evict, serviceVars
  <2> QED BY <1>1, <2>1, UpdatesKeptInv DEF UpdatesKept
<1>4. CASE Crash
  <2>1. \A x \in Worker : req'[x] = Idle
    BY <1>4 DEF Crash
  <2>2. UpdatesKept
    BY <2>1 DEF UpdatesKept, Idle
  <2> QED BY <1>1, <2>2, UpdatesKeptInv
<1> QED BY <1>2, <1>3, <1>4 DEF ServiceNext

-----------------------------------------------------------------------------
(* What a scanner sees.                                                    *)

\* A short code whose rows are untouched resolves as before.
LEMMA SameLookup ==
  ASSUME NEW s, Resolvable(s)' = Resolvable(s),
         \A c \in Resolvable(s) : codes'[c] = codes[c]
  PROVE  Lookup(s)' = Lookup(s)
<1>1. (Resolvable(s) \cap Live)' = Resolvable(s) \cap Live
  BY DEF Live, Resolvable
<1>2. GetCodeByShortCode(s)' = GetCodeByShortCode(s)
  BY <1>1 DEF GetCodeByShortCode
<1>3. GetCodeByShortCode(s) \in Resolvable(s) \cup {NoRow}
  BY DEF GetCodeByShortCode
<1> QED BY <1>2, <1>3 DEF Lookup

\* A transaction on one row changes what its own short code resolves to only.
LEMMA RowStepLookup ==
  ASSUME StoreInv, NEW c \in Stored, NEW u \in User,
         \/ \E d \in Dest, v \in Nat : UpdateDestination(c, u, d, v)
         \/ \E st \in State : SetCodeState(c, u, st)
         \/ DeleteCode(c, u),
         NEW s \in ShortCode, s # codes[c].short
  PROVE  Lookup(s)' = Lookup(s)
<1>1. ASSUME NEW d \in Dest, NEW st \in State, c \in Live, UNCHANGED reservations,
             codes' = [codes EXCEPT ![c] = Amended(codes[c], d, st)]
      PROVE  Lookup(s)' = Lookup(s)
  <2>1. Resolvable(s)' = Resolvable(s)
    BY <1>1, AmendKeepsResolvable
  <2>2. \A x \in Resolvable(s) : codes'[x] = codes[x]
    BY <1>1, AmendEffect DEF Resolvable
  <2> QED BY <2>1, <2>2, SameLookup
<1>2. codes[c].dest \in Dest /\ codes[c].state \in State
  BY StoredRowType DEF StoreInv, Row
<1>3. ASSUME NEW d \in Dest, NEW v \in Nat, UpdateDestination(c, u, d, v)
      PROVE  Lookup(s)' = Lookup(s)
  BY <1>1, <1>2, <1>3, UpdateOk DEF UpdateDestination
<1>4. ASSUME NEW st \in State, SetCodeState(c, u, st)
      PROVE  Lookup(s)' = Lookup(s)
  BY <1>1, <1>2, <1>4, SetStateOk DEF SetCodeState
<1>5. ASSUME DeleteCode(c, u)
      PROVE  Lookup(s)' = Lookup(s)
  <2>1. CASE c \in Live
    BY <1>1, <1>2, <1>5, <2>1 DEF DeleteCode, State
  <2>2. CASE c \notin Live
    <3>1. codes' = codes /\ reservations' = reservations
      BY <1>5, <2>2 DEF DeleteCode
    <3> QED BY <3>1, SameLookup DEF Resolvable, Stored, Reserved
  <2> QED BY <2>1, <2>2
<1> QED BY <1>3, <1>4, <1>5

\* New rows change what their own short codes resolve to only.
LEMMA CreateLookup ==
  ASSUME StoreInv, NEW S \in BatchIds, NEW rows \in [S -> NewRow], CreateCodes(rows),
         NEW s \in ShortCode, \A c \in S : rows[c].short # s
  PROVE  Lookup(s)' = Lookup(s)
<1>1. reservations'[s] = reservations[s]
  BY CreateEffect DEF StoreInv
<1>2. /\ Stored' = Stored \cup S
      /\ \A c \in Stored : codes'[c] = codes[c]
      /\ \A c \in S : codes'[c] = StoredRow(rows[c])
  BY CreateEffect DEF StoreInv
<1>3. \A c \in S : codes'[c].short # s
  <2>1. \A c \in S : StoredRow(rows[c]).short = rows[c].short
    BY DEF StoredRow
  <2> QED BY <1>2, <2>1
<1>4. Reserved(s)' = Reserved(s)
  BY <1>1 DEF Reserved
<1>5. Resolvable(s)' = Resolvable(s)
  BY <1>1, <1>2, <1>3, <1>4 DEF Resolvable
<1> QED BY <1>2, <1>5, SameLookup DEF Resolvable

\* An admin release turns a deleted code's landing page into that of an unknown
\* short code, which is the same one.
LEMMA ReleaseLookup ==
  ASSUME StoreInv, NEW s \in ShortCode, ReleaseAlias(s), NEW t \in ShortCode
  PROVE  Seen(Lookup(t))' = Seen(Lookup(t))
<1>1. Reserved(s) /\ \A c \in Live : codes[c].short # s
  BY ReleaseOk DEF ReleaseAlias
<1>2. codes' = codes /\ reservations' = [reservations EXCEPT ![s].released = TRUE]
  BY DEF ReleaseAlias
<1>3. CASE Resolvable(t)' = Resolvable(t)
  BY <1>2, <1>3, SameLookup DEF Seen
<1>4. CASE Resolvable(t)' # Resolvable(t)
  <2>1. Resolvable(t)' = {}
    BY <1>4, ReleaseEmpties
  <2>2. t = s
    <3> SUFFICES ASSUME t # s PROVE FALSE
      OBVIOUS
    <3>1. reservations'[t] = reservations[t]
      BY <1>2 DEF StoreInv, TypeOK
    <3> QED BY <1>2, <1>4, <3>1 DEF Resolvable, Reserved, Stored
  <2>3. Lookup(t)' = NotFound
    BY <2>1 DEF Lookup, GetCodeByShortCode
  <2>4. Resolvable(t) \cap Live = {}
    BY <1>1, <2>2 DEF Resolvable
  <2>5. Lookup(t) = NotFound \/ Lookup(t).state = "deleted"
    <3>1. GetCodeByShortCode(t) \in Resolvable(t) \cup {NoRow}
      BY DEF GetCodeByShortCode
    <3>2. \A c \in Resolvable(t) : codes[c].state = "deleted"
      BY <2>4 DEF Resolvable, Live
    <3> QED BY <3>1, <3>2 DEF Lookup
  <2> QED BY <2>3, <2>5 DEF Seen
<1> QED BY <1>3, <1>4

\* What a step may do to the store: a short code that is seen differently has a
\* request that owes its invalidation.
LookupKept == \A s \in ShortCode : Seen(Lookup(s))' = Seen(Lookup(s)) \/ Unsettled(s)' # {}

\* The store is left alone.
LEMMA LookupStays == ASSUME UNCHANGED storeVars PROVE \A s : Lookup(s)' = Lookup(s)
<1>1. codes' = codes /\ reservations' = reservations
  BY DEF storeVars
<1> QED BY <1>1, SameLookup DEF Resolvable, Stored, Reserved

\* The cache is left alone, and scans that have read the store are the same or
\* know what it says.
LEMMA FreshKept ==
  ASSUME ReqInv, ReqInv', FreshInv, UNCHANGED cacheVars, LookupKept, MutatorsKept,
         \A x \in Worker : req'[x].op = "scan" /\ req'[x].pc = "fill" =>
                             req'[x] = req[x] \/ FillFresh(x)'
  PROVE  FreshInv'
<1>1. cache' = cache /\ overtaken' = overtaken /\ late' = late
  BY DEF cacheVars
<1>2. \A s \in ShortCode : Unsettled(s) # {} => Unsettled(s)' # {}
  BY DEF MutatorsKept
<1>3. ASSUME NEW s \in ShortCode, Stale(s)' PROVE s \in late' \/ Unsettled(s)' # {}
  <2>1. CASE Unsettled(s)' # {}
    BY <2>1
  <2>2. CASE Unsettled(s)' = {}
    <3>1. Seen(Lookup(s))' = Seen(Lookup(s)) /\ Unsettled(s) = {}
      BY <1>2, <2>2 DEF LookupKept
    <3>2. Stale(s)
      BY <1>1, <1>3, <3>1 DEF Stale, Cached, Seen
    <3> QED BY <1>1, <3>1, <3>2 DEF FreshInv, StaleHasCause
  <2> QED BY <2>1, <2>2
<1>4. ASSUME NEW x \in Worker, req'[x].op = "scan", req'[x].pc = "fill", req'[x] = req[x]
      PROVE  FillFresh(x)'
  <2>1. PICK s \in ShortCode : s = req[x].short
    BY <1>4, Kinds DEF ReqInv, Scan
  <2>2. CASE Unsettled(s)' # {}
    <3>1. s = req'[x].short
      BY <1>4, <2>1
    <3> QED BY <2>2, <3>1 DEF FillFresh, Unsettled
  <2>3. CASE Unsettled(s)' = {}
    <3>1. Seen(Lookup(s))' = Seen(Lookup(s)) /\ Unsettled(s) = {}
      BY <1>2, <2>3 DEF LookupKept
    <3>2. Seen(req[x].res) = Seen(Lookup(s)) \/ x \in overtaken
      BY <1>4, <2>1, <3>1 DEF FreshInv, FillFresh
    <3>3. PICK r : r = req[x]
      OBVIOUS
    <3>4. Seen(r.res) = Seen(Lookup(s))' \/ x \in overtaken'
      BY <1>1, <3>1, <3>2, <3>3
    <3>5. req'[x] = r /\ r.short = s
      BY <1>4, <2>1, <3>3
    <3> QED BY <3>4, <3>5 DEF FillFresh, Seen
  <2> QED BY <2>2, <2>3
<1> QED BY <1>3, <1>4 DEF FreshInv, StaleHasCause

\* Neither the store nor the cache changes.
LEMMA FreshStays ==
  ASSUME ReqInv, ReqInv', FreshInv, Calm, UNCHANGED cacheVars, UNCHANGED storeVars
  PROVE  FreshInv'
<1>1. LookupKept
  <2>1. \A s : Lookup(s)' = Lookup(s)
    BY LookupStays
  <2> QED BY <2>1 DEF LookupKept, Seen
<1> QED BY <1>1, FreshKept DEF Calm, FillsKept

\* A mutation of s ends: its entry is dropped, or marked late with the scans
\* that have read the store before.
LEMMA FreshSettled ==
  ASSUME ReqInv, ReqInv', CacheTypeOK, FreshInv, UNCHANGED storeVars, FillsKept,
         NEW s \in ShortCode, InvalidateFor(s) \/ SkipInvalidate(s),
         \A t \in ShortCode \ {s} : Unsettled(t) \subseteq Unsettled(t)'
  PROVE  FreshInv'
<1>1. \A t : Lookup(t)' = Lookup(t)
  BY LookupStays
<1>2. \A t \in ShortCode \ {s} : /\ cache'[t] = cache[t]
                                 /\ t \in late => t \in late'
  BY DEF InvalidateFor, SkipInvalidate, Invalidate, CacheTypeOK
<1>3. cache'[s] = Absent \/ (cache'[s] = cache[s] /\ (Cached(s) => s \in late'))
  BY DEF InvalidateFor, SkipInvalidate, Invalidate, CacheTypeOK
<1>4. overtaken' = overtaken \cup Filling(s)
  BY DEF InvalidateFor, SkipInvalidate
<1>5. ASSUME NEW t \in ShortCode, Stale(t)' PROVE t \in late' \/ Unsettled(t)' # {}
  <2>1. CASE t = s
    BY <1>3, <1>5, <2>1 DEF Stale, Cached
  <2>2. CASE t # s
    <3>1. Stale(t)
      BY <1>1, <1>2, <1>5, <2>2 DEF Stale, Cached, Seen
    <3>2. t \in late \/ Unsettled(t) # {}
      BY <3>1 DEF FreshInv, StaleHasCause
    <3> QED BY <1>2, <2>2, <3>2
  <2> QED BY <2>1, <2>2
<1>6. ASSUME NEW x \in Worker, req'[x].op = "scan", req'[x].pc = "fill"
      PROVE  FillFresh(x)'
  <2>1. PICK r : r = req[x]
    OBVIOUS
  <2>2. req'[x] = r
    BY <1>6, <2>1 DEF FillsKept
  <2>3. r.op = "scan" /\ r.pc = "fill" /\ r.short \in ShortCode
    BY <1>6, <2>1, <2>2, Kinds DEF ReqInv, Scan
  <2>4. CASE r.short = s
    <3>1. x \in Filling(s)
      BY <2>1, <2>3, <2>4 DEF Filling
    <3> QED BY <1>4, <3>1 DEF FillFresh
  <2>5. CASE r.short # s
    <3>1. Seen(r.res) = Seen(Lookup(r.short)) \/ x \in overtaken \/ Unsettled(r.short) # {}
      BY <2>1, <2>3 DEF FreshInv, FillFresh
    <3>2. Seen(r.res) = Seen(Lookup(r.short))' \/ x \in overtaken' \/ Unsettled(r.short)' # {}
      <4>1. Seen(Lookup(r.short))' = Seen(Lookup(r.short))
        BY <1>1 DEF Seen
      <4> QED BY <1>4, <2>3, <2>5, <3>1, <4>1
    <3> QED BY <2>2, <3>2 DEF FillFresh, Seen, Unsettled
  <2> QED BY <2>4, <2>5
<1> QED BY <1>5, <1>6 DEF FreshInv, StaleHasCause

\* The requests that owe an invalidation and are not w.
LEMMA OthersOwe ==
  ASSUME NEW w \in Worker, StepOf(w), NEW s, NEW x \in Unsettled(s), x # w
  PROVE  x \in Unsettled(s)'
<1>1. x \in Worker /\ req'[x] = req[x] /\ Items(x)' = Items(x)
  BY DEF Unsettled, StepOf
<1> QED BY <1>1 DEF Unsettled, ItemsAt

\* A creation's transaction: it owes the invalidation of each short code it took.
LEMMA InsertFresh ==
  ASSUME CreationInv, CreationInv', FreshInv, NEW w \in Worker, Insert(w)
  PROVE  FreshInv'
<1> USE DEF CreationInv
<1>0. UNCHANGED cacheVars /\ ItemsAt(w, {"ready"}) # {} /\ ItemsAt(w, ItemStage \ (Done \cup {"ready"})) = {}
  BY DEF Insert
<1>1. Forward /\ DOMAIN Items(w) # {} /\ req[w].op \in CreationOps
  BY <1>0, InsertInv, StepMovesForward, ItemsTyped DEF ItemsAt
<1>2. ASSUME NEW s \in ItemStage, NEW e \in {"none", "alias_taken", "client_ref_taken", "failed"},
             MoveReady(w, s, e)
      PROVE  /\ Calm
             /\ Items(w)' = [i \in DOMAIN Items(w) |-> MovedTo(Items(w)[i], s)]
  <2>1. /\ req'[w].op = req[w].op /\ \A x \in Worker \ {w} : req'[x] = req[x] /\ Items(x)' = Items(x)
        /\ Items(w)' = [i \in DOMAIN Items(w) |-> MovedTo(Items(w)[i], s)]
    BY <1>1, <1>2, MoveReadyReq
  <2>2. ItemsAt(w, {"inserted"}) = {}
    BY <1>0 DEF ItemsAt, ItemStage, Done
  <2>3. \A t \in ShortCode : w \notin Unsettled(t)
    BY <1>1, <2>2, OwesNothing DEF CreationOps
  <2> QED BY <1>1, <2>1, <2>3, StepCalm DEF StepOf, CreationOps
<1>3. "inserted" \in ItemStage /\ "undo" \in ItemStage
  BY DEF ItemStage
<1>4. /\ "failed" \in {"none", "alias_taken", "client_ref_taken", "failed"}
      /\ "none" \in {"none", "alias_taken", "client_ref_taken", "failed"}
  OBVIOUS
<1>5. \A e \in InsertErrors(Rows(w)) : e \in {"none", "alias_taken", "client_ref_taken", "failed"}
  BY DEF InsertErrors
<1>6. ASSUME UNCHANGED storeVars,
             NEW e \in {"none", "alias_taken", "client_ref_taken", "failed"}, MoveReady(w, "undo", e)
      PROVE  FreshInv'
  BY <1>0, <1>2, <1>3, <1>6, FreshStays
<1>7. CASE CreateCodes(Rows(w)) /\ MoveReady(w, "inserted", "none")
  <2>1. PICK S \in BatchIds : S = DOMAIN Rows(w)
    BY <1>0, RowsTyped
  <2>2. PICK rows \in [S -> NewRow] : rows = Rows(w)
    BY <1>0, <2>1, RowsTyped
  <2>3. /\ CreateCodes(rows)
        /\ S = {Items(w)[i].id : i \in ItemsAt(w, {"ready"})}
        /\ \A i \in ItemsAt(w, {"ready"}) : rows[Items(w)[i].id] = RowOf(Items(w)[i], req[w].user)
    BY <1>0, <1>7, <2>1, <2>2, RowsTyped, Zenon
  <2>4. Calm /\ Items(w)' = [i \in DOMAIN Items(w) |-> MovedTo(Items(w)[i], "inserted")]
    BY <1>2, <1>3, <1>4, <1>7
  <2>5. ASSUME NEW s \in ShortCode, NEW c \in S, rows[c].short = s
        PROVE  Unsettled(s)' # {}
    <3>1. PICK i \in ItemsAt(w, {"ready"}) : c = Items(w)[i].id
      BY <2>3, <2>5
    <3>2. PICK o \in Item : o = Items(w)[i]
      BY <3>1, ItemsTyped DEF ItemsAt
    <3>3. o.short = s /\ o.stage = "ready" /\ i \in DOMAIN Items(w)
      <4>1. rows[c] = RowOf(o, req[w].user)
        BY <2>3, <3>1, <3>2
      <4>2. RowOf(o, req[w].user).short = o.short
        BY DEF RowOf
      <4> QED BY <2>5, <3>1, <3>2, <4>1, <4>2 DEF ItemsAt
    <3>4. PICK it : it = [o EXCEPT !.stage = "inserted"]
      OBVIOUS
    <3>5. it.stage = "inserted" /\ it.short = s
      BY <1>3, <3>3, <3>4, Staged
    <3>6. i \in DOMAIN Items(w)' /\ Items(w)'[i] = it
      BY <2>4, <3>2, <3>3, <3>4 DEF MovedTo
    <3>7. i \in ItemsAt(w, {"inserted"})'
      BY <3>5, <3>6 DEF ItemsAt
    <3>8. w \in Unsettled(s)'
      BY <3>5, <3>6, <3>7 DEF Unsettled
    <3> QED BY <3>8
  <2>6. LookupKept
    <3> SUFFICES ASSUME NEW s \in ShortCode
                 PROVE  Seen(Lookup(s))' = Seen(Lookup(s)) \/ Unsettled(s)' # {}
      BY DEF LookupKept
    <3>1. CASE \E c \in S : rows[c].short = s
      BY <2>5, <3>1
    <3>2. CASE \A c \in S : rows[c].short # s
      <4>1. Lookup(s)' = Lookup(s)
        BY <2>3, <3>2, CreateLookup
      <4> QED BY <4>1 DEF Seen
    <3> QED BY <3>1, <3>2
  <2> QED BY <1>0, <2>4, <2>6, FreshKept DEF Calm, FillsKept
<1> QED BY <1>4, <1>5, <1>6, <1>7, Zenon DEF Insert

\* The invalidation of a row just created.
LEMMA ConfirmFresh ==
  ASSUME CreationInv, CreationInv', FreshInv, NEW w \in Worker, NEW i \in DOMAIN Items(w), Confirm(w, i)
  PROVE  FreshInv'
<1> USE DEF CreationInv
<1>1. PICK old \in Item : old = Items(w)[i]
  BY ItemsTyped
<1>2. /\ old.stage = "inserted" /\ UNCHANGED storeVars /\ InvalidateFor(old.short)
      /\ SetItem(w, i, [old EXCEPT !.stage = "created"])
  BY <1>1 DEF Confirm, FirstAt, ItemsAt, SetStage
<1>3. old.short \in ShortCode
  <2>1. old.id \in Stored /\ old.short = codes[old.id].short
    BY <1>1, <1>2 DEF ItemsInv, ItemOK, NamedStage
  <2> QED BY <2>1, StoredRowType DEF StoreInv, Row
<1>4. PICK it : it = [old EXCEPT !.stage = "created"]
  OBVIOUS
<1>5. ItemStep(w, i, it)
  BY <1>2, <1>4, SetItemIsStep
<1>6. FillsKept
  BY <1>5, ItemStepOthers
<1>7. \A t \in ShortCode \ {old.short} : Unsettled(t) \subseteq Unsettled(t)'
  BY <1>1, <1>5, ItemStepCalm
<1> QED BY <1>2, <1>3, <1>6, <1>7, FreshSettled DEF OthersTyped

\* A mutation that owes nothing yet goes on, or returns.
LEMMA MutatorCalm ==
  ASSUME ReqInv, NEW w \in Worker, NEW r, Become(w, r), r.op # "scan",
         req[w].op \in {"update", "state", "delete"}, req[w].pc \notin {"reget", "inval"}
  PROVE  Calm
<1>1. req'[w] = r /\ StepOf(w)
  BY BecomeReq DEF StepOf
<1>2. \A s \in ShortCode : w \notin Unsettled(s)
  BY NoneInserted, OwesNothing DEF CreationOps
<1> QED BY <1>1, <1>2, StepCalm

\* A mutation changes its row: from then on it owes the invalidation.
LEMMA RowStepFresh ==
  ASSUME CreationInv, CreationInv', FreshInv, UNCHANGED cacheVars,
         NEW w \in Worker, NEW c \in Stored, NEW u \in User,
         \/ \E d \in Dest, v \in Nat : UpdateDestination(c, u, d, v)
         \/ \E st \in State : SetCodeState(c, u, st)
         \/ DeleteCode(c, u),
         req[w].op \in {"update", "state", "delete"}, req[w].pc \notin {"reget", "inval"},
         NEW r, Become(w, r), r.op \in {"update", "state", "delete"},
         r.pc \in {"reget", "inval"}, r.short = codes[c].short
  PROVE  FreshInv'
<1> USE DEF CreationInv
<1>1. Calm
  BY MutatorCalm
<1>2. req'[w] = r
  BY BecomeReq
<1>3. w \in Unsettled(r.short)'
  BY <1>2 DEF Unsettled
<1>4. LookupKept
  <2> SUFFICES ASSUME NEW s \in ShortCode
               PROVE  Seen(Lookup(s))' = Seen(Lookup(s)) \/ Unsettled(s)' # {}
    BY DEF LookupKept
  <2>1. CASE s = codes[c].short
    <3>1. w \in Unsettled(s)'
      BY <1>2, <2>1 DEF Unsettled
    <3> QED BY <3>1
  <2>2. CASE s # codes[c].short
    <3>1. Lookup(s)' = Lookup(s)
      BY <2>2, RowStepLookup
    <3> QED BY <3>1 DEF Seen
  <2> QED BY <2>1, <2>2
<1> QED BY <1>1, <1>4, FreshKept DEF Calm, FillsKept

\* A mutation invalidates, or skips that because its re-read failed, and ends.
LEMMA EndFresh ==
  ASSUME CreationInv, CreationInv', FreshInv, UNCHANGED storeVars, NEW w \in Worker,
         req[w].op \in {"update", "state", "delete"}, Become(w, Idle),
         NEW s, s = req[w].short, InvalidateFor(s) \/ SkipInvalidate(s)
  PROVE  FreshInv'
<1> USE DEF CreationInv
<1>1. s \in ShortCode
  BY StoredRowType DEF ReqInv, StoreInv, Row
<1>2. req'[w] = Idle /\ StepOf(w)
  BY BecomeReq DEF StepOf
<1>3. FillsKept
  BY <1>2, IdleRequest DEF FillsKept, StepOf
<1>4. ItemsAt(w, {"inserted"}) = {}
  BY NoneInserted DEF CreationOps
<1>5. \A t \in ShortCode \ {s} : Unsettled(t) \subseteq Unsettled(t)'
  <2> SUFFICES ASSUME NEW t \in ShortCode \ {s}, NEW x \in Unsettled(t) PROVE x \in Unsettled(t)'
    OBVIOUS
  <2>1. x # w
    BY <1>4 DEF Unsettled
  <2> QED BY <1>2, <2>1, OthersOwe
<1> QED BY <1>1, <1>3, <1>5, FreshSettled DEF OthersTyped

\* Every step of an update.
LEMMA UpdateFresh ==
  ASSUME CreationInv, CreationInv', FreshInv, NEW w \in Worker, UpdateStep(w)
  PROVE  FreshInv'
<1> USE DEF CreationInv
<1>1. CASE BeginUpdate(w) \/ ConsolePatch(w)
  <2>1. \E r : Begin(w, r) /\ ~(r.op = "scan" /\ r.pc = "fill")
    <3>1. CASE BeginUpdate(w)
      <4>1. PICK u \in User, c \in Stored, d \in NewDest, v \in IfMatch :
              Begin(w, [op |-> "update", pc |-> "cas", user |-> u, id |-> c, short |-> codes[c].short,
                        dest |-> d, expect |-> v, version |-> codes[c].version,
                        dead |-> c \notin Live, tries |-> 1, first |-> codes[c].version])
        BY <3>1, Zenon DEF BeginUpdate
      <4> QED BY <4>1
    <3>2. CASE ConsolePatch(w)
      <4>1. PICK u \in User, c \in Stored, d \in NewDest :
              Begin(w, [op |-> "update", pc |-> "read", user |-> u, id |-> c, short |-> codes[c].short,
                        dest |-> d, expect |-> codes[c].version, version |-> codes[c].version,
                        dead |-> c \notin Live, tries |-> 1, first |-> codes[c].version])
        BY <3>2, Zenon DEF ConsolePatch
      <4> QED BY <4>1
    <3> QED BY <1>1, <3>1, <3>2
  <2> QED BY <2>1, BeginCalm, FreshStays
<1>2. ASSUME req[w].op = "update", req[w].pc \notin {"reget", "inval"}, UNCHANGED cacheVars,
             UNCHANGED storeVars, NEW r, Become(w, r), r.op # "scan"
      PROVE  FreshInv'
  BY <1>2, MutatorCalm, FreshStays
<1>3. Return(w) \/ ReturnError(w) => Become(w, Idle)
  BY DEF Return, ReturnError
<1>4. Idle.op # "scan"
  BY DEF Idle
<1>5. CASE UpdateInvalidate(w)
  BY <1>3, <1>5, EndFresh DEF UpdateInvalidate
<1>6. CASE UpdateLost(w)
  BY <1>2, <1>3, <1>4, <1>6 DEF UpdateLost
<1>7. ASSUME NEW q \in Update
      PROVE  /\ [q EXCEPT !.pc = "lost"].op # "scan"
             /\ \A n : [q EXCEPT !.pc = "read", !.tries = n].op # "scan"
             /\ \A n, b : [q EXCEPT !.pc = "cas", !.version = n, !.dead = b].op # "scan"
  BY <1>7 DEF Update
<1>8. CASE UpdateRead(w)
  <2>1. req[w].op = "update" /\ req[w].pc = "read" /\ UNCHANGED cacheVars /\ UNCHANGED storeVars
    BY <1>8 DEF UpdateRead
  <2>2. PICK q \in Update : q = req[w]
    BY <2>1, Kinds DEF ReqInv
  <2>3. \/ ReturnError(w)
        \/ Become(w, [q EXCEPT !.pc = "cas", !.version = codes[q.id].version, !.dead = q.id \notin Live])
    BY <1>8, <2>2, Zenon DEF UpdateRead
  <2>4. \E r : Become(w, r) /\ r.op # "scan"
    <3>1. PICK b \in BOOLEAN : b = (q.id \notin Live)
      OBVIOUS
    <3>2. ReturnError(w) \/ Become(w, [q EXCEPT !.pc = "cas", !.version = codes[q.id].version, !.dead = b])
      BY <2>3, <3>1, Zenon
    <3> QED BY <1>3, <1>4, <1>7, <3>2, Zenon
  <2> QED BY <1>2, <2>1, <2>4
<1>9. CASE UpdateCas(w)
  <2>1. req[w].op = "update" /\ req[w].pc = "cas" /\ UNCHANGED cacheVars
    BY <1>9 DEF UpdateCas
  <2>2. PICK q \in Update : q = req[w]
    BY <2>1, Kinds DEF ReqInv
  <2>3. q.id \in Stored /\ q.short = codes[q.id].short /\ q.user \in User /\ q.dest \in Dest
    BY <2>1, <2>2 DEF ReqInv, Update
  <2>4. PICK v \in Nat : v = IF q.expect > 0 THEN q.expect ELSE q.version
    BY DEF Update
  <2>5. CASE UpdateDestination(q.id, q.user, q.dest, v) /\ Become(w, [q EXCEPT !.pc = "inval"])
    <3>1. PICK r : r = [q EXCEPT !.pc = "inval"]
      OBVIOUS
    <3>2. r.op = "update" /\ r.pc = "inval" /\ r.short = codes[q.id].short
      BY <2>3, <3>1 DEF Update
    <3>3. /\ "update" \in {"update", "state", "delete"} /\ "inval" \in {"reget", "inval"}
          /\ "cas" \notin {"reget", "inval"}
      OBVIOUS
    <3>4. \E d \in Dest, vv \in Nat : UpdateDestination(q.id, q.user, d, vv)
      BY <2>3, <2>5
    <3> QED BY <2>1, <2>3, <2>5, <3>1, <3>2, <3>3, <3>4, RowStepFresh
  <2>6. CASE UNCHANGED storeVars /\ \E r : Become(w, r) /\ r.op # "scan"
    BY <1>2, <2>1, <2>6
  <2>7. \/ UpdateDestination(q.id, q.user, q.dest, v) /\ Become(w, [q EXCEPT !.pc = "inval"])
        \/ /\ UNCHANGED storeVars
           /\ \/ ReturnError(w) \/ Return(w)
              \/ Become(w, [q EXCEPT !.pc = "read", !.tries = q.tries + 1])
              \/ Become(w, [q EXCEPT !.pc = "lost"])
    BY <1>9, <2>2, <2>4, Zenon DEF UpdateCas
  <2>8. \/ UpdateDestination(q.id, q.user, q.dest, v) /\ Become(w, [q EXCEPT !.pc = "inval"])
        \/ UNCHANGED storeVars /\ \E r : Become(w, r) /\ r.op # "scan"
    BY <1>3, <1>4, <1>7, <2>7, Zenon
  <2> QED BY <2>5, <2>6, <2>8
<1> QED BY <1>1, <1>5, <1>6, <1>8, <1>9 DEF UpdateStep

\* Every step of a state change or a delete.
LEMMA ChangeFresh ==
  ASSUME CreationInv, CreationInv', FreshInv, NEW w \in Worker, ChangeStep(w)
  PROVE  FreshInv'
<1> USE DEF CreationInv
<1>1. CASE BeginSetState(w) \/ BeginDelete(w)
  <2>1. \E r : Begin(w, r) /\ ~(r.op = "scan" /\ r.pc = "fill")
    <3>1. CASE BeginSetState(w)
      <4>1. PICK u \in User, c \in Stored, st \in {"active", "disabled"} :
              Begin(w, [op |-> "state", pc |-> "write", user |-> u, id |-> c,
                        short |-> codes[c].short, to |-> st])
        BY <3>1 DEF BeginSetState
      <4> QED BY <4>1
    <3>2. CASE BeginDelete(w)
      <4>1. PICK u \in User, c \in Stored :
              Begin(w, [op |-> "delete", pc |-> "write", user |-> u, id |-> c,
                        short |-> codes[c].short, to |-> "deleted"])
        BY <3>2 DEF BeginDelete
      <4> QED BY <4>1
    <3> QED BY <1>1, <3>1, <3>2
  <2> QED BY <2>1, BeginCalm, FreshStays
<1>2. Return(w) \/ ReturnError(w) => Become(w, Idle)
  BY DEF Return, ReturnError
<1>3. ASSUME req[w].op \in {"state", "delete"}, req[w].pc = "write", UNCHANGED cacheVars,
             UNCHANGED storeVars, Become(w, Idle)
      PROVE  FreshInv'
  <2>1. Idle.op # "scan"
    BY DEF Idle
  <2> QED BY <1>3, <2>1, MutatorCalm, FreshStays
<1>4. ASSUME NEW q \in Change, q = req[w], q.pc = "write", UNCHANGED cacheVars,
             (\E st \in State : SetCodeState(q.id, q.user, st)) \/ DeleteCode(q.id, q.user),
             NEW p \in {"reget", "inval"}, Become(w, [q EXCEPT !.pc = p])
      PROVE  FreshInv'
  <2>1. PICK r : r = [q EXCEPT !.pc = p]
    OBVIOUS
  <2>2. q.op \in {"state", "delete"} /\ q.user \in User
    BY DEF Change
  <2>3. q.id \in Stored /\ q.short = codes[q.id].short
    BY <1>4, <2>2 DEF ReqInv
  <2>4. r.op = q.op /\ r.pc = p /\ r.short = q.short
    BY <2>1 DEF Change
  <2> QED BY <1>4, <2>1, <2>2, <2>3, <2>4, RowStepFresh
<1>5. CASE SetStateWrite(w)
  <2>1. req[w].op = "state" /\ req[w].pc = "write" /\ UNCHANGED cacheVars
    BY <1>5 DEF SetStateWrite
  <2>2. PICK q \in Change : q = req[w]
    BY <2>1, Kinds DEF ReqInv
  <2>3. CASE SetCodeState(q.id, q.user, q.to) /\ Become(w, [q EXCEPT !.pc = "reget"])
    <3>1. "reget" \in {"reget", "inval"} /\ q.to \in State
      BY DEF Change
    <3> QED BY <1>4, <2>1, <2>2, <2>3, <3>1
  <2>4. \/ SetCodeState(q.id, q.user, q.to) /\ Become(w, [q EXCEPT !.pc = "reget"])
        \/ UNCHANGED storeVars /\ (Return(w) \/ ReturnError(w))
    BY <1>5, <2>2, Zenon DEF SetStateWrite
  <2> QED BY <1>2, <1>3, <2>1, <2>3, <2>4
<1>6. CASE DeleteWrite(w)
  <2>1. req[w].op = "delete" /\ req[w].pc = "write" /\ UNCHANGED cacheVars
    BY <1>6 DEF DeleteWrite
  <2>2. PICK q \in Change : q = req[w]
    BY <2>1, Kinds DEF ReqInv
  <2>3. CASE DeleteCode(q.id, q.user) /\ Become(w, [q EXCEPT !.pc = "inval"])
    <3>1. "inval" \in {"reget", "inval"}
      OBVIOUS
    <3> QED BY <1>4, <2>1, <2>2, <2>3, <3>1
  <2>4. \/ DeleteCode(q.id, q.user) /\ Become(w, [q EXCEPT !.pc = "inval"])
        \/ UNCHANGED storeVars /\ ReturnError(w)
    BY <1>6, <2>2, Zenon DEF DeleteWrite
  <2> QED BY <1>2, <1>3, <2>1, <2>3, <2>4
<1>7. CASE SetStateReget(w)
  <2>1. req[w].op = "state" /\ req[w].pc = "reget" /\ UNCHANGED storeVars
    BY <1>7 DEF SetStateReget
  <2>2. PICK q \in Change : q = req[w]
    BY <2>1, Kinds DEF ReqInv
  <2>3. CASE ReturnError(w) /\ SkipInvalidate(q.short)
    BY <1>2, <2>1, <2>2, <2>3, EndFresh
  <2>4. CASE UNCHANGED cacheVars /\ Become(w, [q EXCEPT !.pc = "inval", !.short = codes[q.id].short])
    <3>1. q.short = codes[q.id].short
      BY <2>1, <2>2 DEF ReqInv
    <3>2. PICK r : r = [q EXCEPT !.pc = "inval", !.short = codes[q.id].short]
      OBVIOUS
    <3>3. r.op = "state" /\ r.pc = "inval" /\ r.short = q.short
      BY <2>1, <2>2, <3>1, <3>2 DEF Change
    <3>4. req'[w] = r /\ StepOf(w)
      BY <2>4, <3>2, BecomeReq DEF StepOf
    <3>5. FillsKept
      BY <3>3, <3>4 DEF FillsKept, StepOf
    <3>6. ASSUME NEW s \in ShortCode, NEW x \in Unsettled(s) PROVE x \in Unsettled(s)'
      <4>1. CASE x # w
        BY <3>4, <3>6, <4>1, OthersOwe
      <4>2. CASE x = w
        <5>1. ItemsAt(w, {"inserted"}) = {}
          BY <2>1, NoneInserted DEF CreationOps
        <5>2. s = q.short
          BY <2>2, <3>6, <4>2, <5>1 DEF Unsettled
        <5> QED BY <3>3, <3>4, <4>2, <5>2 DEF Unsettled
      <4> QED BY <4>1, <4>2
    <3>7. Calm
      BY <3>5, <3>6 DEF Calm, MutatorsKept
    <3> QED BY <2>1, <2>4, <3>7, FreshStays
  <2>5. \/ ReturnError(w) /\ SkipInvalidate(q.short)
        \/ UNCHANGED cacheVars /\ Become(w, [q EXCEPT !.pc = "inval", !.short = codes[q.id].short])
    BY <1>7, <2>2, Zenon DEF SetStateReget
  <2> QED BY <2>3, <2>4, <2>5
<1>8. CASE ChangeInvalidate(w)
  BY <1>2, <1>8, EndFresh DEF ChangeInvalidate
<1> QED BY <1>1, <1>5, <1>6, <1>7, <1>8 DEF ChangeStep

\* Every step of a scan.
LEMMA ScanFresh ==
  ASSUME CreationInv, CreationInv', FreshInv, NEW w \in Worker, ScanStep(w)
  PROVE  FreshInv'
<1> USE DEF CreationInv
<1>0. UNCHANGED storeVars
  BY ScanStepInv
<1>1. CASE ScanHit(w)
  <2>1. UNCHANGED req /\ UNCHANGED cacheVars
    BY <1>1 DEF ScanHit, CacheHit, cacheVars
  <2>2. Calm
    BY <2>1 DEF Calm, FillsKept, MutatorsKept, Unsettled, ItemsAt, Items
  <2> QED BY <1>0, <2>1, <2>2, FreshStays
<1>2. CASE ScanMiss(w)
  <2>1. PICK s \in ShortCode : Begin(w, [op |-> "scan", pc |-> "lookup", short |-> s, res |-> NotFound])
    BY <1>2 DEF ScanMiss
  <2>2. PICK r : r = [op |-> "scan", pc |-> "lookup", short |-> s, res |-> NotFound]
    OBVIOUS
  <2>3. Begin(w, r) /\ r.pc # "fill"
    BY <2>1, <2>2
  <2> QED BY <2>3, BeginCalm, FreshStays
<1>3. ASSUME req[w].op = "scan", NEW r, Become(w, r)
      PROVE  MutatorsKept /\ \A s \in ShortCode : w \notin Unsettled(s)
  <2>1. \A s \in ShortCode : w \notin Unsettled(s)
    BY <1>3, NoneInserted, OwesNothing DEF CreationOps
  <2>2. StepOf(w)
    BY <1>3, BecomeReq DEF StepOf
  <2> QED BY <2>1, <2>2, OthersOwe DEF MutatorsKept
<1>4. CASE ScanLookup(w)
  <2>1. req[w].op = "scan" /\ UNCHANGED cacheVars
    BY <1>4 DEF ScanLookup
  <2>2. PICK q \in Scan : q = req[w]
    BY <2>1, Kinds DEF ReqInv
  <2>3. CASE ReturnError(w)
    <3>1. Become(w, Idle) /\ req[w].op \notin CreationOps /\ req[w].op \notin {"update", "state", "delete"}
      BY <2>1, <2>3 DEF ReturnError, Return, CreationOps
    <3> QED BY <1>0, <2>1, <3>1, ReturnCalm, FreshStays
  <2>4. CASE Become(w, [q EXCEPT !.pc = "fill", !.res = Lookup(q.short)])
    <3>1. PICK l : l = Lookup(q.short)
      OBVIOUS
    <3>2. PICK r : r = [q EXCEPT !.pc = "fill", !.res = l]
      OBVIOUS
    <3>3. Become(w, r) /\ r.res = l /\ r.short = q.short
      BY <2>4, <3>1, <3>2 DEF Scan
    <3>4. req'[w] = r /\ StepOf(w)
      BY <3>3, BecomeReq DEF StepOf
    <3>5. Lookup(q.short)' = l
      BY <1>0, <3>1, LookupStays
    <3>6. FillFresh(w)'
      BY <3>3, <3>4, <3>5 DEF FillFresh, Seen
    <3>7. LookupKept
      BY <1>0, LookupStays DEF LookupKept, Seen
    <3>8. MutatorsKept
      BY <1>3, <2>1, <3>3
    <3> QED BY <2>1, <3>4, <3>6, <3>7, <3>8, FreshKept DEF StepOf
  <2>5. ReturnError(w) \/ Become(w, [q EXCEPT !.pc = "fill", !.res = Lookup(q.short)])
    BY <1>4, <2>2, Zenon DEF ScanLookup
  <2> QED BY <2>3, <2>4, <2>5
<1>5. CASE ScanFill(w)
  <2>1. PICK q \in Scan : q = req[w]
    BY <1>5, Kinds DEF ReqInv, ScanFill
  <2>2. /\ q.op = "scan" /\ q.pc = "fill" /\ CacheSet(q.short, q.res) /\ Become(w, Idle)
        /\ late' = IF w \in overtaken THEN late \cup {q.short} ELSE late \ {q.short}
        /\ overtaken' = overtaken \ {w}
    BY <1>5, <2>1 DEF ScanFill, Return
  <2>3. q.short \in ShortCode
    BY DEF Scan
  <2>4. MutatorsKept
    BY <1>3, <2>1, <2>2
  <2>5. \A t : Lookup(t)' = Lookup(t)
    BY <1>0, LookupStays
  <2>6. req'[w] = Idle /\ StepOf(w)
    BY <2>2, BecomeReq DEF StepOf
  <2>7. /\ \A t \in ShortCode \ {q.short} : cache'[t] = cache[t]
        /\ cache'[q.short].res = q.res
    BY <2>2, <2>3 DEF CacheSet, OthersTyped, CacheTypeOK
  <2>8. ASSUME NEW t \in ShortCode, Stale(t)' PROVE t \in late' \/ Unsettled(t)' # {}
    <3>1. CASE t = q.short
      <4>1. Seen(q.res) # Seen(Lookup(t))
        BY <2>5, <2>7, <2>8, <3>1 DEF Stale, Seen
      <4>2. w \in overtaken \/ Unsettled(t) # {}
        BY <2>1, <2>2, <3>1, <4>1 DEF FreshInv, FillFresh
      <4> QED BY <2>2, <2>4, <3>1, <4>2 DEF MutatorsKept
    <3>2. CASE t # q.short
      <4>1. Stale(t)
        BY <2>5, <2>7, <2>8, <3>2 DEF Stale, Cached, Seen
      <4>2. t \in late \/ Unsettled(t) # {}
        BY <4>1 DEF FreshInv, StaleHasCause
      <4> QED BY <2>2, <2>4, <3>2, <4>2 DEF MutatorsKept
    <3> QED BY <3>1, <3>2
  <2>9. ASSUME NEW x \in Worker, req'[x].op = "scan", req'[x].pc = "fill" PROVE FillFresh(x)'
    <3>1. x # w
      BY <2>6, <2>9, IdleRequest
    <3>2. PICK r : r = req[x]
      OBVIOUS
    <3>3. req'[x] = r
      BY <2>6, <3>1, <3>2 DEF StepOf
    <3>4. r.short \in ShortCode
      BY <2>9, <3>2, <3>3, Kinds DEF ReqInv, Scan
    <3>5. Seen(r.res) = Seen(Lookup(r.short)) \/ x \in overtaken \/ Unsettled(r.short) # {}
      BY <2>9, <3>2, <3>3 DEF FreshInv, FillFresh
    <3>6. Seen(r.res) = Seen(Lookup(r.short))' \/ x \in overtaken' \/ Unsettled(r.short)' # {}
      <4>1. Seen(Lookup(r.short))' = Seen(Lookup(r.short))
        BY <2>5 DEF Seen
      <4> QED BY <2>2, <2>4, <3>1, <3>4, <3>5, <4>1 DEF MutatorsKept
    <3> QED BY <3>3, <3>6 DEF FillFresh, Seen, Unsettled
  <2> QED BY <2>8, <2>9 DEF FreshInv, StaleHasCause
<1> QED BY <1>1, <1>2, <1>4, <1>5 DEF ScanStep

\* The environment's steps: an entry that expires or is evicted is not stale.
LEMMA EnvironmentFresh ==
  ASSUME CreationInv, CreationInv', FreshInv,
         \/ \E w \in Worker : HangUp(w)
         \/ AdminRelease \/ Tick \/ Evict \/ Crash \/ UNCHANGED serviceVars
  PROVE  FreshInv'
<1> USE DEF CreationInv
<1>1. ASSUME UNCHANGED req
      PROVE  Calm /\ \A s : Unsettled(s)' = Unsettled(s)
  BY <1>1 DEF Calm, FillsKept, MutatorsKept, Unsettled, ItemsAt, Items
<1>2. CASE (\E w \in Worker : HangUp(w)) \/ UNCHANGED serviceVars
  <2>1. UNCHANGED req /\ UNCHANGED cacheVars /\ UNCHANGED storeVars
    BY <1>2 DEF HangUp, serviceVars
  <2> QED BY <1>1, <2>1, FreshStays
<1>3. CASE AdminRelease
  <2>1. PICK s \in ShortCode : ReleaseAlias(s)
    BY <1>3 DEF AdminRelease
  <2>2. UNCHANGED req /\ UNCHANGED cacheVars
    BY <1>3 DEF AdminRelease
  <2>3. LookupKept
    BY <2>1, ReleaseLookup DEF LookupKept
  <2> QED BY <1>1, <2>2, <2>3, FreshKept DEF Calm, FillsKept
<1>4. CASE Tick \/ Evict
  <2>1. /\ UNCHANGED req /\ UNCHANGED storeVars /\ overtaken' = overtaken
        /\ late' = {s \in late : cache'[s] # Absent}
    BY <1>4 DEF Tick, Evict
  <2>2. \A s : Lookup(s)' = Lookup(s)
    BY <2>1, LookupStays
  <2>3. \A s : Unsettled(s)' = Unsettled(s)
    BY <1>1, <2>1
  <2>4. \A s \in ShortCode : cache'[s] # Absent => Cached(s) /\ cache'[s].res = cache[s].res
    <3>1. CASE Tick
      BY <3>1 DEF Tick, CacheTick
    <3>2. CASE Evict
      BY <3>2 DEF Evict, CacheEvict, OthersTyped, CacheTypeOK, Cached
    <3> QED BY <1>4, <3>1, <3>2
  <2>5. ASSUME NEW s \in ShortCode, Stale(s)' PROVE s \in late' \/ Unsettled(s)' # {}
    <3>1. cache'[s] # Absent /\ Seen(cache'[s].res) # Seen(Lookup(s))
      BY <2>2, <2>5 DEF Stale, Cached, Seen
    <3>2. Stale(s)
      BY <2>4, <3>1 DEF Stale
    <3>3. s \in late \/ Unsettled(s) # {}
      BY <3>2 DEF FreshInv, StaleHasCause
    <3> QED BY <2>1, <2>3, <3>1, <3>3
  <2>6. ASSUME NEW x \in Worker, req'[x].op = "scan", req'[x].pc = "fill" PROVE FillFresh(x)'
    <3>1. PICK r : r = req[x]
      OBVIOUS
    <3>2. req'[x] = r
      BY <2>1, <3>1
    <3>3. Seen(r.res) = Seen(Lookup(r.short)) \/ x \in overtaken \/ Unsettled(r.short) # {}
      BY <2>6, <3>1, <3>2 DEF FreshInv, FillFresh
    <3>4. Seen(r.res) = Seen(Lookup(r.short))' \/ x \in overtaken' \/ Unsettled(r.short)' # {}
      <4>1. Seen(Lookup(r.short))' = Seen(Lookup(r.short))
        BY <2>2 DEF Seen
      <4> QED BY <2>1, <2>3, <3>3, <4>1
    <3> QED BY <3>2, <3>4 DEF FillFresh, Seen, Unsettled
  <2> QED BY <2>5, <2>6 DEF FreshInv, StaleHasCause
<1>5. CASE Crash
  <2>1. (\A s \in ShortCode : cache'[s] = Absent) /\ (\A x \in Worker : req'[x] = Idle)
    BY <1>5 DEF Crash
  <2>2. \A x \in Worker : req'[x].op # "scan"
    BY <2>1 DEF Idle
  <2> QED BY <2>1, <2>2 DEF FreshInv, StaleHasCause, Stale, Cached
<1> QED BY <1>2, <1>3, <1>4, <1>5

\* Every step keeps the cache honest.
LEMMA NextFreshInv ==
  ASSUME CreationInv, FreshInv, [ServiceNext]_serviceVars
  PROVE  FreshInv'
<1>1. CreationInv'
  BY NextCreationInv
<1>2. ASSUME NEW w \in Worker, CreateStep(w)
      PROVE  FreshInv'
  <2>1. CASE Insert(w)
    BY <1>1, <2>1, InsertFresh
  <2>2. ASSUME NEW i \in DOMAIN Items(w), Confirm(w, i) PROVE FreshInv'
    BY <1>1, <2>2, ConfirmFresh
  <2>3. CASE ~Insert(w) /\ \A i \in DOMAIN Items(w) : ~Confirm(w, i)
    <3>1. Calm /\ UNCHANGED cacheVars /\ UNCHANGED storeVars
      BY <1>2, <2>3, CreateCalm
    <3> QED BY <1>1, <3>1, FreshStays DEF CreationInv
  <2> QED BY <2>1, <2>2, <2>3
<1>3. ASSUME NEW w \in Worker, UpdateStep(w) \/ ChangeStep(w) \/ ScanStep(w)
      PROVE  FreshInv'
  BY <1>1, <1>3, UpdateFresh, ChangeFresh, ScanFresh
<1> QED BY <1>1, <1>2, <1>3, EnvironmentFresh DEF ServiceNext

\* ServiceInv is inductive.
LEMMA ServiceInvariant == ServiceSpec => []ServiceInv
<1>1. ServiceInit => ServiceInv
  <2> SUFFICES ASSUME ServiceInit PROVE ServiceInv
    OBVIOUS
  <2>1. \A w \in Worker : req[w].op = "idle"
    BY DEF ServiceInit, Idle
  <2>2. \A s \in ShortCode : ~Stale(s)
    BY DEF ServiceInit, CacheInit, Stale, Cached
  <2> QED BY <2>1, <2>2, InitCreationInv DEF ServiceInv, UpdateInv, FreshInv, StaleHasCause
<1>2. ServiceInv /\ [ServiceNext]_serviceVars => ServiceInv'
  BY NextCreationInv, NextUpdateInv, NextFreshInv DEF ServiceInv
<1> QED BY <1>1, <1>2, PTL DEF ServiceSpec

\* For every instance of the service: a scanner sees something else than the
\* store says only while a mutation is in flight, or from an entry a scan filled
\* that such a mutation overtook or could not invalidate.
THEOREM StaleTheorem == ServiceSpec => []StaleHasCause
<1>1. ServiceInv => StaleHasCause
  BY DEF ServiceInv, FreshInv
<1> QED BY <1>1, ServiceInvariant, PTL

\* For every instance of the service: a last-write-wins update gives up only
\* after as many other writes as it made attempts (UpdateDestination's loop).
THEOREM LosersTheorem == ServiceSpec => []LosersWereOverwritten
<1>1. ServiceInv => LosersWereOverwritten
  <2> SUFFICES ASSUME CreationInv, UpdateInv PROVE LosersWereOverwritten
    BY DEF ServiceInv
  <2>1. ServiceTypeOK
    BY DEF CreationInv, StoreInv, ReqInv, IsRequest, OthersTyped, ServiceTypeOK
  <2>2. ASSUME NEW w \in Worker, req[w].op = "update", req[w].pc = "lost"
        PROVE  codes[req[w].id].version >= req[w].first + LastWriteWinsAttempts
    <3>1. PICK q \in Update : q = req[w]
      BY <2>2, Kinds DEF CreationInv, ReqInv
    <3>2. q.id \in Stored /\ UpdateOK(q)
      BY <2>2, <3>1 DEF CreationInv, ReqInv, UpdateInv
    <3>3. codes[q.id].version \in Nat /\ q.first \in Nat
      BY <3>2, StoredRowType DEF CreationInv, StoreInv, Row, Update
    <3>4. LastWriteWinsAttempts \in Nat
      BY Zenon, ServiceAssumption
    <3> QED BY <2>2, <3>1, <3>2, <3>3, <3>4 DEF UpdateOK
  <2> QED BY <2>1, <2>2 DEF LosersWereOverwritten
<1> QED BY <1>1, ServiceInvariant, PTL
=============================================================================
