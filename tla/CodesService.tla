---------------------------- MODULE CodesService ----------------------------
(***************************************************************************)
(* The codes service (internal/codes/service.go): requests that run        *)
(* concurrently over the metadata store, the blob store and the resolver   *)
(* cache, one step per call they make to one of the three.                 *)
(*                                                                         *)
(* A worker is a request goroutine.  Its context ends when its client      *)
(* hangs up, and every store or blob call it makes from then on fails; a   *)
(* call may also fail because the store or the disk does.  A crash loses   *)
(* every request and the cache, and nothing that was committed.            *)
(*                                                                         *)
(* A request that is refused before its first change (validation, not the  *)
(* owner, a direct code's fixed destination) does nothing and is left out. *)
(***************************************************************************)
EXTENDS ResolverCache, Sequences

CONSTANTS
  Worker,
  Ops,                    \* the kinds of request this instance receives
  Generated,              \* short codes the generator may draw
  Inputs,                 \* Create requests clients send, a set of Input
  Batches,                \* CreateBatch requests, a set of sequences of Input
  NoAlias,
  NewDest,                \* destinations UpdateDestination is given
  IfMatch,                \* versions it is given, 0 for none
  GenerateAttempts,       \* generateAttempts
  LastWriteWinsAttempts,  \* lastWriteWinsAttempts
  BatchWorkers,           \* codes.batch_workers
  MaxFaults,              \* bound: failed calls and crashes in a behaviour
  MaxHangups              \* bound: clients that hang up

VARIABLES
  blobs,     \* the object keys in the blob store: <<"image" or "logo", code id>>
  req,       \* [Worker -> the request it serves, or Idle]
  gone,      \* workers whose client hung up
  faults,    \* failures so far
  hangups,   \* hang-ups so far
  overtaken, \* history: scans whose lookup predates a mutation that is over
  late       \* history: short codes whose entry may predate such a mutation

(* An alias never looks generated (shortcode.ValidateAlias).  check is how  *)
(* the request fares: malformed on the wire, refused by prepare, or ok.     *)
Input == [alias : (ShortCode \ Generated) \cup {NoAlias}, ref : Ref \cup {NoRef},
          dest : Dest, mode : Mode, logo : BOOLEAN,
          check : {"malformed", "refused", "ok"}]

ASSUME ServiceAssumption ==
  /\ Ops \subseteq {"create", "batch", "update", "state", "delete", "release", "scan"}
  /\ Generated \subseteq ShortCode
  /\ NoAlias \notin ShortCode /\ NewDest \subseteq Dest
  /\ Inputs \subseteq Input
  /\ \A b \in Batches : b \in Seq(Input) /\ Len(b) <= MaxBatch
  /\ {GenerateAttempts, LastWriteWinsAttempts, BatchWorkers} \subseteq Nat \ {0}
  /\ {MaxFaults, MaxHangups} \cup IfMatch \subseteq Nat

callVars == <<gone, faults, hangups>>
cacheVars == <<cache, overtaken, late>>
serviceVars == <<storeVars, cacheVars, blobs, req, callVars>>

Idle == [op |-> "idle"]

ItemStage == {"new", "alias", "pending", "logo", "image", "unlogo", "ready",
              "inserted", "undo", "created", "existing", "error"}
Done == {"created", "existing", "error"}

Item == [in : Input, short : ShortCode \cup {NoAlias}, id : CodeId \cup {NoRow}, stage : ItemStage]

\* The items of a creation go by their position in the request.
Creation(S) ==
            [op : {"create", "batch"}, user : User, items : [S -> Item],
             tries : 1..GenerateAttempts, err : {"none", "alias_taken", "client_ref_taken", "failed"}]
Update   == [op : {"update"}, pc : {"read", "cas", "inval", "lost"}, user : User, id : CodeId,
             short : ShortCode, dest : Dest, expect : Nat, version : Nat, dead : BOOLEAN,
             tries : 1..LastWriteWinsAttempts, first : Nat]
Change   == [op : {"state", "delete"}, pc : {"write", "reget", "inval"}, user : User,
             id : CodeId, short : ShortCode, to : State]
Scan     == [op : {"scan"}, pc : {"lookup", "fill"}, short : ShortCode, res : Resolution]

\* Records of requests, the blob keys and the counters have their types.
ServiceTypeOK ==
  /\ TypeOK /\ CacheTypeOK
  /\ blobs \subseteq {"image", "logo"} \X CodeId
  /\ \A w \in Worker : \/ req[w] \in {Idle} \cup Update \cup Change \cup Scan
                       \/ \E S \in SUBSET (1..MaxBatch) : req[w] \in Creation(S)
  /\ gone \subseteq Worker /\ overtaken \subseteq Worker /\ late \subseteq ShortCode
  /\ faults \in 0..MaxFaults /\ hangups \in 0..MaxHangups

ServiceInit ==
  /\ StoreInit /\ CacheInit
  /\ blobs = {}
  /\ req = [w \in Worker |-> Idle]
  /\ gone = {} /\ overtaken = {} /\ late = {}
  /\ faults = 0 /\ hangups = 0

-----------------------------------------------------------------------------
(* A call to the store or the blob store, made with the request's context.  *)

CallWorks(w) == w \notin gone /\ UNCHANGED callVars

CallFails(w) ==
  \/ w \in gone /\ UNCHANGED callVars
  \/ /\ w \notin gone /\ faults < MaxFaults
     /\ faults' = faults + 1
     /\ UNCHANGED <<gone, hangups>>

Become(w, r) == req' = [req EXCEPT ![w] = r]

\* The goroutine returns, and its context with it.
Return(w) ==
  /\ Become(w, Idle)
  /\ gone' = gone \ {w}

\* A request that ends because a call failed: its context ends with it.
ReturnError(w) ==
  /\ w \in gone \/ faults < MaxFaults
  /\ Return(w)
  /\ faults' = IF w \in gone THEN faults ELSE faults + 1
  /\ UNCHANGED hangups

Begin(w, r) ==
  /\ req[w] = Idle
  /\ r.op \in Ops
  /\ Become(w, r)
  /\ UNCHANGED <<callVars, blobs, cacheVars, storeVars>>

-----------------------------------------------------------------------------
(* The cache, as the service uses it, and the two history variables.        *)

\* Scans of s that have read the store and not yet filled the cache.
Filling(s) == {w \in Worker : /\ req[w].op = "scan"
                              /\ req[w].pc = "fill"
                              /\ req[w].short = s}

\* Mutant: the wrong key is dropped (the id instead of the short code, say).
BugInvalidateOtherKey(s) ==
  /\ UNCHANGED <<cache, late>>
  /\ overtaken' = overtaken \cup Filling(s)

InvalidateFor(s) ==
  /\ Invalidate(s)
  /\ overtaken' = overtaken \cup Filling(s)
  /\ late' = late \ {s}

\* A mutation of s is over and has not invalidated it.
SkipInvalidate(s) ==
  /\ UNCHANGED cache
  /\ overtaken' = overtaken \cup Filling(s)
  /\ late' = IF Cached(s) THEN late \cup {s} ELSE late

-----------------------------------------------------------------------------
(* Create and CreateBatch.                                                 *)

Items(w) == IF req[w].op \in {"create", "batch"} THEN req[w].items ELSE <<>>

ItemsAt(w, stages) == {i \in DOMAIN Items(w) : Items(w)[i].stage \in stages}

FirstAt(w, i, stages) ==
  /\ i \in ItemsAt(w, stages)
  /\ \A j \in ItemsAt(w, stages) : i <= j

SetItem(w, i, item) == Become(w, [req[w] EXCEPT !.items[i] = item])

SetStage(w, i, stage) == SetItem(w, i, [Items(w)[i] EXCEPT !.stage = stage])

\* Ids are random (domain.NewCodeID): one that nothing in the system mentions.
FreshId ==
  CodeId \ (Stored \cup {k[2] : k \in blobs}
            \cup UNION {{Items(w)[i].id : i \in DOMAIN Items(w)} : w \in Worker})

NewItem(in, stage) == [in |-> in, short |-> in.alias, id |-> NoRow, stage |-> stage]

\* POST /v1/codes without a client_ref, and the console's form.
BeginCreate(w) ==
  \E u \in User, in \in Inputs :
    /\ in.ref = NoRef /\ in.check = "ok"
    /\ Begin(w, [op |-> "create", user |-> u, items |-> [i \in {1} |-> NewItem(in, "pending")],
                 tries |-> 1, err |-> "none"])

\* Items the wire format refuses never reach the service; the others keep the
\* position they have in the request.
inputIdx(b) == {i \in DOMAIN b : b[i].check # "malformed"}

\* A create with a client_ref is a batch of one.
Requested == Batches \cup {<<in>> : in \in {x \in Inputs : x.ref # NoRef}}

BeginBatch(w) ==
  \E u \in User, b \in Requested :
    /\ Len(b) <= MaxBatch /\ inputIdx(b) # {}
    /\ Begin(w, [op |-> "batch", user |-> u,
                 items |-> [i \in inputIdx(b) |-> NewItem(b[i], "new")],
                 tries |-> 1, err |-> "none"])

\* prepare: an item that passes goes on to have its alias checked.
Prepared(in) ==
  CASE in.check # "ok" -> "error"
    [] in.check = "ok" /\ in.alias = NoAlias -> "pending"
    [] OTHER -> "alias"

\* The pre-checks run item by item.  A client_ref the user has already used
\* answers the item: with the code itself when destination and mode agree.
CheckRef(w, i) ==
  LET it    == Items(w)[i]
      found == GetCodeByClientRef(req[w].user, it.in.ref)
      dup   == \E j \in DOMAIN Items(w) : j < i /\ Items(w)[j].in.ref = it.in.ref
      match == \E c \in found : codes[c].dest = it.in.dest /\ codes[c].mode = it.in.mode
  IN  /\ FirstAt(w, i, {"new", "alias"}) /\ it.stage = "new"
      /\ \/ it.in.ref = NoRef /\ SetStage(w, i, Prepared(it.in)) /\ UNCHANGED callVars
         \/ it.in.ref # NoRef /\ dup /\ SetStage(w, i, "error") /\ UNCHANGED callVars
         \/ /\ it.in.ref # NoRef /\ ~dup /\ CallWorks(w)
            /\ \/ found = {} /\ SetStage(w, i, Prepared(it.in))
               \/ \E c \in found : match /\ SetItem(w, i, [it EXCEPT !.stage = "existing", !.id = c])
               \/ found # {} /\ ~match /\ SetStage(w, i, "error")
         \/ it.in.ref # NoRef /\ ~dup /\ CallFails(w) /\ SetStage(w, i, "error")
      /\ UNCHANGED <<blobs, cacheVars, storeVars>>

\* seenAlias holds the aliases of the earlier items that passed.
CheckAlias(w, i) ==
  LET it  == Items(w)[i]
      dup == \E j \in ItemsAt(w, {"pending"}) : Items(w)[j].in.alias = it.in.alias
  IN  /\ FirstAt(w, i, {"new", "alias"}) /\ it.stage = "alias"
      /\ \/ dup /\ SetStage(w, i, "error") /\ UNCHANGED callVars
         \/ /\ ~dup /\ CallWorks(w)
            /\ SetStage(w, i, IF IsAliasAvailable(it.in.alias) THEN "pending" ELSE "error")
         \/ ~dup /\ CallFails(w) /\ SetStage(w, i, "error")
      /\ UNCHANGED <<blobs, cacheVars, storeVars>>

\* materialise up to its first write: the image is rendered for this id and
\* short code, the logo is stored first if there is one.
Rendered(it, c, s) ==
  [it EXCEPT !.id = c, !.short = s, !.stage = IF it.in.logo THEN "logo" ELSE "image"]

\* The item's goroutine starts: in order, at most BatchWorkers at a time, and
\* only once every item has been checked.  Rendering precedes any write.
Render(w, i) ==
  LET it == Items(w)[i]
  IN  /\ FirstAt(w, i, {"new", "alias", "pending"}) /\ it.stage = "pending"
      /\ Cardinality(ItemsAt(w, {"logo", "image", "unlogo"})) < BatchWorkers
      /\ \/ /\ UNCHANGED callVars
            /\ \E c \in FreshId, s \in IF it.in.alias = NoAlias THEN Generated ELSE {it.in.alias} :
                 SetItem(w, i, Rendered(it, c, s))
         \/ CallFails(w) /\ SetStage(w, i, "error")
      /\ UNCHANGED <<blobs, cacheVars, storeVars>>

\* A Put that fails for want of a context has written nothing; one that fails
\* for another reason may have left the object behind.
PutFails(w, key) ==
  /\ CallFails(w)
  /\ blobs' \in IF w \in gone THEN {blobs} ELSE {blobs, blobs \cup {key}}

PutLogo(w, i) ==
  LET it == Items(w)[i]
  IN  /\ i \in ItemsAt(w, {"logo"})
      /\ \/ /\ CallWorks(w)
            /\ blobs' = blobs \cup {<<"logo", it.id>>}
            /\ SetStage(w, i, "image")
         \/ PutFails(w, <<"logo", it.id>>) /\ SetStage(w, i, "error")
      /\ UNCHANGED <<cacheVars, storeVars>>

\* Mutant: the error of the image's Put is not looked at.
BugIgnorePutError(w, i) ==
  /\ i \in ItemsAt(w, {"image"})
  /\ \/ CallWorks(w) /\ blobs' = blobs \cup {<<"image", Items(w)[i].id>>}
     \/ PutFails(w, <<"image", Items(w)[i].id>>)
  /\ SetStage(w, i, "ready")
  /\ UNCHANGED <<cacheVars, storeVars>>

PutImage(w, i) ==
  LET it == Items(w)[i]
  IN  /\ i \in ItemsAt(w, {"image"})
      /\ \/ /\ CallWorks(w)
            /\ blobs' = blobs \cup {<<"image", it.id>>}
            /\ SetStage(w, i, "ready")
         \/ /\ PutFails(w, <<"image", it.id>>)
            /\ SetStage(w, i, IF it.in.logo THEN "unlogo" ELSE "error")
      /\ UNCHANGED <<cacheVars, storeVars>>

\* removeBlobs: a delete that fails is logged and leaves its object behind.
RemoveBlobs(w, keys) ==
  \/ CallWorks(w) /\ blobs' = blobs \ keys
  \/ /\ CallFails(w)
     /\ \E kept \in (SUBSET keys) \ {{}} :
          /\ w \in gone => kept = keys
          /\ blobs' = blobs \ (keys \ kept)

RemoveLogo(w, i) ==
  /\ i \in ItemsAt(w, {"unlogo"})
  /\ RemoveBlobs(w, {<<"logo", Items(w)[i].id>>})
  /\ SetStage(w, i, "error")
  /\ UNCHANGED <<cacheVars, storeVars>>

Rows(w) ==
  LET item(c) == CHOOSE it \in {Items(w)[i] : i \in ItemsAt(w, {"ready"})} : it.id = c
  IN  [c \in {Items(w)[i].id : i \in ItemsAt(w, {"ready"})} |->
         [short |-> item(c).short, user |-> req[w].user, mode |-> item(c).in.mode,
          ref |-> item(c).in.ref, dest |-> item(c).in.dest, state |-> "active"]]

MoveReady(w, stage, err) ==
  Become(w, [req[w] EXCEPT
    !.err = err,
    !.items = [i \in DOMAIN Items(w) |->
                 IF Items(w)[i].stage = "ready" THEN [Items(w)[i] EXCEPT !.stage = stage]
                 ELSE Items(w)[i]]])

\* Mutant: a transaction per row, so that a refused batch leaves some rows.
BugRowByRow(w) ==
  /\ ItemsAt(w, {"ready"}) # {}
  /\ ItemsAt(w, ItemStage \ (Done \cup {"ready"})) = {}
  /\ \/ CallWorks(w) /\ CreateCodes(Rows(w)) /\ MoveReady(w, "inserted", "none")
     \/ /\ CallWorks(w)
        /\ \E e \in InsertErrors(Rows(w)) : MoveReady(w, "undo", e)
        /\ \E c \in DOMAIN Rows(w) : CreateCodes([d \in {c} |-> Rows(w)[d]])
  /\ UNCHANGED <<blobs, cacheVars>>

\* One transaction for every item that was rendered.
Insert(w) ==
  /\ ItemsAt(w, {"ready"}) # {}
  /\ ItemsAt(w, ItemStage \ (Done \cup {"ready"})) = {}
  /\ \/ CallWorks(w) /\ CreateCodes(Rows(w)) /\ MoveReady(w, "inserted", "none")
     \/ /\ CallWorks(w)
        /\ \E e \in InsertErrors(Rows(w)) : MoveReady(w, "undo", e)
        /\ UNCHANGED storeVars
     \/ CallFails(w) /\ MoveReady(w, "undo", "failed") /\ UNCHANGED storeVars
  /\ UNCHANGED <<blobs, cacheVars>>

\* Mutant: the logo is not among the keys of a code.
BugForgetLogo(it) == {<<"image", it.id>>}

BlobKeysOf(it) ==
  {<<"image", it.id>>} \cup (IF it.in.logo THEN {<<"logo", it.id>>} ELSE {})

\* Create draws again when it was a generated short code that collided.
DrawsAgain(w, it) ==
  /\ req[w].op = "create" /\ req[w].err = "alias_taken"
  /\ it.in.alias = NoAlias
  /\ req[w].tries < GenerateAttempts

\* The row never landed: its blobs go before anything else is tried.
Undo(w, i) ==
  LET it == Items(w)[i]
  IN  /\ FirstAt(w, i, {"undo"})
      /\ RemoveBlobs(w, BlobKeysOf(it))
      /\ IF DrawsAgain(w, it)
         THEN Become(w, [req[w] EXCEPT !.items[i] = NewItem(it.in, "pending"),
                                       !.tries = @ + 1, !.err = "none"])
         ELSE SetStage(w, i, "error")
      /\ UNCHANGED <<cacheVars, storeVars>>

Confirm(w, i) ==
  /\ FirstAt(w, i, {"inserted"})
  /\ InvalidateFor(Items(w)[i].short)
  /\ SetStage(w, i, "created")
  /\ UNCHANGED <<blobs, callVars, storeVars>>

Answer(w) ==
  /\ req[w].op \in {"create", "batch"}
  /\ ItemsAt(w, ItemStage \ Done) = {}
  /\ Return(w)
  /\ UNCHANGED <<blobs, cacheVars, storeVars, faults, hangups>>

CreateStep(w) ==
  \/ BeginCreate(w) \/ BeginBatch(w) \/ Insert(w) \/ Answer(w)
  \/ \E i \in DOMAIN Items(w) :
       \/ CheckRef(w, i) \/ CheckAlias(w, i) \/ Render(w, i) \/ PutLogo(w, i)
       \/ PutImage(w, i) \/ RemoveLogo(w, i) \/ Undo(w, i) \/ Confirm(w, i)

-----------------------------------------------------------------------------
(* UpdateDestination: read the row, then a guarded UPDATE, a few times over *)
(* when the caller sent no version (expect = 0).                            *)

BeginUpdate(w) ==
  \E u \in User, c \in Stored, d \in NewDest, v \in IfMatch :
    /\ Owned(c, u) /\ codes[c].mode = "dynamic"
    /\ codes[c].version < MaxVersion
    /\ Begin(w, [op |-> "update", pc |-> "cas", user |-> u, id |-> c, short |-> codes[c].short,
                 dest |-> d, expect |-> v, version |-> codes[c].version,
                 dead |-> c \notin Live, tries |-> 1, first |-> codes[c].version])

\* The console's form without an If-Match: the adapter reads the version first
\* and sends it as the one expected.
ConsolePatch(w) ==
  \E u \in User, c \in Stored, d \in NewDest :
    /\ Owned(c, u) /\ codes[c].mode = "dynamic"
    /\ codes[c].version < MaxVersion
    /\ Begin(w, [op |-> "update", pc |-> "read", user |-> u, id |-> c, short |-> codes[c].short,
                 dest |-> d, expect |-> codes[c].version, version |-> codes[c].version,
                 dead |-> c \notin Live, tries |-> 1, first |-> codes[c].version])

\* Mutant: a retry goes on with the version of the first read.
BugKeepVersion(w) ==
  /\ req[w].op = "update" /\ req[w].pc = "read"
  /\ CallWorks(w)
  /\ Become(w, [req[w] EXCEPT !.pc = "cas"])
  /\ UNCHANGED <<blobs, cacheVars, storeVars>>

UpdateRead(w) ==
  LET r == req[w]
  IN  /\ r.op = "update" /\ r.pc = "read"
      /\ \/ /\ CallWorks(w)
            /\ Become(w, [r EXCEPT !.pc = "cas", !.version = codes[r.id].version,
                                   !.dead = r.id \notin Live])
         \/ ReturnError(w)
      /\ UNCHANGED <<blobs, cacheVars, storeVars>>

Retries(r) == r.expect = 0 /\ ~r.dead /\ r.tries < LastWriteWinsAttempts

UpdateCas(w) ==
  LET r == req[w]
      v == IF r.expect > 0 THEN r.expect ELSE r.version
  IN  /\ r.op = "update" /\ r.pc = "cas"
      /\ \/ /\ CallWorks(w)
            /\ UpdateDestination(r.id, r.user, r.dest, v)
            /\ Become(w, [r EXCEPT !.pc = "inval"])
         \/ /\ UpdateResult(r.id, r.user, v) = "conflict"
            /\ w \notin gone
            /\ CASE r.expect > 0 \/ r.dead -> Return(w)   \* ConflictError
                 [] Retries(r) ->
                      Become(w, [r EXCEPT !.pc = "read", !.tries = @ + 1]) /\ UNCHANGED gone
                 [] OTHER -> Become(w, [r EXCEPT !.pc = "lost"]) /\ UNCHANGED gone
            /\ UNCHANGED <<faults, hangups, storeVars>>
         \/ ReturnError(w) /\ UNCHANGED storeVars
      /\ UNCHANGED <<blobs, cacheVars>>

\* The answer's re-read of the row changes nothing, whether or not it fails.
UpdateInvalidate(w) ==
  /\ req[w].op = "update" /\ req[w].pc = "inval"
  /\ InvalidateFor(req[w].short)
  /\ Return(w)
  /\ UNCHANGED <<blobs, storeVars, faults, hangups>>

\* "update kept losing the race"
UpdateLost(w) ==
  /\ req[w].op = "update" /\ req[w].pc = "lost"
  /\ Return(w)
  /\ UNCHANGED <<blobs, cacheVars, storeVars, faults, hangups>>

UpdateStep(w) ==
  \/ BeginUpdate(w) \/ ConsolePatch(w)
  \/ UpdateRead(w) \/ UpdateCas(w) \/ UpdateInvalidate(w) \/ UpdateLost(w)

-----------------------------------------------------------------------------
(* SetState and Delete.                                                    *)

BeginSetState(w) ==
  \E u \in User, c \in Stored, st \in {"active", "disabled"} :
    /\ Owned(c, u) /\ codes[c].mode = "dynamic"
    /\ codes[c].version < MaxVersion
    /\ Begin(w, [op |-> "state", pc |-> "write", user |-> u, id |-> c,
                 short |-> codes[c].short, to |-> st])

BeginDelete(w) ==
  \E u \in User, c \in Stored :
    /\ Owned(c, u)
    /\ Begin(w, [op |-> "delete", pc |-> "write", user |-> u, id |-> c,
                 short |-> codes[c].short, to |-> "deleted"])

SetStateWrite(w) ==
  LET r == req[w]
  IN  /\ r.op = "state" /\ r.pc = "write"
      /\ \/ /\ CallWorks(w)
            /\ SetCodeState(r.id, r.user, r.to)
            /\ Become(w, [r EXCEPT !.pc = "reget"])
         \/ /\ SetStateResult(r.id, r.user) # "ok"
            /\ w \notin gone
            /\ Return(w)
            /\ UNCHANGED <<faults, hangups, storeVars>>
         \/ ReturnError(w) /\ UNCHANGED storeVars
      /\ UNCHANGED <<blobs, cacheVars>>

\* The short code to invalidate is taken from a re-read of the row; when that
\* fails the handler returns without invalidating.
SetStateReget(w) ==
  LET r == req[w]
  IN  /\ r.op = "state" /\ r.pc = "reget"
      /\ \/ /\ CallWorks(w)
            /\ Become(w, [r EXCEPT !.pc = "inval", !.short = codes[r.id].short])
            /\ UNCHANGED cacheVars
         \/ ReturnError(w) /\ SkipInvalidate(r.short)
      /\ UNCHANGED <<blobs, storeVars>>

DeleteWrite(w) ==
  LET r == req[w]
  IN  /\ r.op = "delete" /\ r.pc = "write"
      /\ \/ /\ CallWorks(w)
            /\ DeleteCode(r.id, r.user)
            /\ Become(w, [r EXCEPT !.pc = "inval"])
         \/ ReturnError(w) /\ UNCHANGED storeVars
      /\ UNCHANGED <<blobs, cacheVars>>

ChangeInvalidate(w) ==
  /\ req[w].op \in {"state", "delete"} /\ req[w].pc = "inval"
  /\ InvalidateFor(req[w].short)
  /\ Return(w)
  /\ UNCHANGED <<blobs, storeVars, faults, hangups>>

ChangeStep(w) ==
  \/ BeginSetState(w) \/ BeginDelete(w)
  \/ SetStateWrite(w) \/ SetStateReget(w) \/ DeleteWrite(w) \/ ChangeInvalidate(w)

\* The admin's release calls the store directly and leaves the cache alone.
AdminRelease ==
  /\ "release" \in Ops
  /\ \E s \in ShortCode : ReleaseAlias(s)
  /\ UNCHANGED <<blobs, cacheVars, req, callVars>>

-----------------------------------------------------------------------------
(* Resolve.                                                                *)

ScanHit(w) ==
  /\ "scan" \in Ops /\ req[w] = Idle
  /\ \E s \in ShortCode : Cached(s) /\ CacheHit(s)
  /\ UNCHANGED <<overtaken, late, blobs, req, callVars, storeVars>>

ScanMiss(w) ==
  \E s \in ShortCode :
    /\ ~Cached(s)
    /\ Begin(w, [op |-> "scan", pc |-> "lookup", short |-> s, res |-> NotFound])

ScanLookup(w) ==
  LET r == req[w]
  IN  /\ r.op = "scan" /\ r.pc = "lookup"
      /\ \/ CallWorks(w) /\ Become(w, [r EXCEPT !.pc = "fill", !.res = Lookup(r.short)])
         \/ ReturnError(w)
      /\ UNCHANGED <<blobs, cacheVars, storeVars>>

ScanFill(w) ==
  LET r == req[w]
  IN  /\ r.op = "scan" /\ r.pc = "fill"
      /\ CacheSet(r.short, r.res)
      /\ late' = IF w \in overtaken THEN late \cup {r.short} ELSE late \ {r.short}
      /\ overtaken' = overtaken \ {w}
      /\ Return(w)
      /\ UNCHANGED <<blobs, storeVars, faults, hangups>>

ScanStep(w) == ScanHit(w) \/ ScanMiss(w) \/ ScanLookup(w) \/ ScanFill(w)

-----------------------------------------------------------------------------
(* The environment.                                                        *)

Tick ==
  /\ CacheTick
  /\ late' = {s \in late : cache'[s] # Absent}
  /\ UNCHANGED <<overtaken, blobs, req, callVars, storeVars>>

Evict ==
  /\ \E s \in ShortCode : CacheEvict(s)
  /\ late' = {s \in late : cache'[s] # Absent}
  /\ UNCHANGED <<overtaken, blobs, req, callVars, storeVars>>

HangUp(w) ==
  /\ req[w] # Idle /\ w \notin gone
  /\ hangups < MaxHangups
  /\ hangups' = hangups + 1
  /\ gone' = gone \cup {w}
  /\ UNCHANGED <<faults, blobs, req, cacheVars, storeVars>>

Crash ==
  /\ faults < MaxFaults
  /\ faults' = faults + 1
  /\ req' = [w \in Worker |-> Idle]
  /\ cache' = [s \in ShortCode |-> Absent]
  /\ gone' = {} /\ overtaken' = {} /\ late' = {}
  /\ UNCHANGED <<blobs, hangups, storeVars>>

ServiceNext ==
  \/ \E w \in Worker :
       CreateStep(w) \/ UpdateStep(w) \/ ChangeStep(w) \/ ScanStep(w) \/ HangUp(w)
  \/ AdminRelease \/ Tick \/ Evict \/ Crash

\* The clock is fair; nothing forces a client to send or finish a request.
ServiceSpec == ServiceInit /\ [][ServiceNext]_serviceVars /\ WF_serviceVars(Tick)

-----------------------------------------------------------------------------
(* Properties.                                                             *)

\* Every row has its image: a printed code never meets a missing PNG, whatever
\* calls failed and wherever the process crashed.
RowHasImage == \A c \in Stored : <<"image", c>> \in blobs

Quiet == \A w \in Worker : req[w] = Idle

\* Blobs no row and no request accounts for.
Orphans == {k \in blobs : k[2] \notin Stored}

\* Losing a race (a taken alias, a used client_ref, a collision of generated
\* codes) leaves no blob behind: orphans need a fault or a client that left.
NoOrphanWithoutTrouble == Quiet /\ faults = 0 /\ hangups = 0 => Orphans = {}

\* Answers of w that name a code.
Named(w) == ItemsAt(w, {"inserted", "created", "existing"})

\* What a creation is about to answer is what the store holds: a created or
\* existing item names a row with its image, a failed one left no row, and a
\* batch's rows were inserted together or not at all.  Retrying a batch is safe:
\* however requests overlap, answers that name a code for the same user and
\* client_ref name the same code.
AnswersAreTrue ==
  /\ ServiceTypeOK
  /\ \A w \in Worker :
       /\ \A i \in Named(w) :
            Items(w)[i].id \in Stored /\ <<"image", Items(w)[i].id>> \in blobs
       /\ \A i \in ItemsAt(w, {"undo", "error"}) : Items(w)[i].id \notin Stored
       /\ ~ (ItemsAt(w, {"undo"}) # {} /\ ItemsAt(w, {"inserted", "created"}) # {})
  /\ \A w, x \in Worker : \A i \in Named(w), j \in Named(x) :
       /\ req[w].user = req[x].user
       /\ Items(w)[i].in.ref = Items(x)[j].in.ref /\ Items(w)[i].in.ref # NoRef
       => Items(w)[i].id = Items(x)[j].id

\* A last-write-wins update makes a bounded number of attempts, and gives up
\* only after as many other writes got in between as it made.
LosersWereOverwritten ==
  /\ ServiceTypeOK
  /\ \A w \in Worker : req[w].op = "update" /\ req[w].pc = "lost" =>
       codes[req[w].id].version >= req[w].first + LastWriteWinsAttempts

\* Requests that have changed what s resolves to and not yet invalidated it.
Unsettled(s) ==
  {w \in Worker :
     \/ req[w].op \in {"update", "state", "delete"} /\ req[w].pc \in {"reget", "inval"}
        /\ req[w].short = s
     \/ \E i \in ItemsAt(w, {"inserted"}) : Items(w)[i].short = s}

Stale(s) == Cached(s) /\ Seen(cache[s].res) # Seen(Lookup(s))

\* A scanner sees something else than the store says only while the mutation
\* is in flight, or from an entry filled by a scan the mutation overtook (or
\* left by one that could not finish).
StaleHasCause == \A s \in ShortCode : Stale(s) => s \in late \/ Unsettled(s) # {}

\* Cache.Invalidate's promise: once a change of a code's destination or state
\* has returned, the next scan of this instance sees it.
VisibleOnNextScan ==
  \A s \in ShortCode :
    Stale(s) /\ cache[s].res # NotFound => Unsettled(s) # {}

\* Whatever went wrong, a stale entry does not outlive its TTL.
StaleEntriesExpire == \A s \in ShortCode : Stale(s) ~> ~Stale(s)
=============================================================================
