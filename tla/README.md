# qurator: a TLA+ model of the service

qurator is a self-hosted QR-code service. A *code* is a row in the metadata store
(destination, state, owner, version) plus a PNG in the blob store; its *short code* is
printed and can never be recalled. The questions worth a model are therefore about what a
printed short code resolves to, whatever requests interleave, fail or are cut off; about the
state left behind by requests that lose; about who a request is served as; about scan events
on their way to the analytics; about the files a crash leaves; and about what survives an
export and an import.

## 1. Inventory

| Component | State | Operations | Interacts with |
|---|---|---|---|
| Metadata store (`internal/store`, SQLite and Postgres drivers) | `codes`, `alias_reservations`, `users`, `api_tokens`, `scan_events`, `scan_rollups` | transactions, one per `Store` method | called by every other component |
| Codes service (`internal/codes/service.go`) | none of its own; per-request progress | Create, CreateBatch, UpdateDestination, SetState, Delete, Resolve | store, blob store, resolver cache, renderer |
| Resolver cache (`internal/codes/cache.go`) | short code → resolution, TTL, bounded | Get, Set, Invalidate | filled by Resolve, emptied by mutations |
| Scan endpoint (`internal/httpapi/public`) | none | redirect or landing page; hands an event to the recorder | Resolve, recorder |
| Blob store (`internal/blob`) | objects and sidecars | Put, Get, Delete | the service and the image endpoint |
| Scan recorder (`internal/analytics/recorder.go`) | channel, per-worker batches, counters | Record, worker loop, flush, Close | fed by the scan endpoint, writes to the store |
| Rollups, retention (`internal/analytics`) | rollup rows, prune loop | BuildRollups, RunOnce, QueryAnalytics | store |
| Authentication (`internal/auth`) | token and user caches | verify, revoke, provision, bootstrap | store |
| Signing secret (`internal/auth/secret.go`) | key file | load or create | file system |
| Router, guards, rate limiter (`internal/httpapi`) | token buckets | route groups, CSRF, allow, evict | in front of every handler |
| Export, import (`internal/export`) | archive | Write, Read | source and target store |
| Rendering (`internal/qr`) | request-local, one worker goroutine | Prepare, Render | image endpoint, codes service |
| Startup (`cmd/qurator/main.go`) | process progress | migrate, bootstrap, listen, drain | everything on disk |
| Short codes, configuration, console pages, observability | none, or request-local | validation, formatting, I/O | |

Hard behaviours: requests race on aliases, generated codes and client references between a
pre-check and the insert; blobs and rows live in two stores with no common transaction; a
request's context may end at any call, and the cleanup after a failure uses that context; two
caches are filled after reads that a mutation may overtake; deleted rows share a short code
with live ones; Postgres' transactions are several statements at READ COMMITTED; the recorder
drops on a full channel, closes under a deadline and flushes on a timer; processes start
concurrently on one directory and one database; an export reads its tables at different times
and its download may break.

`PROJECT.json` lists every hazard at its line with the properties that would catch it, and
the components that are not modelled with the reason.

## 2. Modules

| Module | Models |
|---|---|
| `AliasNamespace` | abstract specification: a short code is free, live or retired, has one holder, and only an explicit release frees a retired one |
| `CodeStore` | `codes` and `alias_reservations`, one action per committed transaction (SQLite has one writer) |
| `PgStore` | the same operations in the Postgres driver, one action per statement |
| `ResolverCache` | the resolver cache over `CodeStore` |
| `CodesService` | requests of the v1 API, the console and the scan path over `CodeStore`, `ResolverCache` and a blob store |
| `ScanRecorder` | the recorder's channel, workers and shutdown |
| `Analytics` | scan events and rollups, the analytics query, retention |
| `Auth` | credentials, the two positive caches, provisioning, sessions and tokens |
| `Startup` | processes coming up on a shared directory and database: key file, migrations, bootstrap, shutdown |
| `FsBlob` | the filesystem driver's Put, Delete and Get for one key, system call by system call |
| `DataDir` | `Startup` and `FsBlob` together: kills and power losses hit both |
| `ExportImport` | `Write` on a serving store, a download that may break, `Read` into a second `CodeStore` |
| `RateLimiter` | the token buckets of the password forms |
| `Gate` | route groups, guards and the browser's cookie, in front of `RateLimiter` |
| `CodeList` | the paged list of codes while codes come and go |
| `QrImage`, `QrApi` | the renderer's arithmetic and policy; image requests from parsing to the answer |
| `Front` | `Gate`, `CodeList` and `QrApi` in one specification |
| `CodeStoreProofs`, `PgStoreProofs`, `CodesServiceProofs`, `AuthProofs`, `DataDirProofs`, `ScanProofs`, `ExportImportProofs`, `FrontProofs` | TLAPS proofs (section 4) |
| `MC*` | small instances for TLC |

`AliasNamespace` is refined by `CodeStore` (`ImplementsNamespace`), and `CodeStore` by `PgStore`
(`ImplementsStore`). `CodesService` uses `CodeStore`'s transactions as they are, as the service
uses the store, so that it keeps to the store's specification is not a question. `ExportImport`
holds two stores, the second with `INSTANCE CodeStore WITH codes <- tcodes, reservations <-
treservations`.

### CodeStore

`codes` maps ids to rows or `NoRow`; `reservations` maps short codes to the id that holds
them and a released flag. Unused `styling_profiles`, timestamps and blob columns are left out:
no statement's guard reads them. The guards are the statements' WHERE clauses and the schema's
unique indexes: `ShortFree` is the partial unique index of migration 0002 plus the reservation
upsert that touches no row while unreleased, `RefFree` the index of migration 0004. When an
insert violates several constraints the model lets the driver report any (`InsertErrors`).
Short codes are already lower-cased, as `newCodeRow` stores them. A batch has finitely many new
ids (`BatchIds`), as a slice does.

### PgStore

Each client has a connection and runs one call as a transaction: `Begin`, statements,
`Commit`. `CodeSeen` and `ResSeen` are what a statement sees (committed rows and the
transaction's own), `CodeLocked` and `ResLocked` the row locks, `ShortWait` and `RefWait` the
wait for a transaction in progress that may hold the same key of a unique index. A statement
that must wait is not enabled; at READ COMMITTED it re-evaluates its WHERE clause after the
wait, so this loses nothing. `DeadlockDetected` aborts one transaction of a cycle. `Fail`
breaks the connection before the commit, `CommitLost` during it: the rows are there and the
client gets an error. A bump of a row's version costs one of `MaxCalls`, and `PgAssumption` keeps
`CodeStore`'s bound on versions above them, so that the bound never stands in for a check of the
driver. Users, tokens and analytics are single statements with the text of the
SQLite driver's; they are modelled once, in `Auth`, `Analytics` and `ExportImport`, and the
map names the lines of one driver or of the other.

### ResolverCache and CodesService

`cache` maps a short code to an entry with an age. `ExpiryCreating` means that the TTL starts
when an entry is created, and is extended neither by reads nor by overwrites. Eviction may hit
any key at any time because the modelled keys are a sample of the 50,000.

One worker is one request goroutine; the goroutines of a batch are interleaved item by item.
Every call to the store, the blob store or the cache is a step of its own. A call works, or
fails: with a cancelled context (`gone`) it always fails and has no effect; otherwise a failure
costs one of `MaxFaults`, and a failed Put may still have left its object. A failed store
transaction is rolled back (the other possibility is `PgStore`'s `CommitLost`). `Crash` loses
requests and cache and keeps store and blobs. Requests refused before their first change are
left out, except inside a batch, where an item may be malformed (it never reaches the service)
or refused by `prepare` (it takes part in the `client_ref` check). A create with a
`client_ref` is a batch of one, as in the v1 handler. `ConsolePatch` is the console's update
without an If-Match: its adapter reads the version and sends it as the one expected. The items
of a creation are indexed by their position in the request, as `inputIdx` indexes the inputs of
a batch that the service gets. Creation is one pipeline:

    new → (CheckRef) → alias → (CheckAlias) → pending → (Render) → logo → image → ready
        → (Insert) → inserted → (Confirm) → created
                   → undo → (Undo) → error, or pending again (Create, generated code)

`overtaken` and `late` are history variables: scans whose lookup predates a mutation that has
finished, and short codes whose entry may come from one. They only serve `StaleHasCause`.

### ScanRecorder and Analytics

In `ScanRecorder` events are counted; a sum over the workers is the size of a set (`Total`). The
steps between the receive, the increment of `inflight`, the store's commit and the deferred
decrement are separate, because `Unflushed` is read by another goroutine in between. `Record` is
one step: it holds the read lock, `Close` the write lock. In `Analytics` events have a code, a
time and a visitor; a batch is inserted with its rollups in one transaction, and `RunOnce` prunes
batch by batch with the cutoff it took at its start. The counts of an answer are sizes of sets as
well (`SumOver`). The redirect handler records every scan of a code it finds, so a direct code has
events and rollups too, from its short link; only the analytics endpoint (`ServeAnalytics`) keeps
them back. Hours have two ticks and days one hour in the instance, so that events share hours and
buckets, and ranges cut hours in two.

### Auth

A request carries a bearer token, a session cookie, a forward-auth header, or several, and
`resolve` looks at them in this order. A store read and the cache write after it are separate
steps; `MaxFlight` bounds the time between them, as request timeouts do. `bumped` in a user's
row is history for `SessionLapses`. The header is classified (absent, one value, repeated,
joined, malformed) and only trusted from a trusted peer. Password hashing is the predicate
"this user has a password". `last_used_at` and `last_login_at` are written and never read by a
decision, and left out.

### Startup, FsBlob, DataDir

A process goes through the steps of `run` in order. The key file may be absent, empty (created and
not yet written) or hold a secret, whole or cut short; `keyHurt` records what has befallen it (a
crash before it was filled, a secret withdrawn with it, a removal that failed); `keyMay` is what
the disk may show after a power loss. Migrations are applied one transaction each; two processes
may both list the same one as pending. In `FsBlob` `objMay` and `sideMay` are what the two
directories may show after a power loss: a rename reaches the disk at the fsync of its directory,
or earlier by write-back. Staging (temp file, hash, fsync) touches no name a reader sees. In
`DataDir` process `Server` serves requests for one image, and `p2` only starts and stops.

### ExportImport

`Write` reads users, codes, reservations and rollups by four queries, so the store may change
between them (`joined`, `moved`). `Truncate` leaves the first entries of the archive; the next
one is missing or torn. `Read` is one step per store call; it stops at the first refusal and
cannot be resumed (the target is no longer empty). The target is empty and nobody else uses it.
A code's rollups are one number, as the replay adds what it reads to nothing.

### RateLimiter, Gate, CodeList, QrImage, QrApi, Front

Bucket contents are scaled so that refill is integer arithmetic: a unit is what flows in during a
tick. `Gate` has every route of `NewRouter` with its chain of guards, and a browser that keeps its
cookie. `CodeList` pages through rows of which several have one `created_at`. `QrImage` has the
checks of `Prepare` in their order, levels and budgets, the logo's hole for all 40 versions, runs
of modules and pixel edges; the encoder library is the version and level it picks. `QrApi` has the
three encodings of `/v1/qr` and the styling of `/v1/codes`, and `Render`'s worker against its
budget and the client; `RequestsAssumption` says which requests can be written down,
`SymbolsAssumption` that versions are those of the standard and that a row says of each of its
modules whether it is dark and whether it lies in a finder. The three parts share no state:
`subject` picks the one a behaviour is about.

## 3. Runs

| Run | Instance | Shows |
|---|---|---|
| `store` | 3 ids, 2 short codes, 2 users, 1 ref, versions ≤ 3, batches ≤ 2; symmetric | the namespace's two guards agree, a short code and a `client_ref` find one row, no hijack, rows move forward, refinement of `AliasNamespace` |
| `service_create` | 2 workers, 3 ids, an alias and one generated code, batches of 2 and 3, 1 fault or crash | rows have images, losers leave no blobs, answers are true and retries safe |
| `service_scan` | 2 workers, 1 code, versions ≤ 4, If-Match 2, none, or the console's, TTL 2, 1 hang-up; no symmetry | what makes an entry stale, that stale entries expire, the last-write-wins loop |
| `scan_recorder` | 2 workers, channel of 2, batches of 2, 6 events | accounting, `Unflushed`, settling, draining |
| `export_import` | 2 ids, 2 short codes, 2 users, no `client_ref` (one is never freed, so it restores like any other field), versions ≤ 2, 1 scan, 2 transactions during the export, archives cut after 3 or 4 entries | what an import restores and when it may fail |
| `pg` | 3 clients, 4 ids, 4 calls, batches that name two short codes in opposite order, 1 lost connection | refinement of `CodeStore`, true refusals |
| `auth` | 2 requests, 3 users, 1 token, 1 session, both TTLs 1, flight 1, 3 instants; symmetric in requests and in users other than the administrator | bounds on dead credentials, one identity per address, agreement of credentials |
| `data_dir` | 2 processes, 2 migrations, 2 writers of one image, 2 calls, 1 trouble | one secret, one preparation, consistent and durable pairs, someone serves |
| `analytics` | 2 codes (one direct), 2 visitors, 3 scans, 4 instants (2 hours), prune batches of 1, 1 failed run | analytics equal history, a rollup row counts every scan, a direct code's clicks are not shown, the window is kept, old events go |
| `front` | 1 peer, 1 request a minute, 11 minutes; 3 codes, 3 instants; image requests of every encoding, all versions | limiter, gate, listing, schema, readable symbols, renders end |
| `cache_overtaken` | 2 workers, 1 alias | **violation**: "visible on the very next scan" does not hold |
| `pg_commit_lost` | as `pg`, 1 call | **violation**: "nothing was written" does not hold |

Bounds. Three ids allow a short code to be held, released, re-registered and deleted while another
code races for it; two short codes separate "the other key" and let batches deadlock; two users
are needed for ownership and for refs that may coincide. A request whose update would pass the
bound on versions waits. Two workers suffice for every race named in the hazards, each of which is
between two requests; Postgres gets three, for a waiter behind a deadlock. The last-write-wins
loop needs `MaxVersion = 4` so that one update can lose all three attempts. The generator has one
code to draw, so that collisions happen; `GenerateAttempts` is 2 so that both the retry and giving
up are reached. `service_scan` has no fault of its own: a client that leaves makes every later
call of its request fail, a scan, an update and a state change end at their first failed call, and
a crash takes the cache with it. A TTL of 1 would hide an entry kept alive by hits. `front` runs
past the ten minutes after which a bucket is forgotten; `LimiterExact` is the same claim for every
rate. In `auth` the clock outlasts a TTL and a flight after a revocation. In `data_dir` one
trouble (failed call, kill, power loss) is enough for each hazard named; the mutants show that the
races of two processes are reached. Two transactions during an export are what it takes to miss an
owner (a user joins, then creates a code); the cuts are a torn `codes.jsonl` and a missing
reservations file. Where a bound stops the instance (`store`, `scan_recorder`, `export_import`,
`pg`, `auth`, `analytics`, `front`) deadlock is not checked.

Fairness. `ServiceSpec` is weakly fair on `Tick` only: time passes; no request is obliged to
finish. `RecorderSpec` is weakly fair for each worker: goroutines are scheduled, the ticker
fires and `FlushTimeout` bounds a flush. `AnalyticsSpec` is weakly fair for the retention loop,
which runs for as long as the instance is up. `DataDirSpec` is weakly fair for a process's next
step, for the supervisor's restart and for the end of a drain, which has a budget. `FrontSpec`
is weakly fair for the render worker and for a select that is ready. Failures, kills, clients
and the operator are never obliged to act, except that troubles are finitely many.

### What the runs show

* `cache_overtaken`: a cold scan reads the row, a mutation commits and invalidates, the scan
  stores its answer (`service.go:955`). The next scans see the old destination.
  `StaleHasCause` shows that the only other cause, once a mutation is over, is a `SetState`
  whose re-read failed after its commit (`service.go:910-913`; the client hung up, say), and
  `StaleEntriesExpire` that the TTL ends both.
* `pg_commit_lost`: `CreateBatch` reads every error as "nothing was written"
  (`service.go:771-772`) and removes the images; a connection lost during COMMIT leaves rows
  without them. With a store that commits or fails, `RowHasImage` holds.
* `NoOrphanWithoutTrouble` is as far as "every blob it wrote is removed" (`service.go:517`)
  goes: losing a race leaves no object behind. `removeBlobs` gets the context of the request, so
  when it is the end of this context that made the creation fail (the client hung up between two
  of its writes), the driver refuses each Delete and the objects stay without a row, with no
  store or disk at fault. The property says nothing of that case, nor of faults and crashes;
  nothing printed depends on it.
* `ImportFailureHasCause` names the three archives that do not replay although `Write` produced
  them. One with a released and re-registered alias: the first code recreates the reservation
  and the second is refused. One that lacks the owner of a code, because the user's row was
  created between the walks of users and codes. And one that is cut off. Conversely an archive
  cut exactly between two entries is imported without an error and without the rest:
  `Read` never compares what it got with `Manifest.Entities` (`manifest.go`), so
  `ImportRestores` is stated for whole archives.
* `RevocationLapses` and `SessionLapses` hold with `CacheTTL + MaxFlight`: the TTL counts from
  the put, not from the read, so the bound of `authenticator.go:25-26` is exceeded by the time a
  request takes between the two.
* `AckedSurvives` has one exception, visible in the module: a freshly made shard directory is
  not synced into its parent, so a power loss may take it away with an acknowledged object,
  until the kernel has written it back. The per-key lock is in-process only: two server
  processes on one directory may interleave their renames, and are not modelled as both serving.
* `SomeoneServes` has one exception as well: an empty key file, which every start refuses until
  the operator deletes it. `EmptyKeyHasCause` names what can leave one: a kill or a power loss
  before the secret is on disk, or a write that fails on a disk that refuses the removal of the
  file as well, as `LoadOrCreateSigningSecret` drops the error of `os.Remove` (`secret.go:81, 85`).
  If that write was a short one, the file keeps the beginning of the secret, and later starts
  sign with that. `OneSecret` excepts the opposite case: the creator's write or close fails after
  it has put a secret in the file, another process loads it, and the removal succeeds.

Read while modelling and not a property: the console's comment that without an If-Match "the
caller falls back to last-write-wins" (`console/handler.go:511-512`) is not what its adapter
does (it reads the version and gets a 409 when it loses); the console's token form takes an
expiry it cannot parse for none, and one in the past; `ephemeral.rate_limit_per_minute` is not
validated, and `RateLimiter` assumes at least 1.

## 4. Proofs

The theorems below hold for every value of the constants: any number of workers, processes,
peers and codes, every TTL, batch size, rate and window. TLC has checked each of the properties
on the instance of section 3 first.

| Module | Theorem | Statement |
|---|---|---|
| `CodeStoreProofs` | `StoreTypeCorrect` | `StoreSpec => []TypeOK` |
| | `NamespaceGuardsAgree` | `StoreSpec => []LiveHoldsReservation` |
| | `LookupsAreUnambiguous` | `StoreSpec => []LookupsUnambiguous` |
| | `RowsMoveForward` | `StoreSpec => RowsOnlyMoveForward` |
| | `NamespaceNeverHijacked` | `StoreSpec => NoSilentHijack` |
| | `StoreImplementsNamespace` | `StoreSpec => ImplementsNamespace` |
| `CodesServiceProofs` | `ImageTheorem` | `ServiceSpec => []RowHasImage` |
| | `OrphanTheorem` | `ServiceSpec => []NoOrphanWithoutTrouble` |
| | `AnswersTheorem` | `ServiceSpec => []AnswersAreTrue` |
| | `StaleTheorem` | `ServiceSpec => []StaleHasCause` |
| | `LosersTheorem` | `ServiceSpec => []LosersWereOverwritten` |
| | `ServiceKeepsNamespace` | the store's action properties and its refinement of `AliasNamespace`, of `ServiceSpec` |
| `AuthProofs` | `RevocationTheorem` | `AuthSpec => []RevocationLapses` |
| | `SessionTheorem` | `AuthSpec => []SessionLapses` |
| | `IdentityTheorem` | `AuthSpec => []OneIdentityPerEmail` |
| | `AgreementTheorem` | `AuthSpec => []CredentialsAgree` |
| `DataDirProofs` | `SecretTheorem` | `DataDirSpec => []OneSecret` |
| | `EmptyKeyTheorem` | `DataDirSpec => []EmptyKeyHasCause` |
| | `PreparedTheorem` | `DataDirSpec => []PreparedOnce` |
| | `PairTheorem` | `DataDirSpec => []PairAgrees` |
| | `AckedTheorem` | `DataDirSpec => []AckedSurvives` |
| `PgStoreProofs` | `PgImplementsTheorem` | `PgSpec => ImplementsStore` |
| | `PgRefusalsTheorem` | `PgSpec => RefusalsAreTrue` |
| | `PgTablesTheorem` | `PgSpec => Store!StoreSpec` |
| `ScanProofs` | `AccountedTheorem` | `RecorderSpec => []EveryEventAccounted` |
| | `UnflushedTheorem` | `RecorderSpec => []UnflushedIsTrue` |
| | `WindowTheorem` | `AnalyticsSpec => []WindowKept` |
| | `RollupTheorem` | `AnalyticsSpec => []RollupsCountHistory` |
| | `AnalyticsAnswersTheorem` | `AnalyticsSpec => []AnswersMatchHistory` |
| `ExportImportProofs` | `ImportRestoresTheorem` | `ExportSpec => []ImportRestores` |
| | `ImportFailureTheorem` | `ExportSpec => []ImportFailureHasCause` |
| `FrontProofs` | `LimiterExact`, `GateLimiterTheorem` | `LimiterSpec`, and `FrontSpec`, `=> []LimiterIsExact` |
| | `GateTheorem` | `FrontSpec => []GateHolds` |
| | `ListingTheorem` | `FrontSpec => []ListedOnce` |
| | `SchemaTheorem` | `FrontSpec => []AnswersFollowSchema` |
| | `SymbolTheorem` | `FrontSpec => []SymbolReadable` |

Assumptions. `StoreAssumption`, `ServiceAssumption`, `CacheAssumption`, `AuthAssumption` and
`StartupAssumption`: "no value" constants lie outside the sets they extend, and bounds are
numbers. `RecorderAssumption`: finitely many workers, at least one. `RateAssumption`: rates and
costs are positive. `CodeListAssumption`: a page holds at least one row (`sqlite.go:621-624`
replaces any other limit). `RequestsAssumption` and `BoundsAssumption`: the fields of an image
request have their JSON types, and the instance's limits are positive. `AnalyticsAssumption`:
window, hour, day and prune batch are positive. `PgAssumption`: "no value" constants, batches that
are not empty, versions counted from 1, and the bound on versions above that on calls.
`ExportAssumption`: the operator is a user, and bounds are numbers. `SymbolsAssumption`: versions
1 to 40, and rows whose `dark` and `finder` cover each of their modules. TLC evaluates all of them
in the runs.

### The store

The inductive invariant is `StoreInv == TypeOK /\ LiveHoldsReservation /\ ClientRefUnique`.
`LookupsUnambiguous` alone is not inductive: that no two rows are selected for a short code needs
both that a live row holds the reservation of its short code, and that a reservation names a
row that carries the short code, which is `LiveHoldsReservation`. Lemmas say what a successful
insert, update, state change or release implies for the state before (`InsertOk`, `UpdateOk`,
`SetStateOk`, `ReleaseOk`); the three kinds of step (a row is amended in place, rows are
created, a reservation is released) each have a lemma that they preserve the invariant. For the
refinement, an insert is mapped to `Claim` of the batch's short codes, a deletion of a live
code to `Retire`, a release to `Release`, and every other step to a stutter.

### The Postgres driver

`PgInv == PgTypeOK /\ CallsCounted /\ \A p : TxOK(tx[p]) /\ \A p, q : p # q => Apart(tx[p], tx[q])`.
The refinement maps the committed tables to `CodeStore`'s, and everything a transaction has done
to nothing at all until its commit. What has to be shown is that the commit is then one
transaction of the store, although each of its statements was evaluated against an earlier state.

* `TxOK` says what a transaction may rely on at each of its statements: what it has written, under
  which lock, and which guard of the store is already decided. A guard that has been checked
  stays true until the commit because the row it read is locked, or because a key of a unique
  index that is in hand makes every other insert wait.
* `Apart` is that exclusion: two transactions never have the same row, reservation, id or index
  key in hand. With it another's commit cannot disturb what `TxOK` says of this one.
* `CallsCounted` bounds versions by the calls begun, so a step is never enabled or refused for
  `CodeStore`'s bound.

`ImplementsStore` names the disjunct of `CodeStore`'s next-state relation for each commit, so the
driver's tables satisfy `Store!StoreSpec` (`PgTablesTheorem`), and what `CodeStoreProofs` shows of
`StoreSpec` is true of them. `PgRefusalsTheorem` needs the other half: a transaction that is
refused has seen committed rows only, since it waited for whoever had the key in hand.

### The service

`ServiceInv == CreationInv /\ UpdateInv /\ FreshInv`, one part per question.

* `CreationInv` contains `StoreInv` and says what is true of an item at each stage of the
  pipeline (`ItemOK`: a ready item has its object and no row, an inserted one has both), that an
  id under way belongs to one item of one request (`IdsPrivate`), and that the items of a batch
  are inserted together or not at all. `RowHasImage` needs the second: the undo of a loser
  removes blobs by id, and harms no row only because no other request has that id. For
  `NoOrphanWithoutTrouble` every object is accounted for: it has a row, or an item that will
  insert or remove it, or something failed (`BlobsAccounted`).
* `UpdateInv`: while an update without a version is trying, the row's version is at least its
  first reading plus the attempts it has lost. `LosersWereOverwritten` follows at the last one.
* `FreshInv`: a scan between its read and its cache write holds what the store says, or a
  mutation has yet to invalidate, or the scan is in `overtaken`. Without this clause about
  scans in flight, `StaleHasCause`, which is about the cache, is not preserved by the write.
* `ServiceKeepsNamespace` carries the store's theorems over: each step makes one of `CodeStore`'s
  transactions, with arguments of their types, or leaves `codes` and `reservations` alone.

### Authentication

`AuthInv` bounds the age of what the caches hold: an entry for a dead credential was put no
later than a flight after its death, because the read it came from was earlier (`TokenCacheOK`,
`UserCacheOK`, and for requests between read and put `RequestOK`). `RequestOK` also follows a
request through `resolve`: past the bearer step, the identity it carries is the token's, and
past the cookie step it agrees with the session's; that is `CredentialsAgree`. `EmailsUnique`
is what the unique index leaves to racing provisions; `RowsInOrder`, that tokens and sessions
belong to users and that no revocation lies in the future.

### Data directory

Three invariants that share no variable but `proc`. `KeyInv`: at most one process is between the
exclusive creation of the key file and its close or removal, and a process that goes on has the
secret of the file, unless a secret was removed with its file (`withdrawn`). A failed write or
close leads to a step of its own, the removal, which may fail; until it is over the file that
others may be reading is there. `StoreInv` (of this module): what a process past a start-up step
knows of the database (`PreparedOK`). `BlobInv`: one caller holds the key's lock; what it has done
to the two names so far (`HolderOK`); and after an answer, the disk can show nothing but what was
answered. The last clause makes `AckedSurvives` inductive: the property speaks of the files, a
power loss picks from what the disk may show.

### Scan recorder and analytics

`RecorderInv` has the two sums the code keeps by hand: `inflight` is the total of the workers'
batches, and recorded events are the queued, the held, the persisted and the dropped ones. A
total is the size of `{<<w, i>> : i \in 1..f[w]}`, so one worker's change moves it by the
difference, by the library's theorems on cardinality and without induction. `RoomLeft`: a
worker that may receive has room for one more. `LastOnes`: a worker on its way out found the
channel closed and empty, and has nothing left when it exits; so after a clean `Close` nothing is
pending.

`StatsInv`: scans are numbered, the buffer and the history are disjoint, a prune's cutoff is never
later than the present one, and each rollup row counts the scans of its code, hour, dimension and
value in the history, pruned or not. The last is `RollupsCountHistory`: a batch that adds to an
existing row adds the number of its own scans, which no other batch holds. An answer then sums
rows, and the property counts scans: `SumOfSizes` says that the numbers of members of disjoint
finite sets add up to that of their union, by an explicit bijection and again without induction,
and `RowsOfScans` that every scan of the range lies in one row of the total and in one of each
breakdown.

### Export and import

`ExportInv == ExportTypeOK /\ SourceInv /\ FilesInv /\ SnapshotInv /\ TargetInv /\
ImportFailureHasCause` follows a row from the source through the files into the target.

* `SourceInv`: the walk lists each row once; its short code has a reservation row and its owner
  exists; and until a first release each code holds its own short code (`NoneReleased`). The last
  is why an archive without releases replays: no two of its lines have one short code.
* `FilesInv` says the same of the files among themselves, which is all that the import has to go
  by. `SnapshotInv` ties them to the source for as long as nothing `joined` or `moved`.
* `TargetInv`: after `next - 1` lines the target holds these and nothing else (`Replayed`), in the
  states the file gives (`InState`), except for the one code that is live for a moment before
  its second call deletes it. The reservations are released at the end, and only those the
  file has as released.

A line is then refused only if an earlier one has its id, its short code or its `client_ref`, or if
its owner is missing, and each of these contradicts `FilesInv` or is one of the three reasons of
`ImportFailureHasCause`. `ImportRestores` follows because a replay that ends well has no two
codes with one short code, so that what holds a short code is decided by its line.

### The request side

`FrontInv == LimiterInv /\ GateInv /\ ListInv /\ ImageInv`, and `SymbolInv` for the picture.

* `LimiterInv`: a bucket that is refilled on demand, capped and evicted when idle holds at every
  instant what one kept up to date would. It adds types and that a last refill is not in the
  future; eviction preserves it because an idle minute has refilled the whole burst.
* `GateInv`: a browser that holds a dead cookie has not been refused with it yet.
* `ListInv`: what was shown lies before the cursor, and a code that stays and was not shown
  lies past it. That a page with rows has a last one is the least-number principle
  (`NatLessThanWellFounded`), applied to the rows' positions.
* `ImageInv`: a worker's result is the one its request determines (`Settled`). The main lemma is
  about operators only: `Acceptable`, the schema's verdict, equals "parsed and renderable",
  which is what the handlers and `Prepare` compute by a chain of early returns.
* `SymbolInv`: what is drawn is a symbol of the version the encoder picked, at the level and with
  the logo that `Prepare` settled on. The rest of `SymbolTheorem` is about operators. `HoleFits`:
  there is an integer root for what any version holds, and the hole made from it is odd, clear
  of the finders and within the level's budget, also where it is rounded up to three modules.
  `EdgesInside`: the pixels. `RowsDrawnOnce`: the recursion of `computeGeometry` has a solution
  for every row (`DrawExists`), and from any module on it covers each dark module by one shape
  (`DrawCovers`); both go backwards from the end of the row by the least-number principle.

### What the proofs found

Two operators were `CASE` expressions whose arms overlap (`Method` in `Gate`: a dead cookie
together with a bearer token; `ServeAnalytics`: a bad range on an unknown code). TLC takes the
first arm that holds, TLA+ allows any, and the code has an order: both are `IF` chains now.
`Acceptable` took 512 for an acceptable default size whatever the instance allows, which is
wrong where `max_px` is below 512; the run's instance allows 512 and could not tell.

### Only model-checked

* Liveness, which is beyond the installed provers: `StaleEntriesExpire`, `EventsSettle`,
  `CloseDrains`, `OldEventsGo`, `SomeoneServes`, `RendersEnd`.

These are the only properties of the passing runs without a theorem: each invariant and each
action property is proved. The two violations are TLC's, and refute what they state.

## 5. Plan

Done: the store, its abstract specification, cache and service, recorder, archive, the Postgres
driver, authentication, startup and blobs, analytics, the request side; and the proofs of all
their safety properties. What could be added: the styling profiles' tables once a handler writes
them, the lazily written `last_used_at`, a `ScanRecorder` whose store may lose the outcome of a
commit, and two server processes on one blob directory. The liveness properties wait for a
prover that handles fairness.

## 6. Not modelled

Configuration, metrics and health endpoints, password hashing, templates and the S3 client:
stateless, pure I/O, cryptography or an external service. Of rendering: colours, antialiasing,
SVG text and the encoder library. The characters of an alias (its validity is one verdict).
Several server processes that share one database are outside the model of the resolver cache
(the code documents the TTL as the backstop there). The conformance suites of the drivers and
their in-memory stand-in are test code. The data rewrites inside migrations 0002 and 0003.
