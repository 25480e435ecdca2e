# A verification project for sqlink

sqlink runs SQLite extensions that are WebAssembly components: a host loads
components, registers what they export on a SQLite connection and dispatches
calls back into them; extensions, compiled code and named sets of extensions
are kept in SQLite databases that several sqlink processes use at once.

This directory holds TLA+ models of the parts of it whose correctness depends on
interleavings, failures and long sequences of calls, the TLC configurations that
check them on small instances, and TLAPS proofs for every value of their
constants. The code is the reference; paths below are relative to the
repository. `PROJECT.json` maps every definition to the lines it models and
lists the runs, the mutants, the hazards and the theorems.

Running it:

    tlc -workers 2 -config CasStoreShared.cfg MCCasStore
    tlapm CasStoreProofs.tla

## Inventory

| Component | State | Operations | Talks to |
|---|---|---|---|
| Content-addressed store (`sqlite-cas-cache/src/store.rs`, `host/src/cache.rs`) | `__cas_artifact`, `__cas_uri`, one connection and its cached statements per process | put, set_uri, resolve_uri, get by blake3 or sha-256, has, delete, gc, purge, evict_lru, merge | every process that has the file open; the host's loader |
| Schema installer (`store.rs`, `schema.rs`) | version row, tables of versions 1 to 4 | bootstrap, read version, migrate, install, retry | every process that opens the file |
| Bundle registry (`bundles.rs`, `bundles_exec.rs`) | bundles, members, aliases, baked binaries | save, add and remove alias, delete, gc, record binary, launch | same database; the bundle commands |
| Host extension registry (`host/src/lib.rs`, `prefix_registry.rs`) | providers, manifests, bridges, records of registrations, hook owners, prefixes | load, register six kinds of things, unload, unregister, auth log, open | shared connection; dispatch |
| Compiled-component cache (`host/src/component_blob_cache.rs`, `lib.rs`) | in-process LRU (C1), table `_component_cache` (C2), `~/.sqlink/cache-hmac.key` | lookup, compile, store, evict, purge, create the secret | every process with the same database or home directory |
| Virtual-table bridge (`host/src/vtab.rs`, `dispatch_vtab_*` in `lib.rs`) | ids of instances and cursors, row blocks of cursors, the component's own tables | SQLite's module callbacks, block fetches, transactions, savepoints | SQLite, dispatch |
| Resident and composed providers (`host/src/compose_provider.rs`, `*_resident.rs`, `wasmos_*_imports.rs`) | one warm store behind a mutex per provider, shared endpoints for requests, sessions | load, invoke, nested calls, loads from inside a call, requests | dispatch, the network |
| Trust policy, tenants, statements (`lib.rs`, `compose_provider.rs`) | the policy, the provider table by tenant, language runtimes, numbered statements | register, resolve by id, digest or URI, prepare, step, finalize | loader, openssl component |
| Source resolvers (`store.rs` `fetch_artifact`, `resolver.rs`) | list of sources | fetch and bind to a uri | store, files, network |
| Loadable extension (`sqlink-extension/src`) | process-wide Host, module globals, id counters, what is registered per connection | attach, load, scalar, aggregate, window and table callbacks, value conversion | stock sqlite3, Host |
| HTTP server (`sqlink-httpd/src`) | one connection behind a mutex, a routes table in the same database | start-up, route lookup, body, handlers, `/sql` | clients, other processes with the file |
| Browser loader (`browser/src`) | loaded extensions, worker protocol, OPFS | load, run | JavaScript |
| VFS in C, CLI, parsers, bindings, sites, tooling | | | |

What is hard here:

- *Several processes, one file.* The stores' operations are sequences of SQL
  statements, nearly none of them in a transaction, and sqlink processes come,
  go and die at any statement.
- *Cached statements.* `with_stmt` resets a statement before its next use, not
  after the current one, so a SELECT that found a row keeps its connection's
  snapshot. Half of what the store guarantees rests on that, and half of what
  it fails at.
- *Records that must describe something else exactly.* The host keeps its own
  lists of what it installed on a connection; names are changed by collisions,
  registrations fail, connections are replaced, versions succeed each other.
- *Look, work for seconds, then write.* Loads, bakes and evictions act on what
  they read before.
- *Old files.* Migrations run concurrently, on files of any age, and may be cut
  short.
- *Callbacks with nowhere to put an error.* xEof, xCommit and xRollback cannot
  fail as far as SQLite is concerned; the code behind them can.
- *One guest, many users.* Connections, dispatches and clients share stores,
  statements and counters that were made for one of them, and an extension may
  be loaded again while somebody is in the middle of it.
- *Locks held across calls.* A resident stays locked while its guest calls other
  providers; a statement waits for the connection with the statement table
  locked.

What makes each component correct: the store never has a name without its
content and never answers untruthfully; an opener finds the schema it needs; a
bundle means one set of extensions for as long as its name exists; nothing on a
connection calls into an extension that is gone or into another version of it;
only code compiled here, from these bytes, is executed, and caches stay within
their limits; a scan gives the rows of its table once and in order, and SQLite
commits only what the component synced; a provider keeps its memory, sends only
what its load was granted and runs only code its policy accepts; connections
that share a Host do not see each other's groups, tables and cursors; an HTTP
client is told the truth about its write. `PROJECT.json` lists the hazards one by one, at their lines.

## Modules

| Module | What it is |
|---|---|
| `SqliteConn` | external: what the store relies on in SQLite (WAL mode): a statement is atomic, an open SELECT or BEGIN pins a snapshot, a write from an old snapshot is refused at once |
| `CasStore` | the content-addressed store, statement by statement |
| `BlobCache` | what the store promises: every operation is one instant |
| `SchemaInstall` | opening the file: retry loop, migrations |
| `BundleRegistry` | the bundle tables and their operations |
| `BundleAlone` | the same with the choice whether one process works alone |
| `HostRegistry` | loading, registration, routing, unloading |
| `ComponentCache` | both tiers of compiled code and the secret |
| `VtabScan` | what a cursor promises: the rows of the table once, in order, or a failure |
| `VtabBridge` | the host's virtual tables: callbacks, ids, blocks, transactions |
| `Residents` | residents, nested calls, loads and requests of providers |
| `Providers` | trust policy, tenants, resolution, runtimes, fetches, numbered statements |
| `LoadableExtension` | the library that stock sqlite3 loads |
| `Httpd` | the HTTP server over one connection |
| `MC*` | instances for TLC |
| `*Proofs` | theorems |

**CasStore** extends SqliteConn. `db` is the committed content (`art`, `sha`,
`uri`), `snap`, `pins`, `txn` are the state of each connection; `pc[p]` is the
statement process p runs next, `uri` and `key` its arguments, `ret` how its last
operation ended. There is one action per statement: `put` then `set_uri` for
`Cache::put`, `resolve_uri`, `touch_uri`, `get`, `touch_get` for a lookup by
name, and eight for `evict_lru`. A statement that finds a row pins the snapshot;
the same statement's next use releases it. `Exit` drops a process at any
statement.

**BlobCache** is the abstract specification: names refer to blobs that are
there, blobs may vanish with their names, a lookup may fail but does not lie.
`ImplementsCache` is the refinement, with `rows <- db.art`, `names <- db.uri` and
the answer read off `ret`, `uri` and `key`.

**SchemaInstall** has one step per batch of `install_schema` and one for reading
the version. A refused batch, or one whose statement fails, leaves its
transaction open (`intxn`), as SQLite does.

**BundleRegistry** has one step per statement of `bundle_save` and the others;
`DeleteCascade` is ON DELETE CASCADE; row ids are reused after deletions, as
SQLite's are without AUTOINCREMENT. **BundleAlone** adds the variable `alone`, chosen
at the start: some promises hold only for a process that nobody disturbs.

**HostRegistry** describes one host and its client. A load fills the routing
tables and starts a job whose items (`Rank` orders them) are registered one by
one by `install_provider_backed_on_shared_conn`; any of them may be refused.
`.unload` is `unload`, then `unregister_extension`: the client (the CLI's
command) makes both calls, and loads another version of an extension only
after that; the same artifact may be loaded again at any time. `sql` maps
SQL names to what was registered there; a name that was taken off again stays as
`Removed`, which `function_exists` does not report, as `pragma_function_list`
does not.

**ComponentCache** runs several loads per process; the connection of a process is
locked from a store to the end of its eviction, other processes are not.

**VtabBridge** has one action per callback of `vtab.rs`. A store is the memory of
one load of the extension: `backing`, `dynlink` and `mutating` say which store
each kind of call is routed to, and the `try_bridge_vtab_*` and `dispatch_vtab_*`
operators choose it as the code does. `registry` and `batch` are the id tables
and the row blocks of the bridge; `cursor`, `txn`, `part` and `todo` are SQLite's
side, which calls in the order of its virtual machine and ignores what xCommit
and xRollback return. Every call of the component may fail, trap the store, or
be refused because the store does not know the id. `view` is what the writers
were told, and `want`/`got` of a cursor what its scan should give and gave.

**VtabScan** is the abstract specification of a scan. Two modules implement it:
`VtabBridge` (`ScanRefines`: the table is the rows of `view`, the scan read off the
cursor's phase) and `LoadableExtension` (`ScansAsPromised`: the cursors and tables
of all connections). `hurt` is the one permitted loss: a call whose failure SQLite
cannot be told of.

**Residents** keeps a stack of calls per dispatch. `Acquire` takes the lock of a
resident, `Instantiate` makes its store once, `Return` writes the guest's memory
back, `Trap` leaves the store dead; in between the guest uses the surfaces it
imports: nested calls (`resolve_and_invoke`), loads, requests through the shared
endpoints, its connection and its sessions. A request that leaves is recorded
with the extension it was made for, and compared with what the operator granted.

**Providers** gives every client a program of calls and one step per critical
section or await: reading the file, reading the policy, reading the sidecar,
loading the verifier, checking the signature and registering are steps of their
own. `locks` are the connection, the statement table and the verifier.
`fetch_artifact` tries its sources one after the other.

**LoadableExtension** gives every connection a program of statements. `HOST` and
`GLOBALS` are the two statics, filled by whoever comes first; `guests` are the
loads, each with its accumulators, instances and cursors under the ids that the
trampolines made up. `read_value`, `sqlval_to_cbor`, `cbor_to_sqlval` and
`write_result` are the conversions on the kinds of cells they tell apart.

**Httpd** makes what happens under one hold of the mutex one step: the look-up of a
route is one, its handler another, the body is awaited in between. SQLite's
rollback-journal locks are `conn.lock` and `other`; a statement is refused when
another process has the file, as no busy timeout is set.

**Composition.** Components meet in shared state: BundleRegistry and CasStore in
the file SchemaInstall opens; Providers' `cache` is CasStore seen through
BlobCache (a name, its blob, both may vanish); Residents takes the registration
Providers checks; VtabBridge and LoadableExtension implement one VtabScan.

## Runs

| Run | Shows |
|---|---|
| `cas_shared` | two processes work by name (put, look up, import, purge, evict) or by digest (put, both look-ups, delete, over rows without a sha-256) and exit: `UriIntegrity` in the file and every snapshot, look-ups never miss a blob (`NeverMissing`) and are true when they return (`HitIsCurrent`), a transaction stays open only in a session whose snapshot is old (`OpenTxnIsStale`), and CasStore implements BlobCache |
| `cas_returns` | `OperationsReturn`: every operation returns; an eviction once it is left alone |
| `bundle_shared` | two processes, killed anywhere: `NoOrphans`, `AliasNeverRebinds`; and one undisturbed process with any sequence of calls: `ExactWhenAlone` |
| `schema_open` | two openers of a file of any version: `OpenHasSchema`, `OpenersSucceed`, `OpenersFinish` |
| `host_registry` | three extensions in five artifacts, loads, failures, unloads and opens in any order: `NothingLeftBehind`, `RunsItsOwnVersion`, `PrefixIsItsOwn`, `ManifestsHaveRoutes`, `ScalarNamesKept` |
| `component_cache` | two processes and three loads: `RightCode`, `KeysAgree`, `CachesBounded` |
| `vtab_bridge` | two statements scan, or transactions write while the extension is loaded again, with one failure of the component: `ScanRefines` (rows once and in order), `ScanEnds`, `TablesInStep` (ids and blocks on every error path), `CommitIsSynced` |
| `residents` | two dispatches with nested calls, loads inside calls and one failure: `StateIsKept`, `EgressWasGranted`, `RegisteredHasAnswered`, `EveryCallReturns` |
| `providers` | `OnlyTrustedCode` whatever is swapped between reading, judging and compiling; `ResolvedAsAsked`; `OwnRows` of clients that share the statement table; `EveryCallReturns` |
| `loadable_extension` | two connections race to attach and load, then aggregate, scan, write and convert: `RegisteredIsLoaded`, `GroupsApart`, `TableAsTold`, `ScansAsPromised`, `CellsSurvive` |
| `aggregate_ids` (violation) | the ids that register.rs:154 calls unique are not: two connections add into one accumulator |
| `http_server` | two clients, another process and a kill: `AnswersAreTrue`, `AllOrNothing`, `AnsweredInTime` |

Three modules choose what the processes do with a variable of their own that
never changes: `program` in `MCCasStore` and `MCVtabBridge`, `alone` in
`BundleAlone`. One run then covers instances that would be too large
together.

Each property of a passing run has a mutant, a plausible wrong version of one
definition under which TLC finds the property violated. The type invariants
(`TypeOK`) are not in the configurations: they are theorems or parts of proved
invariants, but for those of VtabBridge and Httpd, which serve a reader and the
proofs to come.

Five definitions state a sentence of the repository that the code does not keep
and are in no configuration; adding one to the configuration named shows it:

- `NobodyTurnedAway` (CasStoreShared.cfg): after one lookup of its own and one
  commit of anybody else a session's writes are refused, for the rest of the
  session; `with_stmt` (store.rs:238) against cache.rs:13.
- `SaveStoresMembers` (BundleShared.cfg): a save that was killed is never
  completed; bundles_exec.rs:227 against bundles.rs:92 and :103.
- `MigrationKeepsBundles` (SchemaOpen.cfg): the migration from version 3 loses
  members and aliases; schema.rs:208 with `foreign_keys = ON` against schema.rs:30.
- `TearsDownItsOwn` (HostRegistry.cfg with `UnloadsBeforeOpen = FALSE`): after
  `.open`, unloading one extension removes another's function;
  wasmos_spi_imports.rs:349 against lib.rs:3944.
- `SecondLoadIsNoOp` (Residents.cfg): loading a second sub-extension that shares a
  prebuilt registers the provider again, with a new store, although the comment
  in `load_extension` calls the second load a no-op.

### Bounds

- CAS: two processes, two blobs of different size, one uri, a target that one
  blob exceeds. A process meets another only through the file, so two show
  each interleaving of a pair of statements; two blobs are what rebinding
  and eviction need.
- Bundles: two sets that share an extension in two versions, two or three row
  ids so that ids are reused, one or two names.
- Schema: two openers, all start versions 0 to 5, two retries instead of 60:
  the third only repeats the second.
- Host: five artifacts of three extensions, with equal scalar names, a scalar
  named as a built-in, colliding prefixes, one extension that meets a locked
  database, two database files, three loads (`MaxLoads`); two versions and
  a third party are the most the properties relate. `FallbackLimit` is 3
  alternatives, more than there are claimants.
- Component cache: two hosts, two loads in the first, two digests, one secret
  more than is ever kept, a limit that holds either artifact but not
  both, capacity 2 and 0, a row left by another machine.

- Virtual tables: a table of two rows in blocks of two and a table function read
  row by row, so that a block is full, short or empty; two cursors; when writing,
  three stores (the old, the new and a bridge), one insert, one savepoint, one
  fault. A scan of more blocks repeats the refill, a second insert the first.
- Residents: five extensions that are one of each shape (`MaxCells`, `MaxOps` 4,
  `MaxFaults` 1): a tool that loads, one that sends, one per-call component,
  and a bridge with the provider it shares. Two dispatches are what a lock needs.
- Providers: three clients, two contents, one file, two tenants, two keys; the
  programs pair each kind of call with each thing that may change under it.
- Loadable extension: two connections, a provider and a bridge, two groups or
  cursors per statement, every kind of cell, one fault.
- HTTP: two clients, three requests, six routes that differ in priority, length,
  kind and status, a file with no, an old and a current table, one
  transaction of another process, one kill. All three requests in flight or in
  one transaction is the most the properties relate.

Symmetry over processes (and over the two loads of one host, and the secrets) is
used where no constant tells them apart and no
liveness property is checked.

### Fairness

- `CasStore`, `SchemaInstall`: weak fairness of the next statement of a process: an
  operation that has been called runs on its own thread and waits for nobody
  (SQLite's busy handler returns after its timeout). Nothing is assumed of
  calls, starts or exits.
- `VtabBridge`: weak fairness of the loop xEof, xColumn, xNext of a cursor: the
  virtual machine that runs a statement runs it on. Nothing is assumed of
  failures, loads or of SQLite filtering a cursor again.
- `Residents`: weak fairness of each dispatch's step, whatever it is: the runtime
  drives every task that can go on, and waiting for a mutex is not a step.
  The guest uses its imports finitely often (`MaxOps`) and then returns; a guest
  that loops for ever is outside the claim.
- `Providers`: weak fairness of a call that is under way; calling is up to clients.

The other modules have no fairness and no liveness property: an HTTP request
waits for a body that may never come, and a statement of sqlite3 may be left
unfinished by its program.

## Proofs

All theorems hold for any sets and limits the named ASSUMEs allow. Each module
proves an inductive invariant, which TLC checked on a run's instance before, and
draws the checked properties from it.

- **CasStoreProofs**: `Inv` adds to the types and the foreign key what is known
  between two statements of a lookup, for each process: the SELECT that found
  the row is still standing (`Witnessed`), so the row is in the process's view;
  an old snapshot is consistent and held by something (`ViewOK`). The touch
  that ends a lookup commits only from a current snapshot, which is why a hit
  is true of the file at that moment (`HitIsCurrentHolds`), and the second
  SELECT of `resolve_uri` cannot miss (`NeverMissingHolds`). From the same
  invariant every step maps to a step of BlobCache or a stutter
  (`ImplementsCacheHolds`); `NotToldYet` says that a call still under way has told
  its caller nothing, so that what the earlier statements read is not seen.
- **BundleRegistryProofs** holds two proofs about the cache file. Opening it:
  `InstallInv` says what an opener that has read a version may still assume,
  whatever others did since: the column is there, the file is fresh or current,
  the version row speaks the truth. Its bundle tables: `RegistryInv` for the tables and jobs, from which
  `NoOrphans` and `AliasNeverRebinds`; `AdditiveInv` for `RowsMatchHashHolds`,
  which assumes that nothing deletes (row ids are then never reused) and holds
  for any number of processes killed anywhere; `AloneInv` for
  `ExactWhenAloneHolds`: every row but the one being saved is complete, and what
  the call under way has read is still so, because nobody else writes.
- **HostProofs**, two components of the host. Its registry: `HostInv`: what is installed comes from the artifact
  now loaded under its extension's name (`FromCurrent`) and is in the list
  that `unregister_extension` walks (`Recorded`, `HooksOwned`). Without
  `Recorded` an unload could leave something of an old version behind, and
  `FromCurrent` would break with the next load. Two smaller invariants give
  `ManifestsHaveRoutes` and `PrefixIsItsOwn`. `ScalarsInv` (names on record are
  installed for their owner, none is a built-in's) gives `ScalarNamesKeptHolds`
  under two hypotheses: the client unloads before it opens (`UnloadsBeforeOpen`),
  and a collision-free name is left (`FallbackLeft`), because after
  `FallbackLimit` alternatives the code takes the bare name after all.
  The compiled-component cache: `CacheInv`: the secret's file is short while it is
  written and only one load writes it (`OneWriter`), so whoever has a secret
  has the one in the file (`KeysAgree`). `TierInv` follows one piece of code from
  the compiler through both tiers (`TasksRight`, `RowsRight`, `QueuesOK`): what a
  load holds after it compiled or unsealed is the compilation of its digest by
  its engine (`RightCode`). `LimitKept` says that the table is over its limit only
  while an eviction is under way or after one was cut short (`CachesBounded`); it
  rests on lemmas about the total size, a fold over the rows.
- **ProvidersProofs**: `TrustInv` says what a registration knows at each step: the
  bytes it will compile are those it judged, the policy it judged them by was in
  force during the call, the signature lay beside the file (`Judged`); what a
  client holds names its own tenant and its own hash. `StmtInv` follows the
  numbered statements: a number is handed out once (`Drawn`, `Owned`), what a
  client has stepped through and what is left for it are two adjoining segments
  of one answer of its own query (`Reading`), and nobody collects rows without
  the lock (`Collecting`).
- **ResidentsProofs**: `ResidentInv`: every call on every stack knows the store it
  is in (`FrameOK`), holds the locks of the residents it is inside of, and nobody
  else does (`StackOK`, `HeldBy`); the calls a load waits for are the `describe` of
  what it loads (`Describes`); a request is behind the gate of its store's grant.
  That the id of a new session is free comes from counting them.
- **LoadableExtensionProofs**: five invariants that need one another.
  `BaseInv`: types, where a connection is in its statement, and that everything
  registered goes to the one Host, where it is loaded (`Behind`).
  `GroupInv`: a row in a guest's accumulators is of an open group, under the id
  its own registration gave it (`KnownRow`), and an undisturbed group has there
  what was stepped into it (`Match`). `TableInv`: instance ids are given once, and
  the saved states of a table are those of its writer (`SameSaved`), without
  which a rollback could leave what the writer was not told of. `ScanInv`: what
  the guest has left of a cursor is what the statement has still to get
  (`Reads`). `SeenInv` is about the answers given. Every group of actions leaves
  the parts it does not touch alone (`QuietTables`, `QuietGroups`, `QuietScans`);
  one lemma per action proves the rest. `ScanInv` gives the refinement
  `ScansAsPromisedHolds`: xFilter starts an abstract scan, xColumn delivers, xEof
  finishes, a failure or xClose stops it.
- **VtabBridgeProofs**: `BridgeInv` follows a row from the table to the statement. An
  id names one table or cursor and no store knows an id that was not handed out
  (`TableIds`, `CursorIds`, `Memories`), so a new id finds nothing of an old one.
  The store of a connected table has in it what its writers were told of, or has
  trapped and answers nothing (`Homes`); after xSync it has answered for it
  (`Phased`), and both together are `CommitIsSynced`. What a store has left for a
  cursor, the rows of its block that are not used up and those the statement has
  got are adjoining segments of the rows there were at xFilter (`Reading`): a
  short block, an empty one or a failed fetch keeps that, and the scan is over only
  when nothing is left or the fetch failed (`EndsWhole`), which gives the refinement
  `ScanRefinesHolds`. What a call can do to a store is said once (`CallEffect`), for
  providers, bridges and mutating instances, answering, refusing or trapping.
- **HttpdProofs**: `ServerInv` for the writes: what the connection's view is under each
  lock SQLite gives it, and that nobody else writes beside it (`Locks`), ids
  are given once (`Numbers`), and for every acknowledged write it is settled where
  it is: in the file, in the open transaction it shares, or undone with it
  (`Fates`). `AnswerInv` for the routes: what a request has remembered of the table
  was so at some moment since it arrived (`Remembered`), and the route it found was
  then the best (`FoundInTime`). The attempt corrected the model: an
  administrative path is one only under its own method, a blob route may send an
  error status of its own with a write that succeeded (`OwnStatus`), and every
  route a client adds is one of `Routes`.

`ExtensionAssumption` says that sqlite3 loads the library once into a connection,
before anything else is asked of it; `ProvidersAssumption` also names the shapes of
calls and sources. `VtabAssumption` supposes at least one table: without one nothing
calls the bridge. The other ASSUMEs are about types, and `LinksAreAcyclic`.

Only model-checked: the liveness properties (`OperationsReturn`, `OpenersFinish`,
`ScanEnds`, `EveryCallReturns`), which are outside the prover's reach.
`OnlyV2LowersHolds` and the type theorems are proved and in no configuration.

## Assumptions

- SQLite: a statement outside a transaction is atomic and durable; WAL mode;
  resetting a statement does not report an earlier failure again. `SqliteConn`
  states the rest.
- Digests do not collide and the MAC of compiled code is not forged.
- Wall clocks order nothing: "the oldest row" is any row.
- In `host_registry` the client opens a database with nothing loaded
  (`UnloadsBeforeOpen`); `TearsDownItsOwn` fails otherwise.
- `CachesBounded` excludes an eviction that was refused or killed half-way.
- A component answers a cursor from the rows there were at xFilter, keeps its
  tables in its own memory, and does not enter itself: `LinksAreAcyclic` says that
  no provider reaches itself through the providers it resolves. Nothing in the
  code checks that; a cycle would wait for its own mutex for ever.
- Signatures are not forged; the openssl component verifies what it is given.
- Another process uses the HTTP server's file under SQLite's own locking.

## Disagreements met on the way

Not every one has a run; these were seen while translating the code.

*Stores and registry.*

- Two openers of a version 1 file: both read 1, the second ALTER fails with a
  duplicate column (`OpenersSucceed` excepts it). Two openers of a version 2
  file: the late one writes 3 over 4 (`OnlyV2Lowers` excepts it).
- Two concurrent saves of one set create two rows; a killed save's id may be
  given to another set, and its late members with it (`OneRowPerSet` and
  `RowsMatchHash` are checked for one process). An alias that was removed is
  still found through the name column of the bundle.
- lib.rs:8620 says an unloaded extension is no longer dispatched to, but bridges
  stay in their tables: a leftover bridge of another kind hides the next
  version (`RunsItsOwnVersion` is about extensions of one kind).
- lib.rs:3984 says the owner of a hook is None when no extension's hook is
  installed; it stays after `.auth on` and after `.open`.
- prefix_registry.rs:13-20 describes bare names that are always registered,
  last wins; the code gives a scalar whose name is taken another one, and
  `register_scalar_impl` ignores pins.
- wasmos_spi_imports.rs:355 says `:memory:` is refused; the connection is opened
  in memory.
- Removing a WAL hook leaves the connection without SQLite's auto-checkpoint.
- lib.rs:4162 calls the capacity of C1 a hard cap; with capacity zero it holds
  one entry.
- A key file left short by a kill switches C2 off until somebody removes it.

- `cache_migrate_to_external` exports the store and drops its schema under two
  holds of the lock: what is put in between is in neither.
- `prefix_cache` is kept over `.open`; the row it came from may be another
  extension's in the new database.
- `resolve_uri`'s `cache.put` in the host is reached with what was just read from
  that cache: it changes nothing.

*Virtual tables.*

- vtab.rs:143 records a failed fetch as the end of the table, and xEof answers a
  failed call with "end": a statement succeeds with rows missing. `VtabScan`
  permits exactly that (`hurt`).
- xCommit's and xRollback's errors are ignored by SQLite, so a component that
  fails there disagrees with the database; `CommitIsSynced` is about the last
  moment at which it matters.
- In sqlink-extension, x_rollback reports success when the guest refused
  (vtab.rs:772).

*Providers.*

- A comment in compose_provider.rs says that step re-prepares its query at each
  call; the rows are fetched once, at the first step, and kept, so later writes
  do not show (`OwnRows` relies on it).
- COMPOSE-PROTOCOL says that query-scalar is an error when there is more than one
  cell; the first cell is taken.
- resolve_by_digest speaks of the same trust gate as the loader; it verifies the
  digest as it was spelled (blake3 or sha-256), where the loader uses blake3, so
  an allowlist admits one spelling and not the other.
- `.load` does not ask the trust policy at all.
- register_wasm_provider called from inside a tokio runtime is always refused
  under Ed25519Signed; the async form is not.
- A `Source::Blake3` entry is not compared with `expected_hash`
  (`FetchedAsAsked` excepts it).
- After `open-db` a provider's sessions belong to the connection that was
  replaced; `spi_db_path` is the path at the time of the load.

*Loadable extension.*

- Aggregate context ids are per registration, not unique (`aggregate_ids`). For
  the same reason `GroupsApart` speaks of other connections only when they have
  no groups under way or left over.
- Aggregates of a bridge are registered although calls to them have no route.
- typed_value.rs:16 says that the registry of typed values is filled at load; it
  never is, so a framed value always stays a blob. A typed result of a provider
  cannot be decoded.

*HTTP.*

- A blob route answers before its statement's commit and ignores the result
  (db.rs:222); `AckedIsKept` excepts it.
- 404 is also the answer when the routes table could not be read.
- The status of a route is taken modulo 2^16; one outside 100..999 becomes the
  default.

## Not modelled, and the plan

Done: 1. the store and its abstract specification; 2. opening the file;
3. bundles; 4. the host registry; 5. the compiled-component cache; 6. the virtual
tables and the abstract scan; 7. fetches over sources, trust policy, tenants and
the statement provider; 8. the HTTP server; 9. resident providers; 10. the
loadable extension with its value conversions.

Every safety property and every refinement that a passing run checks is a theorem.
Still open are the enabling facts behind the liveness properties, as far as they are
safety properties: that a step of a cursor's loop uses up a row of the block or of
the store (`VtabBridge`), and that two calls never hold what the other waits for
(`Residents`, `Providers`).

Left out, and why:

- Migration of the cache between its modes: `export_to` and `drop_schema` are one
  batch each; what goes wrong between them is noted above.
- Language bindings between component types and host types
  (`wasmos_*_types.rs`): field-by-field copies without state.
- Constraints and costs of xBestIndex, SQL text, JSON and CBOR layouts: data that
  no property here tells apart.
- The browser loader and worker: a second host, in JavaScript, with its own worker
  protocol and OPFS persistence; nothing here speaks of it.
- The VFS in C (single-threaded; its contract is SQLite's), parsers (text), the
  CLI and the native runner (I/O), TLS (set up once at start), generated
  bindings, vendored SQLite, sites and tooling, and the parts in submodules that
  are not in the tree.
