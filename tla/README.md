# A TLA+ verification project for node-smol

node-smol is a customised Node.js distribution. Most of the repository adapts,
builds and packages Node.js; its own run-time logic is in the `node:smol-*`
builtins under
`src/packages/node-smol-builder/additions/source-patched/` (written `P/`
below), in `src/packages/npm/@node-smol/ai` and in the C programs of
`src/packages/bin*`. This directory models the parts of it whose correctness
depends on the order of events, checks the models with TLC and proves what
matters most about them with TLAPS.

Modelled: the SQL client (native PostgreSQL pool, statement cache, transactions
over SQLite), the ILP sender, the acquisition of AI models, the build pipeline
with its checkpoints, the SQLite provider of the virtual file system, and the
native text buffer and view of the terminal UI.
All of these are also proved about.

## 1. Inventory

### SQL client, `node:smol-sql`

The client is four layers. JavaScript (`P/lib/internal/socketsecurity/sql/`)
runs on one thread, in turns between `await`s; the native layer
(`P/src/socketsecurity/postgres/`) is called from it and from libuv's thread
pool.

| Component | State | Operations | Right when |
|---|---|---|---|
| Pool: `postgres_pool.{h,cc}` | idle deque, active list, statement map and its order, one mutex; per connection a `PGconn`, the names prepared on it, a token | `Acquire`, `Release`, `ReleaseByToken`, `Execute*`, `Prepare`, `ExecutePrepared`, eviction, destruction | each connection is in one place; holders are exclusive; limits hold; what a connection believes is prepared is prepared; every call returns |
| Binding and jobs: `postgres_binding.cc`, `postgres_async.cc` | `pools_` by id; a job's reference to its pool | `createPool`, `destroyPool`, the `*Sync` calls, `acquireConnection`, `releaseConnection`, `executePreparedAsync` | a pool outlives the jobs on it and no longer; a stale handle releases nothing |
| Postgres adapter: `adapters/postgres.js`, `cache.js`, `query.js` | pool id, pool promise, least-recently-used map of statement names | `query`, `queryOnConnection`, `acquireConnection`, `close` | a query runs its own text; a cached name can be run |
| SQLite adapter: `adapters/sqlite.js` | one `DatabaseSync`, statement cache | the same interface | callers do not end up in each other's transactions |
| Transactions: `transaction.js`, `SQL.begin` in `client.js` | `kState`, savepoint counter, flags of each savepoint | `begin`, `commit`, `rollback`, `savepoint` | all or nothing; a failed savepoint undoes itself and nothing else |
| Client: `client.js` | closed flag, memoised query promise, reserved connections | `` sql`...` ``, `begin`, `reserve`, `close` | a reservation is released once; nothing outlives `close` |

Hard behaviours: three kinds of thread on two lists behind a mutex; addresses
that are reused under JavaScript's raw pointers; server sessions that vanish
with what was prepared on them; two caches of the same size with different
eviction orders; 32-bit hashes as names; state that is assigned several
microtasks after the statement it describes has run.

### Others that are modelled

| Component | State | Operations | Right when |
|---|---|---|---|
| ILP sender: `P/lib/.../ilp.js`, `P/src/.../ilp/` | a line buffer, three row counters, a flag per half of the sender, the socket | `table`, columns, `at`, `flush`, the automatic flush and its interval, `clear`, `close` | a row is sent once, in order, as whole lines, or is reported as not sent; the counters say what happened |
| AI model acquisition: `src/packages/npm/@node-smol/ai/lib/model-acquisition.js` | the model file, its `.partial`, one shared promise per process | `acquireModel`: look, resume or restart, stream, verify, rename, retry, abort | only a verified file is handed out; every call settles; the model arrives in the end |
| Build pipeline: `src/packages/build-infra/lib/{build-pipeline,checkpoint-manager}.mts` with the stages of yoga-layout | pins, outputs of the stages, `<stage>.tar.gz`, `<stage>.json` | a run with its flags, each stage's worker, `createCheckpoint`, the finalization | a finished run delivers what its pins and tree say; `--clean` repairs |
| SQLite file provider: `P/lib/.../vfs/sqlite_provider.js` | the rows of one table: path, parent's path, type, content, target | `writeFileSync`, `mkdirSync`, `unlinkSync`, `renameSync`, `symlinkSync`, and the reads | the rows are one tree; a call moves what it names and nothing else, and loses nothing when it is broken off |
| Text buffer: `src/packages/tui-infra/src/socketsecurity/tui/text_buffer.cc` | content, memory slots, highlights, tab width | the content calls, highlights by line and by range, styled text, spans | highlights cover what was asked for; overlaps follow the priorities |
| Text view: `.../text_view.cc` | wrap mode and width, viewport, truncation, selection, drag anchor | the setters, `CalculateVirtualLines`, drawing, `setSelection`, dragging | no cell is lost by wrapping; what looks selected is what is extracted |

Hard behaviours: a send that fails after the kernel has taken a prefix, and a
timer that flushes in the middle of a row; processes that die between two file
operations and others that share the directory; a key that is current beside a
content that is not; a directory moved one row at a time, each move a commit of
its own, over prefixes that match more than they name; two models of the width of a text (per scalar and per
cluster) and three coordinate systems (columns of the text, of a line, of the
screen) that must agree however the text is laid out.

The components interact in three places only: `PreparedStatements` drives the
pool (and is composed with it), the view reads the buffer (and extends it), and
the SQLite transactions share one connection. The others meet only at the file
system or the network, which each model has as external state.

### Not modelled

- **DLX cache, stubs, update check** (`src/packages/build-infra/src`,
  `src/packages/bin-stub-builder/src`): a compressed binary unpacks itself
  into a per-user cache and runs from there. The cache entry and its metadata
  are written one after the other (`dlx_cache_common.h:762`), so a crash
  between the two leaves an entry without metadata.
- **Virtual file system**, the rest of it (`P/lib/.../vfs`, `P/src/.../vfs`): a
  read-only tree inside the executable, extracted to disk on demand by several
  processes; and a provider over PostgreSQL that runs no further than its
  `CREATE TABLE`, since the client throws on a result without columns
  (`adapters/postgres.js:294`).
- **HTTP server**, **web streams**, **keyed promise combinators**: object and
  chunk pools with caps over vendored event loops; pure functions of the order
  in which promises settle.
- Bindings with no protocol of their own (FFI, QUIC, keychain, keymap, power,
  WebGPU, language model, the handle tables of the terminal UI), parsers and
  data tables (manifests, versions, HTML entities, calendars), rewriting of
  executable formats (binject, binpress, binflate), build scripts, builder
  packages and vendored code. They are long, sequential and character- or
  byte-level: a model would transliterate them. They are most of the lines of
  the repository, so the share of the lines that the models cover is small.

`PROJECT.json` gives the reason for each component that is left out, and lists
the hazards: what can go wrong in this code that a test would hardly reach,
each at its line, with the properties that would catch it or a note saying why
none does.

## 2. Modules

| Module | Models | Uses |
|---|---|---|
| `PostgresPool` | `postgres_pool.{h,cc}`, the pool calls of `postgres_binding.cc`, the job of `postgres_async.cc`, `ReservedConnection.release` | |
| `PostgresPoolProofs` | its theorems | `PostgresPool` |
| `ConnectionLending` | abstract: what the pool promises its users | |
| `PreparedStatements` | `PostgresAdapter.query`, `cache.js`, `hashQuery` | `PostgresPool`, by INSTANCE |
| `PreparedStatementsProofs` | its theorems | `PostgresPoolProofs`, by INSTANCE |
| `SqlTransaction`, `SqlTransactionProofs` | `SQL.begin`, `Transaction`, `Savepoint`, the SQLite adapter's route; its theorems | |
| `IlpSender`, `IlpSenderProofs` | `ilp.js`, `ilp_binding.cc`, the limits of `ilp_encoder.cc` and `ilp_transport.cc`; its theorems | |
| `ModelAcquisition`, `ModelAcquisitionProofs` | `model-acquisition.js`; its theorems | |
| `BuildPipeline`, `BuildPipelineProofs` | `build-pipeline.mts`, `checkpoint-manager.mts`, `clone-source.mts` and the yoga-layout stages; its theorems | |
| `VfsProvider`, `VfsProviderProofs` | `vfs/sqlite_provider.js`, the calls that write; its theorems | |
| `TextBuffer` | `text_buffer.cc`, the widths of `width.cc` | |
| `TextView` | `text_view.cc` | extends `TextBuffer` |
| `TextProofs` | the theorems about both | extends `TextView` |
| `MC*` | the instances TLC checks | the module each is named after |

Definitions whose names end in `_Something` and whose comment begins with
"Mutant:" are plausible mistakes in the definition below them. Nothing uses
them; the manifest lists which property each one breaks.

### PostgresPool

State and code: `idle` and `active` are `idle_connections_` and
`active_connections_`; `statement_sql` and `statement_sql_order` the statement
map; `token`, `net` and `prepared` the fields of the `PooledConnection` at an
address (`token[a] = 0`: nothing lives there); `session` what the server holds
behind it; `pc`, `held`, `name` and `sql` the locals of the call each thread
is in; `handles` the reserved connections JavaScript has; `lifecycle` the
pool's entry in `pools_` and the references that keep it alive.

Steps: the mutex is held for the whole of `Acquire` and `Release`, connecting
and resetting included, so each is one step, as is each access to the
statement map. A libpq call made between two of them, on a connection the
thread holds, is a step of its own. `Prepare` is therefore `PrepareStore`,
`PrepareAcquire`, `PQprepare`, `ReleaseHeld`; `ExecutePrepared` is
`StartExecutePrepared`, `ExecutePreparedAcquire`, then, when the connection
lacks the name, `LookUpText` and `PQprepare`, then `PQexecPrepared` and
`ReleaseHeld`. The main thread makes one call at a time; the jobs interleave
with it and with each other. `AfterThreadPoolWork` runs when the main thread
is back in its event loop. `LoseSession` is the server's or the network's: what
the session held is gone at once, and the client notices at its next libpq call,
as `PQstatus` does.

Abstractions: time is left out, so at each `Release` any idle connection may
have expired; queries, results and parameters are left out; texts are never
empty (an empty text would read as absent in `ExecutePrepared`). A pool that
failed to open or that has been freed is not opened again: one pool id has one
life. The JavaScript adapter uses the synchronous calls; the jobs are those of
`executePreparedAsync`, which the binding exports.

### PreparedStatements

The adapter over the pool. `cache` is `kPreparedStatements`, least recently
used first; an entry is its key and its text, the statement name being
`"stmt_"` and the key. A key is the hash of the text and the probe at which
the collision-chain walk stopped. `Lookup` is the walk with the reordering
`lruGet` does at each probe, and starts the pool's `Prepare` or
`ExecutePrepared`; `CacheAndExecute` is what follows `prepareSync`, its result
dropped as in the code; `QueryReturns` ends the query. Between two queries
connections are reserved and released, which is what turns the deque so that
consecutive queries meet different connections; under a query only the pool's
own steps and lost sessions happen, because `query` has no `await` once the
pool exists. The jobs' part of the pool is switched off (`Worker == {}`).

### SqlTransaction

`begin()` and `savepoint()` on the one connection the SQLite adapter shares.
`stack` and `durable` are the database, external to this repository: the open
transaction with its savepoints as frames of writes, and what is committed.
BEGIN fails inside a transaction, COMMIT and ROLLBACK outside one; SAVEPOINT
outside a transaction opens one that its RELEASE commits; ROLLBACK TO leaves
the savepoint on the stack; names resolve to the newest.

The SQLite adapter runs a statement inside the call that sends it, and its
promise resolves some microtasks later, so each of BEGIN, COMMIT, ROLLBACK,
SAVEPOINT and RELEASE is a step on the database and a later step on the
JavaScript object. How many microtasks later is left open. The callbacks are
any program over the handles they have, which are their own and those of all
the callbacks around them: they write through any of these (`Write(f, g)`), open
savepoints, return, throw, and call `tx.commit()`, `tx.rollback()`,
`sp.release()` or `sp.rollback()` on any of them. So a savepoint's callback may
roll back its transaction, or release the savepoint around its own, and go on.
`Branches` says whether they may also leave work running that they do not await,
`Closes` whether the program closes the client meanwhile: that discards the open
transaction, and the next statement of a callback opens the database again.

Three variables are history. `undone` has the writes a callback undid with
`sp.rollback()`; a commit keeps all the others. `orphans` has the savepoints
that a call made inside them ended together with an outer frame: their object
still says active, because the tagged template of a savepoint looks at its own
flag only (`transaction.js:332`). `strayed` says that a statement sent through
or for an orphan has taken effect somewhere else: a write after its transaction
was ended, or a RELEASE or ROLLBACK TO that found another savepoint of its name.
The properties hold until then, and `SqlTransaction_orphans` shows what happens
after it.

Not modelled: cursors, which of two errors reaches the caller, `create()` of a
savepoint and `begin()` of a transaction called by the callback (both are public
methods; the library has made the call already), and the Postgres route: there, `rowsToObjects` throws on the columnless result of
BEGIN (`postgres.js:294`), so no callback is ever reached.

### ConnectionLending

`free`, `lent` and `issued`: numbers 1, 2, ... are issued to the connections
opened, each is free or lent, and an issued number never returns. The pool
implements it with `free` and `lent` the tokens of the connections in `idle`
and `active`, and `issued` the token counter: each critical section is one
lending step, every other step a stutter (`ImplementsLending`).

### IlpSender

The variables carry the names of the fields: `connected`, `currentTable`,
`rowsSinceFlush`, `flushInProgress` are the symbols of the JavaScript object;
`buffer`, `overflow`, `rowsBuffered`, `rowsSent`, `socket` the native sender.
`wire` is what the kernel has accepted. The text of a line is abstracted to its
pieces (table name, columns, line end), so a flush, a clear or a broken send may
fall between any two of them. Native calls are synchronous, so each call of the
program is one step, the automatic flush that `at()` triggers included; what
interleaves are the interval timer, the microtasks in which an automatic flush
settles (`FlushSettles`) and a `close()` that waits for it (`Close`, `Destroy`).

A send fails in two ways. On the socket (`SendFailed`) a prefix has been taken
and the transport marks itself disconnected, so nothing is sent again. In a
build with io_uring (`--with-iouring`) a buffer of 4096 bytes or more goes
through `SendWithIoUring`, and when submitting one of its chunks fails the chunks
before it may be out while the connection stays up (`ilp_transport.cc:358`): the
buffer is kept, and the next flush sends all of it again. `SubmitFailed` models
it, once in a behaviour, and the history variable `submitFailed` records it; the
properties hold until then (`IlpSender_iouring`). That the entry whose submit
failed may stay in the ring, and be sent together with the next one, makes it no
better and is left out.

### ModelAcquisition

One step per `await`: `pc` is the place of a process in `prepareModelDownload`,
`acquireModelOnce` and the retry loop; `final` and `partial` are the two paths
and `content` the blocks of each inode, so that a file that was renamed or
removed stays what an open stream writes to. A file starts empty, as a damaged
model, or as an overlong partial file (two processes may have appended to one).
Faults, counted by `faults`, are failed requests, wrong sizes and blocks, broken
streams, aborts and crashes; a crash rejects the callers and forgets the
acquisition, never the files.

### BuildPipeline

A content is the history it was made by: the source's version, then the version
of the tools at each stage. `run` is the pass of `runPipeline` under way;
`pc` tells the steps apart between which it may stop: deleting checkpoints,
deciding, working (`build`), done (`built`), archived. `createCheckpoint` is
`Archive` and `Record`, since the tarball and the JSON are two renames. What an
interrupted step leaves is chosen from what its file operations can leave. The
locks are not modelled: in Node they are no-ops (`checkpoint-lock.mts:42`), and
the model has one builder. `restoreCheckpoint` is not modelled either, because
no restore of this pipeline succeeds: it extracts into the build directory, so
the wasm file comes out in `Sync/` there, and the stage looks for it in
`wasm/out/Sync/` (`finalize-wasm.mts:54`, `:60`, `paths.mts:72`), finds nothing and throws;
what was extracted is read by nobody. A run whose last output but one is gone
therefore fails in the last stage (`Finalize`) until something builds it again.

### VfsProvider

`rows` is the table, a function from the paths that have a row; a path is a
sequence of names, the root the empty one. The calls are synchronous, so within
one process nothing comes between what a call reads and what it writes:
`WriteFile`, `MkdirRecursive`, `Mkdir`, `Unlink`, `Symlink` and `Rename` compute
the statements the call will run (`todo`) from the rows it finds. The exception
is the list of a renamed directory's children, which is read after the directory
itself has moved: `ChildRenames` does so at that point, in any order. No call
opens a transaction, so each statement commits by itself; `Step` runs one,
and one that meets a primary key that is taken ends the call. `BreakOff` is the
process that dies and the one that opens the database after it, or a statement
that fails for another reason; both leave the rest undone. Calls that throw
before they write change nothing and are not steps.

Paths are those that `normalizePath` returns for a path without repeated
slashes. It adds a leading slash and removes one trailing slash, and leaves `//`
as it is: `writeFileSync('/a//b')` makes a row `/a/` that is in no directory that
`readdirSync` can list. Such paths are outside the model. So is what `node:sqlite`
does with `undefined`: every INSERT binds it for the columns a row does not have,
and the model takes it for NULL, as the code does; the source of `node:sqlite` is
not in this repository, and if it refuses the value no row is ever inserted.

`LIKE` is abstracted to `Alike`, which says for each name which names it matches
as a pattern. A name with `%` can match several at once and is not covered.
`before`, the rows the call found, is history.

### TextBuffer and TextView

Scalars are reduced to the classes the code tells apart; a text is a sequence
of them. `TextBuffer` keeps both width models as they are: `CodepointWidth` of
a scalar, which places highlights, and `Clusters`, which the views lay text out
with. They use different tables (`width_data.cc`, from Unicode 17, and the ranges
of `IsWideScalar` and `IsClusterExtenderScalar`), which the comment at
`text_buffer.cc:193` says is on purpose. Comparing the tables code point by code
point gives one class for each pair of widths there is:

| Class | Stands for | `CodepointWidth` | In a cluster |
|---|---|---|---|
| `a`, `sp` | letters, spaces, most scalars | 1 | a cell of 1 |
| `cjk` | CJK, most emoji | 2 | a cell of 2 |
| `check` | U+2705, U+274C, U+26A1, U+2B50 | 2 | a cell of 1 |
| `thermo` | U+1F321 and other emoji shown as text, unassigned CJK | 1 | a cell of 2 |
| `zwsp`, `cr` | U+200B and other format characters; controls | 0 | a cell of 1 |
| `mark` | U+0301 and the others of U+0300-036F, selectors but VS16 | 0 | folds into the cell before |
| `keycap` | U+20E3 and the marks that `width_data.cc` does not list | 1 | folds into the cell before |
| `vs16`, `zwj` | U+FE0F, U+200D | 0 | fold; widens; joins the next |
| `tab` | tab | 0, and the tab width to `setStyledText` | the tab width |

`StyledWhereDrawn` is about texts in which the two agree (`Measured`).
 `highlights` is the code's vector, in order. `TextView` computes, as the
code does at each call, the virtual lines (`CalculateVirtualLines`, the
`WrapCursor` being the record `cur`), truncates them, draws them (`DrawnCells`)
and turns screen coordinates into column offsets (`CoordsToCharOffset`).
`dragged` is a history variable: the two cells of the last `SetLocalSelection`.

Left out: UTF-8 decoding, `GetTextRange` by scalars and its row and column
form, the style registry, handles and owned children, `Measure` and the
serialised line information, tab indicators, colours.

## 3. Runs

| Run | Question | Bounds |
|---|---|---|
| `postgres_pool_lists` | Are connections leaked, shared or freed twice? Do the limits hold? Does the pool implement `ConnectionLending`? | 3 addresses, 2 jobs and the main thread, max 2, 3 connections ever created |
| `postgres_pool_jobs` | Does every call return, is a destroyed pool freed, does a connection know what its session holds? | 1 connection for 3 threads, 2 names, a statement map of 1 |
| `prepared_statements_collisions` | Do colliding texts stay apart, also when the pool's map drops their names? | 3 texts of one hash, 2 connections, a cache of 3, a map of 2 |
| `sql_transaction_nested` | Are `begin()` and `savepoint()` all or nothing, whichever handles their callbacks use? | 2 begins, 2 savepoints, 1 write each |
| `sql_transaction_failing` | Does a `begin()` ever settle with its transaction open? | the same with a plain query, `close()`, repeated names and failures that end the transaction; no writes, since the question is about the open transaction only |
| `ilp_sender_rows` | Are rows sent once, in order, as whole lines, and counted? Do they leave the buffer? | 3 rows of one column, a buffer of 4 pieces, an automatic flush every 2 rows |
| `model_acquisition_resume` | Is only the verified model handed out? Does every call settle, and the download complete? | 1 process, 2 callers, 2 blocks, 1 retry, 3 faults |
| `build_pipeline_restarts` | Does a finished run deliver what it should? Does `--clean` repair? | 4 stages, 2 versions of each pin, 2 faults |
| `build_pipeline_pinned` (violation) | Is it the pinned source that is built? | the same, no faults |
| `vfs_provider_tree` | Do the rows stay a tree? Does a rename lose or move anything else, also when it stops half way? | 4 rows, paths of up to 3 of 2 names, 2 contents |
| `text_buffer_spans` | Do highlights cover what was asked for, and follow their priorities? Is styled text highlighted where it is drawn? | 4 scalars of content, 2 highlights, tab widths 0 and 2 |
| `text_view_layout` | Do layout, drawing, extraction and dragging agree? | 3 texts of up to 7 scalars, wrap widths, an offset and a viewport that cut them, drags between 4 points, one left of the screen and one below the text |

Why the bounds are enough to meet the cases that matter. In the pool: two
holders and an idle connection at once need two addresses, reuse of an address
under a stale handle needs a third creation (`MaxToken` counts creations),
exceeding the limit by one needs a third address. Two jobs and the main thread
give every pair of thread kinds. Two names and a map of one make each new name
evict. With one connection for three threads exhaustion is the normal case.
For the statement cache, a chain with a middle needs three colliding texts, and
a map of two makes the third name evict the first. The adapter's own cache has
room for all three: `RunsOwnText` and `CacheIsMap` do not survive its evictions
where texts collide, and section 4 proves them where texts do not. For
transactions, two begins interleave, and two savepoints nest in either order or
follow each other. One write for each of the four callbacks is enough: each
property is about one write that is missing or left over, no step is guarded by
a write, and the write may come before, inside or after a savepoint.

For the sender, a row is a table name, a column and a line end, so a buffer of
four pieces can end inside the second row; two rows reach the automatic flush
and the third is the one that is buffered meanwhile. For the acquisition, two
blocks are the least with a resumption in the middle, and three faults allow a
crash, a wrong block and an abort in one behaviour; the second caller is the
one that joins and survives the first one's abort. In the pipeline four stages are the
least with a stage whose input is derived from a derived one and a final stage
of its own kind; two faults allow an interruption followed by a loss. In the file
provider three levels are what a directory with an entry needs to be moved into
another one, and four rows hold the root, a directory with two entries or two
directories, and the destination. The texts
of the two text runs are chosen to have each class that is measured in its own
way (wide, promoted by a variation selector, combining, tab, CR before and
apart from LF, and those whose two widths differ) next to a line end or at a wrap
width, and one has a tab with
a variation selector, which the two width models measure differently; the view's wrap width is
one that cuts a wide cell, the offset leaves one column on the first line, and
the viewport scrolls both ways.

Symmetry is used on addresses, jobs and calls, never in a run with liveness
properties. `CHECK_DEADLOCK FALSE` is set where the system may stop: a pool or a
sender may be closed, the calls of an instance may all have been made, an
acquisition may be done, and no call of the file provider fits when its rows are
all used. The build and text runs check deadlock.

Fairness.

- `postgres_pool_jobs`: weak fairness of `Step(t)`: every libpq call returns
  (connecting has a timeout) and the mutex is given back, so a thread in the
  pool goes on. Strong fairness of `AfterThreadPoolWork(w)`: a finished job is
  queued for the main thread, which is between calls infinitely often and takes
  every queued completion in turn, though it may be inside another call whenever
  one looks. Nothing is assumed of the program that makes the calls.
- `ilp_sender_rows`: weak fairness of the interval timer, of the microtasks that
  settle a flush and of the rest of a `close()`: the event loop runs them. The
  program need not call anything.
- `model_acquisition_resume`: weak fairness of each process's steps (files, the
  server and timers answer) and of the callers' repetition: `CompletesUnlessWhole`
  is about a caller that keeps asking. `CallsSettle` does not depend on that.
- `build_pipeline_restarts`: weak fairness of a run's steps, strong fairness of
  starting a run with `--clean`, the remedy every message of
  `checkpoint-manager.mts` names: it must be given again after an interruption,
  and between two of them it is not always possible.

### What the violation run shows

- `build_pipeline_pinned`: `cloneYogaSource` keeps any tree that has its
  `CMakeLists.txt`. When the pin is bumped, every stage runs again, over the old
  source, and the result is recorded under the new key; `build-pipeline.mts:15`
  says a bump "invalidates the cache automatically". The new source is built
  only once the tree has been deleted by hand.

### Exceptions, and the configurations that show them

A property that the code does not quite have is stated with its exception. Each
of these configurations drops one exception or widens one bound; it is kept
beside the runs and shows the case when TLC is run on it by hand.

| Configuration | Shows |
|---|---|
| `PostgresPool_max` | `Initialize` opens `min` connections without looking at `max`; the adapter's default `min` is 2, so `{ max: 1 }` gives two. `TotalWithinLimit` takes the larger of the two. |
| `PostgresPool_statements` | passes: the three statement invariants on two connections |
| `PreparedStatements_evicted` | the walk stops at the first empty slot, so when the entry of one colliding text is evicted its key goes to the other, while a connection still has the name prepared for the first, and `Prepare` asks only whether it has the name. The query runs the other text with its own values, the case the comment at `postgres.js:222` sets out to exclude. Needs a 32-bit collision and 500 other texts. With a third text of that hash, a text whose walk now stops earlier is cached a second time under the freed key, which `CacheIsMap` rules out only where nothing is evicted. |
| `PreparedStatements_fifo` | the pool's map drops the oldest name however recently it ran, the adapter's keeps it: executing it on a connection that has not prepared it fails until the adapter forgets the name too. Needs 500 texts and one that stays in use, no collision. `postgres_pool.h:226` says "the JS adapter's 500-entry LRU avoids reusing evicted names anyway"; it does not, so `TextIsKnown` is in no run. |
| `SqlTransaction_branches` | `ROLLBACK` has run, the object still says active, and a branch of the callback (the other half of a `Promise.all`) writes: the write is committed by itself while `begin()` rejects. |
| `SqlTransaction_names` | a savepoint that failed stays on the stack, so an outer one of the same name that fails later is undone only down to it. |
| `SqlTransaction_orphans` | ``begin(tx => tx.savepoint(async sp => { await tx.rollback(); await sp`INSERT ...` }))``: the savepoint's template looks at its own flag, so the INSERT is committed by itself; RELEASE and ROLLBACK TO then fail and `begin()` rejects. With another `begin()` open by then, the INSERT would land in its transaction, and the ROLLBACK TO could find its `sp_1`. |
| `IlpSender_close` | `close()` destroys the native sender with what it has buffered; `doc/api/smol-ilp.md:255` says it flushes. |
| `IlpSender_iouring` | an io_uring submit that fails after a chunk was sent leaves the buffer full and the connection up: the next flush sends those lines a second time. |
| `ModelAcquisition_whole` | a partial file as long as the model is resumed at its end, the server answers 416, which is not retried, and nothing removes the file: no later call can complete. |
| `ModelAcquisition_processes` | the second process opens the shared partial file, truncating it, between the first one's verification and its rename: the file that was verified is promoted without its content. |
| `BuildPipeline_halfclone` | a clone that was interrupted leaves a directory that the next clone refuses and `--clean` does not delete. |
| `BuildPipeline_midrun`, `BuildPipeline_fromstage` | pins edited during a run, and `--from-stage` after a bump, record an old output under the current key. |
| `VfsProvider_case` | `LIKE` compares without case, so moving `/A` moves what is below `/a`, and moving something to `/A` deletes it; `_` and `%` in a name match others in the same way. |
| `VfsProvider_above` | a rename onto a directory above its source, which `rename(2)` refuses, deletes both: only the opposite case is refused (`sqlite_provider.js:616`). |
| `TextBuffer_tables` | the two width models disagree on ordinary scalars: `setStyledText` highlights a check mark (U+2705) on two columns, and the view draws it on one, so all that follows on the line is highlighted one column too far right; U+1F321, U+200B and U+20E3 go wrong in the other ways. |
| `TextView_columns` | a tab is one column in `GetTextRangeByCols` and `tab_width` columns in a view; a selection behind a tab copies other text than it highlights. With a variation selector after it the tab is two columns to the one and still `tab_width` to the other, so not even a tab width of one makes them agree: `SameClusters`, the exception, compares the widths themselves. |

`Exclusive` and `Atomic` are also violated when, respectively, plain queries
share the connection and a failing statement ends the transaction on the
server or the client is closed (`Plain`, `StatementsRollBack`, `Closes`);
`sql_transaction_failing`, which allows all of them, checks only what survives
them.

### Smaller observations

Met while reading, of the same kind, and not worth a run:

- Build: no restore of a checkpoint works for yoga (section 2), so a build
  directory that has lost its outputs but kept its checkpoints needs `--clean`,
  which is the case restoring is for; a stage that is platform-agnostic but not shared (`source-configured`)
  always reruns, because `createCheckpoint` hashes metadata that `shouldRun`
  leaves out (the model has both keys); `--force` stopped half way under an
  unchanged key leaves a torn output that the next run skips; a moved tag fails
  the verification once, and the next run takes the tree.
- ILP: an overflow, or a timestamp out of range, disables the buffer until
  `clear()`; after a failed send the sender cannot send again, because
  `connected` stays true; `insertRow` that throws half way leaves its row open;
  the interval timer reports an empty buffer as an error.
- Text: a combining mark at the start of a line is no column to `setStyledText`
  (`text_buffer.cc:855`) and a cell of one column in a view, so a coloured
  chunk behind it is highlighted one column too far left; a drag that leaves
  the screen on the left counts as before all of the text, on whatever row it
  leaves (`text_view.cc:866`);
  with a tab width of zero a line of tabs has no virtual line
  (`text_view.cc:479`); scrolled into the middle of a wide cell, the keys of a
  row are off by a column (`text_view.cc:1238`); ids of memory slots are
  `uint16_t` when given out and `uint8_t` when used (`tui_binding.cc:2222`);
  a CRLF split over two appends is kept; `RemoveHighlightsByRef(0)` also drops
  the highlights of styled text.
- Files: `#ensureParents` stops at the first row there is, so
  `writeFileSync('/f/x')` below a file `/f` succeeds and its row is in no
  directory; `mkdirSync('/x')` on a fresh provider leaves no root;
  `mkdirSync('/')` makes a root that lists itself; `renameSync('/', ...)` moves
  the root's row alone, since nothing is `LIKE '//%'`; a write through a
  symbolic link goes into the link's own row, where no read finds it; a rename
  that was broken off cannot be repeated, since its source is gone.
- SQL: BEGIN over Postgres executes and then throws, because its result has no
  columns (`adapters/postgres.js:294`): no `begin()` there reaches its callback,
  and the connection goes back inside the transaction; `min: 0` makes `createPool` throw; `Acquire` holds the mutex over
  `PQconnectdb` (`postgres_pool.cc:230`), so one slow server stalls every
  thread; an error of `tx.rollback()` replaces the one that caused it
  (`client.js:582`).

## 4. Proofs

The pool's theorems hold for any number of addresses, jobs, names and texts
and any limits, under `PoolAssumption` (the sets are disjoint from their null
values, `Addr` is finite, the limits are naturals).

### Ownership (`PostgresPoolProofs`)

- `TypeCorrect`: `Spec => []TypeOK`;
- `EveryConnectionOwnedOnce`: `Spec => []OwnedOnce`;
- `HoldersAreExclusive`: `Spec => []ExclusiveHold`.

All three follow from `Invariance`, `Spec => []IInv`. `IInv` is `TypeOK`,
`OwnedOnce`, `ExclusiveHold` and two parts without which these are not
inductive:

- `CallsConsistent`, a thread has a connection exactly at the steps that use
  or release one: without it `ReleaseHeld` could be enabled with nothing held,
  or a call could start and overwrite a connection that is still held;
- `NoPoolNoCalls`, no call is inside a pool that does not exist yet or any
  more: without it the destructor, or `CreatePool`, could run under a holder.

`OwnedOnce` and `ExclusiveHold` need each other: a released connection is not
in the deque already because its holder had it in the active list, and a
holder's connection is not handed out again because an acquired one comes from
the deque or from an address where nothing lives.

The argument has one lemma per critical section (`AcquireEffect`, `EvictEffect`,
`ReleaseEffect`, `DestructorEffect`, over `ReclaimEffect`, `CreateEffect` and
three facts about sequences without repetitions), each saying what the section does to the lists, the heap and
their types, and one theorem step per action that combines them. TLC checked
`IInv` on the bounds of `postgres_pool_lists` before it was proved.

### Slots (the same module)

- `NoSlotLost`: `Spec => []ActiveIsHeld`, a connection in the active list is
  held by a call or by a handle, so an early return never leaks a slot;
- `LimitRespected`: `Spec => []TotalWithinLimit`;
- `MinimumKept`: `Spec => EvictionKeepsMin`, an action property.

The first is inductive relative to `IInv`: a section that puts a connection
into the active list gives it to the thread that runs it. The second counts:
the two lists have no address twice and none in common (`OwnedOnce`), so their
lengths add up to the number of live addresses, which only `Create` raises,
and only below the limit. The third follows the eviction loop:
up to a position it erases there are at most as many expired connections as the
deque has above its minimum, so the last erased position bounds them all.

### Sessions (the same module)

- `CacheIsCoherent`: `Spec => []CacheIsSession`, what a live connection believes
  it has prepared is what its session holds;
- `NamesAreReady`: `Spec => []ReadyToExecute`, a call that runs a statement by
  name finds it on its session;
- `IndexAgrees`: `Spec => []StatementIndex`.

`SessionInv` adds to the first that a freed address has nothing left over
(`FreedIsEmpty`), or the next connection there would start with names its
session lacks, and that a call past the check has its name on the connection it
holds (`CallsReady`), which other calls cannot take away because they hold
others (`ExclusiveHold`). The second is the two together.

### Refinement (the same module)

- `Refinement`: `Spec => ImplementsLending`, the pool implements
  `ConnectionLending` under the mapping of section 2.

`RefInv` is `IInv` with `TokensIssued`, the token of every live connection has
been issued and no two live connections have the same one, and `FirstToken`,
before the pool is created none has: without them a new connection could map
to a number that is lent already. Each critical section then is one abstract
step, because its effect on tokens is the image of its effect on addresses.

### Statement names (`PreparedStatementsProofs`)

- `ImplementsPool`: `Spec => Pool!Spec`, the adapter drives the pool only as
  the pool's specification allows;
- `RunsOwnHash`: what a query runs by name is a text with its own hash;
- `CacheInvariance`: `Spec => []CacheInv`, the cap holds, no name is cached
  twice, and a query runs under the name its text is cached by;
- `QueriesRunOwnText`: `Spec => []RunsOwnText`, and
- `TextsCachedOnce`: `Spec => []CacheIsMap`, where no two texts have one hash
  (`Apart`) or the cache has room for every text (`Roomy`);
- `TextsAreKnown`: `Spec => []TextIsKnown`, where in addition the pool's map has
  room for every text (`RoomyMap`): only its evictions lose a text.

The first makes the pool's theorems theorems of the composition: the second
needs `NamesAreReady` and the types. `QueryInv` says that wherever a name stands
for a text, in the pool's map, on a session or in the call under way, the name
carries the text's hash, and that the pool runs the name the query asked for.
These and `CacheInvariance` hold for any sizes of the two caches, any hashes and
any eviction. The lemmas under the third say what the cache's two operations
do: `lruGet` along a walk only reorders the entries, and `lruSet` puts one in
and drops at most one.

The other three are the boundaries that `PreparedStatements_evicted` and
`PreparedStatements_fifo` are on the far side of. Under `Apart` every key is the
first of its walk (`FirstProbes`), so a name belongs to one text. Under `Roomy`
texts may collide, all of them as in the run, but nothing is evicted
(`NoneEvicted`): a text not yet cached leaves a place free (`RoomLeft`, by
counting the texts that are cached), so a walk ends at its text or at a free
slot (`WalkEnds`, by counting the slots), and since a chain of collisions has no
gap (`Chained`), a walk that stops at a free slot has passed every text with its
hash (`LookupMisses`). Whatever a connection or the pool's map remembers under a
name is then the text the adapter caches under it. For the last, the names in
the pool's map stand for different texts, so it has a place for each
(`RoomInMap`, over the pool's `IndexAgrees`), and every name in the adapter's
cache is in it (`Recorded`). TLC checked each of these invariants on small
instances, with hashes that collide and hashes that do not, before it was
proved.

### Transactions (`SqlTransactionProofs`)

For any number of `begin()` and `savepoint()` calls, any nesting, any writes and
any statements that fail:

- `SettledLeaveNoneOpen`: `Spec => []NoneLeftOpen`, if no flow branches, also
  after something has strayed;
- `AllOrNothing`: `Spec => []Atomic`, and
- `SavepointsUndoOnlyThemselves`: `Spec => []NothingElseUndone`, under `Alone`;
- `OneAtATime`: `Spec => []Exclusive`, under `Alone`, and where every statement
  goes through `begin()` (`Plain = {}`);
- `FailedSavepointsLeaveNothing`: `Spec => []SavepointUndone`, under `Alone`, and
  where the library names the savepoints (`UserName = {}`).

`Alone` is: a callback awaits what it starts, no failing statement ends the
transaction on the server, the client is not closed meanwhile. Section 3 has the
configuration that breaks the property without each hypothesis
(`SqlTransaction_branches`, `SqlTransaction_names`, and the constants of
`sql_transaction_failing`), so none is there for the proof's convenience. Nor is
the `~strayed` in the properties themselves (`SqlTransaction_orphans`).

There are three layers, each inductive over the one before. The first holds
whatever strays; the other two are inductive until something does, which is for
good (`StrayedStays`), so the invariant is `Straight`: the first, and the second
unless `strayed`.

- `OwnerInv`: every frame belongs to a `begin()` that has its transaction open
  (`Owner`). The step that needs more is a `begin()` that settles: a savepoint
  still under way inside it could open a frame later. `Nested` says which
  `begin()` and savepoints are around each savepoint, `Awaiting` that these are in
  their callbacks or in a call made on their handle, so none of them settles
  first. An explicit commit or rollback ends all the frames at once, from
  however deep it is called.
- `StackInv`: what the stack is. The frame at the bottom is the transaction's
  and those above are savepoints of it (`OnStack`); a savepoint under way that is
  no orphan has its frame (`OwnFrame`), and what lies above that frame was done inside it
  (`Above`): ROLLBACK TO discards exactly that. `Above` needs `Chain`, of two
  savepoints under way one is inside the other. RELEASE and ROLLBACK TO find the
  *newest* frame of a name, which may be another savepoint's of the same name:
  `Above` is what makes that one lie inside the caller. `NotLost` and
  `CommittedTogether` then carry the writes that no savepoint undid from the
  stack to the database.
- `UndoneInv`: automatic names differ (`NamesDiffer`), so the newest frame of a
  savepoint's name is its own, and everything it wrote is at or above that
  frame (`WrittenAbove`): rolling back to it leaves nothing.

TLC checked the three layers on the bounds of the runs before they were proved.
Two facts that wellfoundedness of `<` supplies (`Least`, `Greatest`) stand in
for induction where the newest frame is looked up.

### Sender (`IlpSenderProofs`)

- `PiecesSentInOrder`: `Spec => []SentOnceInOrder`;
- `NoRowLost`: `Spec => []NothingLost`;
- `LinesCounted`: `Spec => []CountsLines`;
- `LinesWhole`: `Spec => []LinesAreRows`.

They hold for any number of rows and columns, any buffer size and any automatic
flush, until an io_uring submit has failed: what is invariant is `Inv`, that
`IInv` holds until then. `IInv` strengthens the properties:

- `PiecesInOrder` orders any two pieces rather than neighbours, since a broken
  send cuts the stream anywhere, and says that all are before the piece that is
  written next (`WrittenBefore`), on the wire and in the buffer separately,
  since after a failure the two are no longer one stream;
- `LinesInOrder` extends `LinesAreRows` to the buffer and says that a row is
  open exactly when the stream is not at the start of a line, which is what the
  next `table()` or line end relies on;
- `ConnectsOnce`: before `connect()` nothing has been sent, so connecting cannot
  follow a failure on the same sender.

One lemma per action says what it does to the stream (`Moves`), and one per
property that a step that moves the stream so keeps it.

### Acquisition (`ModelAcquisitionProofs`)

- `TypeCorrect`: `Spec => []TypeOK`;
- `VerifiedOnly`: `Spec => []ReturnedIsModel`, for one process, any number of
  callers, retries and faults.

The inductive invariant adds to them:

- `PathsDiffer`, the model and the partial file are never one inode: a stream
  would otherwise write into the model;
- `StreamIsPartial`, an open stream writes to the file at the partial path,
  and `DropsDamaged`, a file at the final path that does not match is removed
  before a stream is opened;
- `RenamesVerified`, between verification and rename the partial file is the
  model, which is the step the theorem is about;
- `WaitsForAttempt`, the pause before a retry comes only when a retry is left:
  without it the attempts would not stay within `maxRetries` (`TypeOK`).

That there is one process is an assumption of the theorem and not of the
model: `ModelAcquisition_processes` shows `RenamesVerified` false with two.

### Build pipeline (`BuildPipelineProofs`)

For any number of stages, versions and faults:

- `TypeCorrect`: `Spec => []TypeOK`;
- `TarballsDescribed`: `Spec => []JsonDescribesTarball`, unless `--force` is used;
- `DeliversCurrent`: `Spec => []FinishedIsCurrent`, under `Orderly`: no edit
  during a run, no `--force`, no `--from-stage`.

`JsonInv` carries the first: a stage is worked on only while its record is out
of date (`WorksOnStale`), so a tarball that is replaced under a current record
never happens, and a record that is out of date stays so, because its key was
written from pins no newer than the present ones (`KeysArePast`).

`IInv` carries the second. A checkpoint that is current stands for the output the
present pins ask for, unless that was lost (`CheckpointsCurrent`); a run reaches a stage over a current one (`StageBefore`)
and builds from one that is there. The source tree needs a part of its own
(`SourceFirst`): until it is cloned no stage has a record, however many clones
were interrupted. The last is `FinalMissing`: a run skips stages by their
records, so a final output that is gone must have its record gone as well, or
about to go: it holds through `--clean`, which deletes file by file and may be
interrupted, because the records it deletes include the final one's.
`BuildPipeline_midrun` and `BuildPipeline_fromstage` show the property fail where
`Orderly` does not hold.

### Files (`VfsProviderProofs`)

For any names, contents, link targets and depths, and any sequence of calls of
which any may break off at any statement:

- `CallsKeepTree`: `Spec => []KeepsTree`;
- `RenamesLoseNothing`: `Spec => []RenameMoves`,

both under `Literal`, no name is a `LIKE` pattern for another:
`VfsProvider_case` breaks `RenameMoves` without it. What else is excepted is
excepted by the properties themselves.

The calls compute their statements before the first one runs, so the invariant
ties what is left in `todo` to what the rows are by now, with `before` between
them:

- a call that adds one entry has only grown the rows (`Grown`), and every
  directory above its target is there or will be inserted (`Coming`);
  `RootIsDirectory` keeps the root from becoming anything else, which the
  parents of first-level entries rely on;
- `Unlinking`: the one row is there with its statement, or neither is;
- a rename is `Ensuring` its parents, or has `Deleted` what was at the
  destination, or is `Moving`. The last two are `RowsAre(P)`: of what has to
  move, the entries in `P` are where they were, the others at their new paths,
  and nothing else has changed. It is what a broken-off rename keeps, and with
  `P` empty what one that returns has reached.

`RenameMoves` then compares the rows to `RowsAre(P)`. `KeepsTree` needs that a
parent of a moved row is the moved parent (`NewParent`) and, for the
directories that were inserted, that a tree has no gap above a path
(`TreeAbove`): a least missing one would lack its own parent, so `Least` stands
in for the induction. TLC checked the invariant on the bounds of
`vfs_provider_tree`, 4.2 million states, before it was proved.

### Text (`TextProofs`)

For any texts over the scalar classes, any highlights, tab and wrap widths,
viewports, offsets and screen points, and any sequence of calls:

- `RangesCovered`: `BufferSpec => []RangeCovered`;
- `SpansPrioritised`: `BufferSpec => []SpansByPriority`;
- `StyledIsWhereDrawn`: `BufferSpec => StyledWhereDrawn`, an action property;
- `LayoutCuts`: `Spec => []LayoutCutsLines`;
- `DrawnIsExtracted`: `Spec => []DrawnAsExtracted`;
- `DragSelects`: `Spec => []DragSelectsBetween`.

They assume `BufferAssumption` and `ViewAssumption`, which are types: texts are
sequences of scalars, widths and offsets naturals, points pairs of integers,
`None` neither a drag nor a range. The content calls of the buffer are among the
view's steps (`ViewIsOfBuffer`), so what is proved of the buffer holds under a
view.

Here the state machine is simple and the functions are not. The invariants over
the calls are types (`BufferTypeOK`, `ViewTypeOK`), with one exception
(`DragInv`); the rest of the proof is about folds, which are the loops of the
code, and sorted sets. A fold is unrolled into its values after each step, and
what holds at every step is a loop invariant, proved by induction said of a
set: the steps at which it fails have no least one. That needs no theorem with
an operator as a parameter. Sorted sets are described by ranks: the place of an
element is the number of elements up to it.

- `RangesCovered`: after each line of the loop, the pieces so far cover the
  part of the range on the lines so far.
- `SpansPrioritised`: `SweptOK`, the invariant of the sweep over the events:
  the open highlights are those over the present column, and the runs so far
  end there, in order, each in the style of its winner. Between two events the
  open highlights are those over every column (`OpenAreOver`).
- `LayoutCuts`: `Laid` says of a `WrapCursor` that the lines flushed are cells
  of the line cut into runs, each starting where the one before it ended and
  no wider than there is room for unless it is a single cell (`Cutting`), and
  that the line under way has the rest (`UnderWay`). A line is pushed by cells,
  by words or by cells of a word that is too long; each way has its lemma. A
  second fold puts the lines of the text together.
- `DrawnIsExtracted`: the cells of a line are the clusters of the whole text
  that start in it, which is false where a cluster crosses a newline: this is
  one half of `SameClusters`, equal widths are the other. So the column at which
  a virtual line starts, with a newline counted as one column, is the number of
  columns before it in the text, and slicing a line by columns (scrolled, or
  around the dots of a truncation) keeps each cell's key.
- `DragSelects`: `DragInv` relates the drag, which is history, to the selection:
  the selection is the span of the offsets of the two points. Every call either
  leaves the text and the layout alone, and then what is drawn (`Still`), or
  forgets the drag. The keys on the screen grow in reading order, since rows
  follow each other in the columns of the text, so the offset of a point splits
  them: smaller keys before the point, the others from it on.
- `StyledIsWhereDrawn`: after each scalar, and after each chunk, the columns
  highlighted are those of the coloured scalars so far (`Within`, `Between`).
  A cluster is as wide as its scalars together where the two models agree on each
  scalar and only marks extend a cell (`Measured`), so the line and the column the loop counts are those at which the next cell is
  drawn.

Proving found what the runs had not: `DrawnAsExtracted` failed for a tab with a
variation selector at a tab width of one, and `StyledWhereDrawn` for a mark at
the start of a line. In both the two width models of the code disagree; the
properties now exclude them, section 3 describes them, and the run of the view
has a text with the first. `DragSelectsBetween` turned out to hold more widely
than it was stated: scrolled into the middle of a cell, and for points left of
the screen.

### Only model-checked

Liveness, which is out of the prover's reach: `CallsReturn`,
`DestroyedPoolIsFreed`, `CallsSettle`, `CompletesUnlessWhole`, `Recovers`,
`RowsLeave`. Every invariant and every safety property of steps that a passing
run checks is a theorem.

## 5. Plan

Done, in this order: `PostgresPool` with its proofs and its abstract
specification; `PreparedStatements`, composing it; `SqlTransaction`;
`ModelAcquisition` with its proofs; `IlpSender`; `BuildPipeline`; `TextBuffer`
and `TextView`; the proofs of the sender and of `PreparedStatements`;
`VfsProvider`; the proofs of `SqlTransaction`, `BuildPipeline` and
`VfsProvider`; the proofs of `TextBuffer` and `TextView`.

Left:

1. `VfsProvider`: reads through chains of links, a rename to the root, two
   processes on one database.
2. The DLX cache: several launches and crashes over one entry.
3. `BulkRowBuilder` of the sender, and the client's life cycle (a pool opened
   by two first queries at once, `close()` under pending work).
