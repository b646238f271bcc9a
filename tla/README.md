# TLA+ models of workshare: compaction core and workers, subscription filters, Authority list, candidate cache and builtin natives

This directory holds TLA+ models of the code under `src/`, the TLC
configurations that check them, and `PROJECT.json`, which lists the
components, the runs, the map from each definition to the source lines it
models, the findings and the hazards.

The repository is a blockchain node. Its durable substrate is a vendored copy
of goleveldb. The spec (`spec.md`) picks out the core worth specifying: the
leveled compaction engine. Two of its files are in `src/`:

* `src/vendor/github.com/syndtr/goleveldb/leveldb/db_compaction.go`
  (`db_compaction.go` below): the retry wrapper, the error goroutine, both
  background workers and the compaction executor.
* `src/vendor/github.com/syndtr/goleveldb/leveldb/session_compaction.go`
  (`session_compaction.go` below): the picker and the input-set builder.

Beyond the storage engine, the models cover the consensus side of the node
whose code is in `src/`:

* `src/consensus/builtin/authority/authority.go` with its entry type
  (`src/unnamed/part_007`) and natives (`src/unnamed/part_009`): the
  Authority contract's list of block-proposer candidates;
* the PoA `Candidates` object (`src/unnamed/part_009`, package poa) and the
  LRU of them kept by `src/consensus/consensus.go`;
* the native methods of the Prototype and Params contracts
  (`src/consensus/builtin/prototype_native.go`, `params_native.go`, with the
  Prototype binding in `src/unnamed/part_006`) and the environment they run
  in (`src/xenv/env.go`);
* the event and transfer filters of the subscriptions API
  (`src/api/subscriptions/types.go`).

`version.go`, `session.go`, `db.go` and `db_write.go` are not in `src/`.
Where a model needs them (DB.Close, the write path, the Version's levels),
the definition is written from the spec and marked `spec_modelled` in the map.

## 1. Inventory

### Components, their state and operations

| Component | Code | State | Operations |
|---|---|---|---|
| Retry wrapper | `compactionTransact`, `compactionCommit`, `compactionExitTransact` (db_compaction.go 141-267) | loop counter `n`, `backoff`, `lastCnt`, the step's record | run the step; report its error; return on success; exit on close or corruption (the panic calls `revert`); otherwise back off and retry |
| Error state | `compactionError` goroutine (87-139) | label noerr / haserr / hasperr, `compWriteLocking` | receive errors on `compErrSetC`; offer the error on `compErrC`; at hasperr also offer `compPerErrC` and take `writeLockC`; release the lock on close |
| Background workers | `mCompaction`, `tCompaction`, `memCompaction`, `tableCompaction`, `compTrigger*`, `pauseCompaction` (269-351, 680-1001) | command channels `mcompCmdC` / `tcompCmdC`, `tcompPauseC`, `waitQ` | flush a frozen memdb (pausing table compaction); pick and run table compactions; range compactions; ack waiting callers when level 0 drops below the write-pause trigger |
| Executor | `tableCompactionBuilder.run`, `writeLoop`, `flushLoop`, `bufferedIter` (353-678) | `lastUkey`, `lastSeq`, `hasLastUkey`, buffers, open table writer, `rec.addedTables` | merge the inputs in key order; drop superseded entries and dead deletion markers; cut output tables at user-key boundaries; on error delete every output |
| Input-set builder | `newCompaction`, `expand`, `reduce`, `trivial`, `save` / `restore`, `baseLevelForKey`, `shouldStopBefore` (session_compaction.go 157-388) | the two input groups, grandparents `gp`, skip list, cursors `gpi`, `tPtrs`, `skipIndex`, `gpOverlappedBytes` | expand level-0 inputs and the level+1 overlap; grow inputs when the overlap does not grow; drop untouched middle level+1 tables; detect a trivial move; decide where outputs must end |
| Picker | `pickCompaction`, `pickTablesSorted`, `getCompactionRange`, `tableRangeCompaction` (26-155, 743-785) | the current Version's score, level, seek candidate, compaction pointers | choose a level and file by score, compaction pointer or overflow prefix; else the seek candidate; range compactions over a key range with a size cap |
| Catalog | Version / session (not in `src/`) | levels of table files, file and sequence counters | apply a record atomically; reference-count Versions |
| Statistics | `cStat`, `cStatStaging`, `cStats` (24-85) | per-level counters under a mutex | add, read |
| Authority list | `consensus/builtin/authority/authority.go` | entries keyed by node master with prev/next, head and tail pointers | Add, Revoke, Update, Get, Candidates, AllCandidates, First, Next |
| Candidates cache | `poa.Candidates` (part_009 153-247), `candidatesCache` LRU (consensus.go 36) | the list slice, its masters index, `satisfied`, `referenced` | NewCandidates, Copy, Pick, Update, InvalidateCache; eviction from the LRU |
| Native environment | `xenv.Environment` (env.go 83-130) | the contract's gas, the EVM's log list | UseGas (panics out of gas), Log (charges, then adds), Call (recovers out of gas only) |
| Builtin natives | prototype_native.go, params_native.go | Prototype storage of an account (master, users, sponsors, current sponsor, credit plan), Params storage | 17 Prototype natives, 3 Params natives |

The rest of `src/` (block processing, API types, tests) is sequential code
over external libraries; `PROJECT.json` lists it as not modelled, with the
reason.

### How the components interact

* **Channels.** Workers report every step's error to `compactionError` over the
  unbuffered `compErrSetC`. They learn of a persistent error from
  `compPerErrC` and of shutdown from the closed `closeC`. Foreground callers
  reach the workers through single-slot command channels. The flush worker
  pauses the table worker through `tcompPauseC`.
* **Locks.** `compCommitLk` serialises the catalog commits of the two workers.
  `writeLockC` is the writers' lock; `compactionError` takes it to stop writes
  after a persistent error, and Close takes it last.
* **Shared state.** The current Version is read by the picker and the builder.
  Only the committer replaces it.
* **Panics as control flow.** `compactionExitTransact` panics. The panic
  unwinds through `compactionTransact`'s recover (which calls `revert`),
  through `compactionCommit`'s deferred unlock, and ends the worker goroutine.

### What is hard

* Every `select` in the retry loop can see `closeC` at any moment: after a
  successful run, during the backoff, before the commit.
* Two workers commit concurrently. An error from one changes what the other's
  transact does.
* Failures: transient I/O errors are retried and corruption is fatal. Any step
  may fail after writing part of its output.
* The executor's dropping rules depend on key order, on cursors carried across
  calls, and on restoring those cursors before each retry.
* Hand-offs between goroutines: pause and resume, waiting callers acked on the
  level-0 count, and acks on channels whose caller may already be gone.

### Properties that make each component correct

* Retry wrapper and error state:
  * A file in the catalog is on storage.
  * Failed attempts leak no files while the DB is open.
  * Close and blocked writers always return.
  * A persistent error stops commits (the spec says so; the code does not).
  * The backoff grows exponentially (the spec says so; the code does not).
* Executor: for every snapshot at or above `minSeq`, a read of any key through
  the outputs plus the deeper levels returns what it returned through the
  inputs. A deletion marker survives while a deeper level holds the key. No
  user key spans two output tables.
* Builder and picker:
  * Level >= 1 stays sorted and disjoint after every commit.
  * A trivial move rewrites no data.
  * `expand` never grows the level+1 set.
  * `reduce` skips only tables no source key falls into.
  * Building twice from the same Version gives the same compaction.
* Catalog as a whole: flushes and compactions never change what a read
  returns. This is a refinement of a plain key-value map.
* Workers:
  * A flush is never starved by a table compaction.
  * A waiting caller is eventually acked.
  * No two goroutines wait on each other forever.
* Authority list:
  * The list is a well-formed doubly linked list from head to tail.
  * Listed means linked or sole head.
  * The contract behaves as a plain list: Revoke unlinks exactly the entry.
* Candidates cache: a copy never sees another copy's update (value
  semantics), though copies share one slice.
* Natives: a call that fails leaves no event; an early `false` return
  changes nothing; no native panics on a block the chain lacks.

## 2. Plan

Modules, in order of importance. A module builds on the ones before it where
noted.

1. **CompactionTransact** (done). The retry wrapper, the error goroutine, both
   workers' job shape (build, then commit under the commit lock), a writer and
   Close. This is where close, failure and the two workers interleave.
2. **CompactionBuilder** (done). One compaction's merge loop over every
   input of up to four internal keys, with `baseLevelForKey` cursors over
   deeper levels, grandparent and skip-list stops, the overflow prefix, and
   retry with `restore`. It is checked against a reference: the value every
   live snapshot reads.
3. **LevelCatalog** (not started). Versions as levels of files with user-key
   ranges: flush, `pickCompaction`, `getCompactionRange`, `expand`, `reduce`
   and `trivial`, refined to an abstract key-value map. Every one of these
   reads a `Version`'s level lists, and `version.go` is not in `src/`; the
   model would be written from the spec nearly throughout. The workers model
   below keeps only the level-0 table count.
4. **CompactionWorkers** (done). `mCompaction` and `tCompaction` with their
   command channels, the pause/resume handshake (also inside a table build),
   `compTrigger`, `compTriggerWait`/`compTriggerRange` and `waitQ`, the
   level-0 write pause, the error goroutine and Close. Liveness: waiters
   return, Close ends every goroutine.
5. **Authority** (done), with the abstract **AuthorityList** it is checked
   against by refinement.
6. **CandidatesCache** (done), refining the value semantics of
   **CandidatesValue**.
7. **NativeEnv** and **BuiltinNatives** (done): the natives as programs of
   gas charges, writes and events, run by the environment's Call.

Runs of later modules use two or three user keys, sequence numbers up to 4,
three levels and up to four files. These are enough for level-0 overlap, a
grandparent level, and a deletion marker with data below it.

## 3. What is modelled now

### CompactionTransact

`CompactionTransact.tla`, instantiated by `MCCompactionTransact.tla`.

**Actors.** There are two workers, `"mem"` (mCompaction / memCompaction) and
`"table"` (tCompaction / tableCompaction). Each runs up to `MaxJobs` jobs, and
a job is:

1. a build transact: flushMemdb, or the table builder;
2. `compactionCommit`: take `compCommitLk`, then a commit transact whose run
   is `s.commit`.

The other actors are the `compactionError` goroutine, one foreground writer,
and DB.Close.

**State.**
* `pc` is where each worker's goroutine is.
* `n`, `backoff`, `lastCnt`, `cnt` and `res` are the locals of
  `compactionTransact`.
* `added` is `rec.addedTables`.
* `errState` and `compWriteLocking` belong to `compactionError`.
* `writeLock` says who holds `writeLockC`.
* `closed` and `closeC` are the closed flag and the closed channel.
* `stor` is the set of table files on storage.
* `catalog` is the set of files the current Version names.

Table contents are abstracted to one file name per build attempt,
`<<worker, job, attempt>>`, because every attempt allocates fresh file numbers.

**Actions.**
* One action per step of the loop: `TransactTop`, `Run`, and the three cases
  of the report select (`ReportErr`, `ReportPerErr`, `ReportClosed`).
* The backoff wait: `BackoffFire` and `BackoffClosed`.
* `CommitLock`, `StartJob` and `WorkerReturn`.
* `ErrWriteLock` and `ErrClose` for the error goroutine.
* The writer's steps and Close's steps. These two are modelled from the spec
  (db_write.go and db.go are not in `src/`).

**How the code maps.**
* `Exit` is the whole panic path: revert (build only), the deferred commit
  unlock, and the end of the goroutine.
* `BuildStor` is the attempt writing its file and the deferred cleanup
  removing it on error.
* `NextBackoff` computes `backoff *= backoffMul` as the code does, a product
  of two Durations.
  `TypeOK` keeps `backoff` within `backoffMin..backoffMax`. That holds only
  because of the cap after the product (lines 223-225); without the cap the
  second failure already leaves the range.

**Bounds.**
* `MaxJobs = 1` per worker.
* `MaxFailures` is 1 (2 with backoff disabled): failing attempts per
  transact. After that, the run succeeds.
* `MaxCnt = 1`: the transact counter, which decides whether the backoff
  resets.

With these bounds, every ordering of:
* a successful run,
* a failed run,
* a corruption,
* closeC,
* the other worker's commit, and
* the writer

is reachable within one job of each worker.

**Fairness.** Weak fairness on every goroutine step except the two that
callers choose to take: starting a write and calling Close. Go picks uniformly
among the ready cases of a select, so a case that stays ready is eventually
taken. That justifies weak fairness per case.

**Runs.**

| Run | cfg | Checks | Result |
|---|---|---|---|
| transact | CompactionTransact.cfg | TypeOK, CatalogOnStorage, NoLeakWhileOpen, CloseCompletes, WriterReturns | pass (about 53k states) |
| transact_perr_commit | CompactionTransactPerErr.cfg | NoCommitAfterPersistentError | violation |
| transact_backoff | CompactionTransactBackoff.cfg | BackoffExponential | violation |

`CompactionTransactNoBackoff.cfg` checks the same properties with
`DisableBackoff` set and two failures per transact (the `DisableBackoff`
arm of `AfterReport`). It passes; it is kept as an extra configuration and
is not one of the project's runs.

What the passing run shows:

* **CatalogOnStorage.** A run may succeed and then meet `closeC`, and the
  revert then deletes what the run wrote. That revert is only ever the
  build's, never after a commit.
* **NoLeakWhileOpen.** An output file outside the catalog belongs to a job
  still in flight, unless the DB is closed or has a persistent error. Close
  between the build and the commit does leave files. The open-time cleanup
  (not in `src/`) removes them.
* **CloseCompletes.** `compactionError` releases the write lock on close, and
  the panic path releases `compCommitLk`.
* **WriterReturns.** A writer blocked while the error goroutine holds the
  lock gets the persistent error.

Each property has a fault variant in the module. A variant is a plausible bug
in the code it models: a dropped cleanup, a revert on the wrong transact, a
lock kept on close, or the lock taken on a transient error. Substituting the
variant makes TLC report that property violated.

**Findings.**

1. **Commits continue after a persistent error.** `compactionTransact` runs the
   step first and consults the error state afterwards. A commit whose run
   succeeds is therefore applied even after the other worker drove the engine
   to a persistent error. Spec section 7 says all compaction attempts must fail
   from then on.
2. **The backoff is not exponential.** `backoff *= backoffMul` multiplies 1s
   by 2s, giving 2e18 ns. The cap then turns that into 8s. The backoff
   sequence is 1s, 8s, 8s, … rather than the exponential growth spec section
   4.5 describes.

### CompactionBuilder

Models `tableCompactionBuilder.run` and `writeLoop` (db_compaction.go
428-668) with the cursor operations of the compaction object
(session_compaction.go: `save`, `restore`, `shouldStopBefore`,
`baseLevelForKey`).

**State.** The input never changes during a build: `entries` (the merged
iterator, a sorted sequence of records `[uk, seq, kt]`), `skips` (what
`reduce` left in level L+1), `deep` (levels L+2 and below) and `minSeq`.
The rest is `cur` (the cursors `gpi`, `seenKey`, `gpOverlappedBytes`,
`tPtrs`, `skipIndex`), `snap` (what `save` stored), `attempts`, `pc` and
`out` (the tables of the successful attempt).

**Actions.** The run loop and the writer are two goroutines joined by a
channel. Each entry carries its `canStop` and `shouldStop` flags, so the
tables written depend only on the input. One attempt is therefore one step:
`Step` (the loop body) folded over the input, starting from `Restore`.
* `RunSucceeds`: the whole input, then `Finish` flushes the last table.
* `RunFails`: the loop stopped after any prefix (a write, create or read
  error). Outputs are removed and the cursors stay where the loop left them;
  this is what `restore` must undo.
* `RunCorrupt`: strict mode meets an undecodable key.
* `Terminated`: the build has ended.

`ParsedStep` keeps the code's order: `shouldStopBefore` first, then the
first-occurrence and prefix test, then the drop switch. `baseLevelForKey` is
evaluated only when case (A) does not apply, as the `fallthrough` makes it.

**Data abstraction.** User keys are 1..4 and an entry's value is its sequence
number. A deeper table holds a put (seq 0) of every key in its range. Sizes
are one unit per entry and per table.

**Bounds.** The CompactionBuilder.cfg inputs are every sequence of up to 4
entries with distinct sequences 1..4. That allows two or three versions of
one key and a deletion with data below it. It has up to two deeper levels,
no skipped table or the level-L+1 table [2,2] that `reduce` left in place,
key 4 under the overflow prefix, minSeq values 0, 2 and 4, and one failed
attempt. That is about 1.6M states in about a minute. Each violation needs
three entries.

**Runs.**

| Run | cfg | Checks | Result |
|---|---|---|---|
| builder | CompactionBuilder.cfg | TypeOK, ReadEquivalence, OutputTablesDisjoint, AvoidsSkipsWithoutDrops, PrefixKeptWithoutDrops | pass |
| builder_skip_drop | CompactionBuilderSkipDrop.cfg | OutputsAvoidSkips | violation |
| builder_corrupt | CompactionBuilderCorrupt.cfg | ReadEquivalence (non-strict) | violation |

`CompactionBuilderPrefixDrop.cfg` is kept as an extra configuration: it
checks PrefixNotMixed and TLC finds it violated by the input of finding 4.
`PROJECT.json` records that finding together with finding 3, whose cause it
shares.

The passing runs show the following:
* Dropping entries is safe with any cursor history, including a retry.
* User keys never hop between output tables.
* Stops are never lost while nothing is dropped: `AvoidsSkipsWithoutDrops`
  and `PrefixKeptWithoutDrops` are OutputsAvoidSkips and PrefixNotMixed
  where minSeq is 0, since with minSeq 0 no entry is obsolete.

Without `restore`, a retry drops a deletion marker that still covers deeper
data, and a retry misses a skip crossing. Both are caught.

**Findings.**

3. **A dropped key takes its stop with it.** `shouldStopBefore` advances
   `skipIndex` and returns the stop. The entry is then dropped with
   `continue` (line 613), and only appended entries carry flags. For the
   input 1@1 put, 3@2 del, 4@3 put with skip table [2,2] and minSeq 2, one
   output table spans 1..4. It overlaps a level-L+1 table.
4. **The same loss mixes prefix classes.** `lastHasOPrefix` is updated for
   the dropped key (line 594). Prefixed and plain keys then share a table,
   against spec section 4.3 (iii).
5. **An undecodable key resurrects deleted data.** This happens in non-strict
   mode. Consider 1@3 del, 1@2 undecodable, 1@1 put with minSeq 4: the marker
   is dropped as obsolete. The corrupt key then resets `lastSeq`, so the put
   is kept as a first occurrence, and a read of key 1 now returns it. The same
   reset lets a user key span two tables.

### CompactionWorkers

`CompactionWorkers.tla` models the command loops of the two compaction
goroutines in `db_compaction.go`, the callers that wait on them, the error
goroutine and Close. The retry loop inside one flush or compaction is
CompactionTransact's subject; here a flush or a table build is one step that
completes or exits its goroutine (closed, persistent error, corruption).
Level data is abstracted to `L0`, the number of level-0 tables.

**State.**
* `tpc`, `x`, `waitQ` and `pick`: where `tCompaction` is (lines 925-1000),
  the command it holds, its queue of waiting `cAuto` commands, and how many
  level-0 tables the running compaction takes.
* `mpc`, `mx` and `paused`: where `mCompaction`/`memCompaction` is
  (lines 269-350, 893-923), its command, and whether its pause send on
  `tcompPauseC` succeeded (`resumeC != nil`).
* `errState`: the label `compactionError` is at (lines 87-136).
* `cpc`, `ckind`, `calls`, `ret` per caller of `compTriggerWait` /
  `compTriggerRange` (lines 850-891), and `open`, the ack channels not yet
  closed by the caller's `defer close(ch)`.

**Actions.** Every receive on an unbuffered channel is a joint action of
sender and receiver. A `select` with `default` takes the default only when
no case is ready (`TDefault`). `compTrigger`'s non-blocking send succeeds
only while `tCompaction` is parked in its blocking select (`MTrigger`).
* `Ack(k, r)` is `cAuto.ack`/`cRange.ack`: a send on a closed channel panics
  and is recovered (a no-op); a send on an open one blocks until its caller
  receives it.
* `TCmd` is the switch on the command (lines 981-991): a waiting `cAuto` is
  acked at once when `resumeWrite` holds, else queued; a range command runs.
* `TAuto`, `TRange` and `TBuild` are `tableAutoCompaction`,
  `tableRangeCompaction` and `tableCompaction`. Picking is abstract: an
  automatic compaction takes at least one level-0 table, a range compaction
  any number.
* `TBuildPause` is the pause poll inside `tableCompactionBuilder.run`
  (lines 636-645): a flush may run while a table is half built.
* `MFlush` is the flush and commit (which may add one level-0 table) and the
  resume hand-off; `MPausePerErr` is the `compPerErrC` case, which flushes
  without pausing.
* `ErrSet` is any error `compactionTransact` hands the error goroutine;
  `ErrOffer` its offer on `compErrC`; `Close` closes `closeC`.

**Properties** (run `workers`).
* `NoTableCompactionDuringFlush`: while memCompaction holds the pause,
  tCompaction is in `pauseCompaction` (between commands or mid-build) or has
  exited.
* `ReleasedWhenWritable` (action property): a writer waiting in
  `compTriggerWait(tcompCmdC)` is released with nil only while level 0 is
  below the write-pause trigger, unless a persistent error or Close makes
  writes fail anyway.
* `WaiterReturns`: every call returns.
* `CloseTerminates`: after Close, both workers and `compactionError` return
  and every caller is released.

**Fairness.** Weak fairness on each goroutine's own steps (`TStep`, `MStep`,
`ErrExit`, each `ErrOffer(c)` and `CallClosed(c)`): a runnable goroutine is
eventually scheduled by Go's runtime. There is none on `Call`, `ErrSet` or
`Close`, which callers and failures may never do.

**Bounds.** Two callers, one call each of any kind; `L0Trigger = 2` and
`PauseTrigger = 3` (defaults 4 and 12, scaled so that "needs compaction but
writes may resume" and "writes paused" both occur); level 0 starts anywhere
in 0..3. A second call per caller makes the state space too large for the
time limit; one call each already lets two waiters queue, an ack race a
`compErrC` return, and a flush pause a build. 381,733 states, about one
minute.

### SubscriptionFilters

`SubscriptionFilters.tla` models the two filters of the subscriptions API
(`src/api/subscriptions/types.go`, lines 140-196). `EventMatch` is
`EventFilter.Match`: the contract address, then `MatchTopic` (the closure
`matchTopic`) for Topic0..Topic4, each a nil field that matches anything or
a value that must equal the event's topic at that 0-based index, with the
length check `len(event.Topics) <= index` first. `TransferMatch` is
`TransferFilter.Match` over the transaction origin, sender and recipient.

The subscription that reads events and transfers from the chain is not in
`src/`. In the model a subscription keeps the filter it was opened with
(`Init`) and is handed one event or transfer after another (`EventArrives`,
`TransferArrives`); `matched` is what Match decided.

**Property** (run `subscription_filters`). `MatchIsForgetting` compares
Match with a reference definition of a different shape. The filters an item
passes are the item's exact description with any set of its fields
forgotten (set to nil); a topic position the event lacks is nil in that
description, so no filter that sets it can pass. The run checks every
filter against every item.

**Bounds.** Two addresses and two topic words, so a set field can match or
fail; events with 0 to 4 topics (LOG0..LOG4), so every topic position meets
events that have it and events too short for it. 729 event filters and 27
transfer filters, 46,170 states, a few seconds. Topic4 never matches an
event from the EVM, which has at most four topics; the model shows that too.

The conversions in the same file (`convertBlock`, `convertTransfer`,
`convertEvent`) copy fields into JSON structs and are not modelled.

### Authority and AuthorityList

`Authority.tla`, instantiated by `MCAuthority.tla`, models the Authority
contract's storage (authority.go): `entry` maps each node master to its
slot (endorsor, identity, active, prev, next), and `head` and `tail` are the
two pointer slots. An entry equal to the empty entry is stored as nothing
(`setEntry`), so `IsEmpty` decides both "absent" and "erased".

**Actions.** `Add`, `Revoke` and `Update` are whole methods, one atomic action
each: a native call runs inside one transaction and never interleaves. Each
has its refusal branch (`Add` of a non-empty slot, `Revoke` and `Update` of an
unlinked entry) and its success branch with every storage write the method
makes. `Call` records which method ran and what it returned. The reads are
operators: `Get` (listed means linked, or the head), `AllCandidates` and
`Candidates` (the walk from the head, with a step bound where the Go loop
would not end), and `NativeFirst`/`NativeNext`/`NativeIsEndorsed` with the
natives' conversions (nil becomes the zero address).

**AuthorityList** is what the contract promises its callers: an ordered
list of node masters with a record each; Add appends a master with no record,
Revoke takes a listed master off and keeps its record inactive, Update sets a
listed master's activity; each returns whether it did anything.
`RefinesAuthorityList` maps the walk from the head to the list and the
non-empty entries to the records.

**Bounds.** Three masters (symmetric), two endorsors with balances 10 and 20,
endorsements 0, 10, 20 and limits 0..3: every shape of a list of up to three
nodes, revoked from the front, middle, back and as the only node.

| Run | cfg | Checks | Result |
|---|---|---|---|
| authority | Authority.cfg | TypeOK, ListWellFormed, GetAgreesWithList, CandidatesArePrefix | pass (975 states) |
| authority_refinement | AuthorityRefinement.cfg | RefinesAuthorityList | violation |

* **ListWellFormed**: after any sequence of calls the walk from the head ends
  at the tail, never repeats, each prev is the predecessor and nothing off the
  list is linked. A Revoke that forgets to relink the next entry breaks it.
* **GetAgreesWithList**: `Get`'s listed flag (what `native_get` and
  `native_isEndorsed` return) agrees with the walk, including the sole node,
  which only the head check catches.
* **CandidatesArePrefix**: `Candidates(endorsement, limit)` is the first
  `limit` endorsed candidates in list order.

**Finding 6. The only candidate can never be revoked.** `Revoke` and `Update`
refuse an entry that is not linked, and the only node of the list has
neither prev nor next. After `Add(m1)`, `Revoke(m1)` returns false and m1
stays listed (and `Update(m1, …)` fails), while `Get` reports it listed. The
refinement check finds this in two steps; the authority test only revokes
from a three-node list.

### CandidatesCache and CandidatesValue

`CandidatesCache.tla` (instantiated by `MCCandidatesCache.tla`) models
`poa.Candidates`. The list slice's backing array is an id in `ArrayIds`
whose contents `arr` holds; `list[h]` is the array object `h` points to, and
`masters`, `referenced` and `satisfied` are its fields. Copies share the
array, as `copy := *c` does. Candidate structs are never changed in place
(`Update` stores a modified copy), so array elements are values.

**Actions.** `NewCandidates` (index each master, the last index winning),
`Copy` (mark referenced, then copy the struct, flag included), `Update`
(unknown master; in place; or clone the array first when referenced),
`Pick` (recompute `satisfied` when empty, up to `MaxBlockProposers`),
`PickCached`, `InvalidateCache`, and `Drop`: an object leaves consensus's
LRU of 16 or the block being checked and becomes garbage, and so does an
array no object points to.

**CandidatesValue** gives every object its own list value and its own cache:
Copy copies the value, Update changes only that object's list.
`RefinesCandidatesValue` maps each object to the contents of its array.

**Bounds.** Three objects, four arrays (a copy on write always finds a free
one), three masters of which one is not a candidate, one endorsed master,
`MaxBlockProposers = 1`: chains of copies of copies, updates on either side,
picks before and after.

| Run | cfg | Checks | Result |
|---|---|---|---|
| candidates_cache | CandidatesCache.cfg | TypeOK, SharedArraysReferenced, RefinesCandidatesValue | pass (about 105k states, 30 s) |

* **SharedArraysReferenced**: live objects sharing an array are all marked;
  copying before marking leaves the copy unmarked and breaks it.
* **RefinesCandidatesValue**: no object ever sees another's update. An
  `Update` that writes in place without the referenced check breaks it.
* **TypeOK** includes that the shared masters index still points at each
  master's entry (an index off by one breaks it).

### NativeEnv and BuiltinNatives

`NativeEnv.tla` models the environment of a native method (env.go). A native
is straight-line code whose reads come before its writes, so it is given as
a *program*: the sequence of its gas charges (`Charge`), storage writes
(`Write`), events (`LogEvent`, priced as `LogGas + LogTopicGas·topics +
LogDataGas·bytes`) and fatal errors (`Fail`), with its output. `Exec` runs a
program as the code does: `UseGas` sets `OutOfGas` and stops when the gas does
not cover a charge, `EmitLog` charges before it adds the event, and `Call`
returns the output only when the program ran to the end.

`BuiltinNatives.tla` (instantiated by `MCBuiltinNatives.tla`) gives every
native of the Prototype and Params contracts as its program, for one bound
account: the early `false` returns of addUser, removeUser, sponsor, unsponsor
and selectSponsor; the uint32 block-window guards of balanceAtBlock and
energyAtBlock and the chain lookup (`BlockSummary`), which panics for a block
above the parent; the executor's conversion to an address (the value modulo
`AddressSpace`). `Invoke` calls a native with gas from `GasOffers`, which
runs out before, between and after the charges of each native.

**Data abstraction.** The user object is a flag (it exists or not); credit
arithmetic and other accounts' balances, energy and storage are symbolic
values naming what was read. `UInt32` is 2^30 in the MC module, because TLC's
integers are 32-bit signed; with `MaxStateHistory = 65535` far below it, the
wrap-around case (block number near the top, current number near zero) is
the same.

| Run | cfg | Checks | Result |
|---|---|---|---|
| builtin_natives | BuiltinNatives.cfg | TypeOK, FailedCallEmitsNoEvent, AtBlockWindow, ReturnsMatchEffects | pass (about 31k states, 40 s) |

* **TypeOK** includes that no native call ends in a panic.
* **FailedCallEmitsNoEvent**: a call that runs out of gas, even in `Log`
  after its write, leaves no event. Adding the event before charging for it
  breaks it.
* **AtBlockWindow**: balanceAtBlock answers for exactly the last
  `MaxStateHistory + 1` blocks and returns zero elsewhere, without panicking,
  at the uint32 wrap included. Dropping the `BlockNumber > ctx.Number` guard
  lets block 2^w - 1 at current block 0 wrap to a difference of 1 and panic
  in `GetBlockSummary`.
* **ReturnsMatchEffects**: addUser, removeUser, sponsor and unsponsor return
  true exactly when they changed storage, and then log one event.

The natives write storage before `Log` charges for the event, so a call that
runs out of gas there returns `ErrOutOfGas` with the write done. Only the
EVM's revert to its snapshot, which is not in `src/`, undoes it; the model
shows the write left behind (a hazard in `PROJECT.json`).

## 4. Not modelled

* Statistics: counters, no control.
* The table file format, the iterators, memdb and the journal: the spec marks
  them as external.
* Block processing (`consensus.go` Process, NewRuntimeForReplay): sequential
  checks before `validate`, which is not in `src/`.
* The message conversions of `api/subscriptions` (`convertBlock`,
  `convertTransfer`, `convertEvent`), the `api/debug` types and the node
  master command: field copies into JSON structs and HTTP glue, with no
  control beyond a signer-recovery error. The filters of
  `api/subscriptions` are modelled (SubscriptionFilters).
* The EVM's snapshot and revert around a native call, and the contracts that
  call the natives: not in `src/`. Argument decoding (`ParseArgs`) and the
  gas of the Authority natives are not modelled.
* `PROJECT.json` gives a reason per component.
