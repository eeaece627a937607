# TLA+ specifications of clio_migrator

`clio_migrator` is a fork of clio, the XRP Ledger API server. It builds two
tools, `clio_migrator` and `clio_verifier`, on top of the whole clio library.
The migrator backfills three Cassandra tables (`nf_tokens`, `nf_token_uris`,
`issuer_nf_tokens_v2`) for ledgers that an older clio wrote, while an upgraded
clio keeps writing new ledgers to the same database. This directory holds TLA+
models of the migrator and of the clio it is built on, TLC configurations that
check them on small instances, and TLAPS proofs.

## Inventory

| Part | State | Operations | What is hard | What makes it correct |
|---|---|---|---|---|
| `src/main/main.cpp` migrator | ledger range read at the start, paging position, batch of NFT records, retry counter | steps 1 to 3, retries, batches | clio writes the same tables meanwhile; reads time out; the tool is killed and run again; last partial batch; re-minted tokens | success means that the range is migrated; newer rows are left alone; it ends |
| `src/main/verify.cpp` verifier | paging position, records of a page | page through a ledger, compare each NFT with the database | it runs while clio writes | no false alarm on a migrated database |
| `src/backend/CassandraBackend.*` writes | outstanding counter, two mutexes and condition variables, one callback record per request | throttle, send, fail, back off, retry, finish, `sync()` | counter changed outside the mutex; lost wakeups; retries | the counter is exact; `sync()` is a barrier |
| `CassandraBackend` commit | `ledger_range` rows, `range` cache | `finishWrites`, conditional update of the range | two writers; a conditional update that times out after it was applied | a ledger becomes visible only when all of it is written; one writer commits it |
| `src/backend/SimpleCache` | map from key to (seq, blob), `latestSeq_`, `full_`, `deletes_` | `update`, `setFull`, `get`, successor, predecessor | background loads of an old ledger race updates of newer ones | a full cache answers exactly for the latest ledger |
| `src/backend/BackendInterface` reads, tables `objects`, `successor`, `diff` | rows | `fetchLedgerPage`, `fetchBookOffers`, `fetchLedgerDiff`, successor walk, online delete | links are written only where they change; walks mix cache and database | every object once, in order, for every ledger of the range |
| transaction tables | rows of `account_tx`, `nf_token_transactions`, `transactions`, `ledger_transactions` | insert, page through a history | a ledger is being written while clients page | complete histories, no torn answers |
| `src/etl/ReportingETL` | `lastPublishedSequence_`, `writeConflict_`, `stopping_`, queues, `publishStrand_` | extract, transform, load, publish, monitor, load cache | threads, bounded queues, shutdown, a second writer | ledgers are written in order without gaps; nobody blocks for ever |
| `src/etl/ETLHelpers` | `NetworkValidatedLedgers::max_`, `ThreadSafeQueue` | push, pop, wait with and without timeout | blocking and wakeup | bounded, first in first out, no lost wakeup |
| `src/etl/ETLSource`, `ProbingETLSource`, load balancer | connection state, ranges, the current probe | connect, reconnect, pause, resume, fetch, forward | closes, timers and handshakes of two probes overlap | a rippled that is up is connected to in the end; calls get an answer if there is one |
| `src/etl/NFTHelpers` | none | records from transactions and objects | which record of a ledger survives | the surviving record is the last one |
| `src/subscriptions`, `rpc/handlers/Subscribe.cpp` | subscriber sets and maps, counts, `cleanupFuncs_` | subscribe, unsubscribe, snapshot, publish, forward, cleanup | several strands against requests and the death of sessions | everything once from the answer on, nothing for the dead |
| `src/webserver` sessions, `DOSGuard` | send queue, `sending_`, `dead_`, counters per address | read, queue, write, fail, sweep | callbacks after failure, counters | one write at a time, in order; counters balance |
| `src/rpc` core (`RPC.cpp`, `WorkQueue`, `Counters`) | queue size, counters | contexts, dispatch, forward, count | limits under concurrency; errors on every path | accepted work runs once; counters balance |
| `src/rpc/handlers`, `ngHandlers`, `common` | none | answer one request from the database | markers; both sides of a trust line; funding of offers; ledgers that arrive meanwhile | listings are complete; different handlers agree |
| `src/config`, `src/log`, `src/util` | none of interest | parse, log | none | out of scope |

How the parts interact. The ETL (`ReportingETL`) fetches validated ledgers from
a rippled (`ETLSource`), writes them through `CassandraBackend`, updates
`SimpleCache`, moves the range that requests see (`BackendInterface::range`) and
hands each ledger to the `SubscriptionManager`. Sessions of the web server read
requests, pass the `DOSGuard` and the `WorkQueue`, and run handlers that read
from the cache and the database or forward to a rippled. Several clio processes
may share a database; they meet only in its tables, above all in the conditional
update of `ledger_range`. The migrator is one more process on the same database:
it shares tables with clio and no memory, and uses the same asynchronous writes.

The hard behaviour, listed line by line as hazards in `PROJECT.json`: the
migrator against a clio that keeps writing (and against itself when it is killed
and run again); the counter and the condition variables of the asynchronous
writes; the threads and queues of the ETL pipeline; two writers that take over
from each other; the cache that is filled with an old ledger while newer ones
are applied; tables that hold a ledger only as differences; reads that meet a
ledger being written; connections to rippled whose handlers overlap; and
sessions whose callbacks, jobs and subscriptions outlive the connection.

## Modules

| Module | Models | State | Actions |
|---|---|---|---|
| `Migrator` | `src/main/main.cpp`, the NFT writes of `CassandraBackend`, the NFT part of a clio's ETL, the comparison of `verify.cpp` | rows of the five tables; clio's pending writes; the tool's step, cursor, page, batch, pending writes, attempts | `BeginMigration` (range read), `GetTxPage` and `FetchTransactions` (step 1), `GetObjectPage` (step 2), `Synced` (the `sync()` after each step), `DropOldTable` (step 3), `ReadTimeout`, `WriteLands` (a write, acknowledged or not), `Restart`; for clio `loadInitialLedger`, `buildNextLedger`, `finishWrites` and its writes |
| `AsyncWrites` | `executeAsyncWrite`, `processAsyncWrite`, the two counters' functions and `sync()` of `CassandraBackend` | the counter, both mutexes with the threads waiting on them, the step of every writer and request | one action for each lock, test, wait, wakeup, callback, timer and notification |
| `EtlPipeline` | `ReportingETL::runETLPipeline`, `ThreadSafeQueue` | queues, a program counter for each thread, the database's newest ledger | the steps of extractors, transformer and the joining thread |
| `EtlMonitor` | `ReportingETL::monitor` and `publishLedger`, `finishWrites` and the conditional update of the range | range in the database, range seen by requests, newest ledger in the cache, `writing_`, `publishStrand_`, `lastCloseTime_`, the newest ledger that closed over ten minutes ago, each thread's call of `publishLedger` | the loop of the monitor, the pipeline's build and commit (with a timeout), the steps of `publishLedger`, which sends a ledger or skips it for its age, `TimePasses` |
| `LedgerFeed` | what `EtlMonitor` promises to subscribers: an abstract specification | ledgers committed, where the feed starts, ledgers sent | `Load`, `Start`, `Commit`, `Send` |
| `SimpleCache` | `backend/SimpleCache.cpp` | none: operators on a record | `Update`, `SetFull`, `Get`, `GetSuccessor`, `GetPredecessor` |
| `LedgerCache` (uses `SimpleCache`) | `ReportingETL::loadCache`, `loadCacheFromClioPeer`, `loadCacheFromDb`, `doLedgerData` with `out_of_order` | every ledger's objects, the cache, the peer's conversation, the walks over the key space | ledgers committed and applied, requests and answers, pages, failures, shutdown |
| `LedgerState` | the object, successor and diff tables: `loadInitialLedger`, `ETLSource::loadInitialLedger` (`AsyncCallData`), `buildNextLedger`, `fetchLedgerPage`, `fetchBookOffers`, `fetchSuccessor`, `fetchLedgerDiff`, `doOnlineDelete` | rows of the tables, the range, whether the cache is full, a client's walk | first load, next ledger, delete, restart and load of the cache, pages |
| `RpcHelpers` | parameters, errors, ledgers and markers of `rpc/RPCHelpers.cpp` | none: operators on JSON values | the `get...` functions, `ledgerInfoFromRequest`, `parseAccountCursor` |
| `TxHistory` (uses `RpcHelpers`) | writes and reads of the transaction tables; `doAccountTx`, `doNFTHistory` (`traverseTransactions`), `doTx`, `doTransactionEntry`, `doLedger` | rows written and missing of the ledger being written, the range, one client's request and pages | rows written in any order, commit, a request and its steps (the range, the header, then the rows) |
| `AccountRpc`, `EntryRpc`, `MarketRpc` (use `RpcHelpers`) | the other handlers: account listings, NFT offers and information, trust lines, `gateway_balances`, `noripple_check`, `account_info`; `ledger_entry`; `book_offers`, `book_changes`; of ngHandlers `account_channels`, `account_currencies`, `gateway_balances`, `ledger_entry` with `common/Validators` | none: operators on a ledger's state | one operator for each handler and helper |
| `Requests` (uses those) | a request from the message to the answer: contexts, dispatch, forwarding, handler, counters | ledgers written and committed, the client's request and its answers, the counters | `WriteLedger`, `CommitLedger`, `Send`, `Begin`, `Answer`, `NextPage`, `Finish` |
| `EtlSources` | `ETLSource`, `ProbingETLSource`, `ETLLoadBalancer` | both probes with the operations outstanding on their strand, `currentSrc_`, the messages unread, one call of the balancer | resolve, connect, handshake, subscribe, read, close, timer, pause, resume; the rounds of `execute` and `forwardToRippled`; the rippled drops and comes back |
| `Sessions` | `HttpBase`, `WsBase`, `DOSGuard`, `WorkQueue`, one stream of `SubscriptionManager` | per connection: reads and writes outstanding, queues, jobs; the limits' counters; the strand of the stream | handlers of the connection's strand, steps of jobs, the stream's strand, the sweep |
| `Subscriptions` | all of `SubscriptionManager`, the steps of `doSubscribe` and `doUnsubscribe`; what a request asks for and what is sent together are parameters, the records of a scenario | subscribers and counts by kind and key, `cleanupFuncs_`, the strand of each kind, requests in progress, the publisher | the steps of a request, tasks of the strands, publication of ledgers, transactions and book changes, forwarded messages, failure and cleanup |
| `SubscribeRpc` (uses `MarketRpc`, `Subscriptions`) | the parameters of `subscribe` and `unsubscribe` and their checks; `pubTransaction`, `forwardProposedTransaction`, `forwardManifest`, `forwardValidation`: what each is sent as | none: operators that give the scenarios of `Subscriptions` | one operator for each check and each kind of message |

`EtlMonitorProofs`, `EtlPipelineProofs`, `MigratorProofs`, `AsyncWritesProofs`,
`SessionsProofs`, `LedgerCacheProofs`, `LedgerStateProofs` and
`SubscriptionsProofs` hold the theorems (see Proofs). `MC*` modules give the constants of a run their values; runs of modules without
one need only what the cfg says. `map` in `PROJECT.json` gives the lines of every
definition. Names follow the code; operators whose name ends in `_Something` are
mutants, alternatives of the operation that follows them, each of which must make
one property fail.

### How the modules fit together

`EtlPipeline`, `LedgerCache`, `LedgerState` and `EtlMonitor` describe the same
`ReportingETL` at four grains: threads and queues, the objects in the cache, the
rows in the database, and sequences of ledgers. `EtlMonitor` treats a running
pipeline as one builder because `EtlPipeline` shows that ledgers leave it in
order; it treats the cache as its newest sequence because `LedgerCache` shows
what the cache answers when updates come one ledger at a time, which
`EtlMonitor` in turn shows (`CacheNeverSkips`); and `LedgerState` reads a full
cache as the ledger itself for the same reason. `TxHistory` and `Requests` take
from `EtlMonitor` that the range requests see holds committed ledgers only
(`RangeIsCommitted`), and from `LedgerState` that reads of one ledger are reads
of that ledger. `Subscriptions` takes ledgers from a publisher that hands each of
them on once (`PublishedExactlyOnce`), repeats the test of their age, and leaves out what `Sessions` shows: a message handed to
a live session reaches its client in order. `Migrator` uses a write that lands
late, twice, or unacknowledged and a `sync()` that waits for all of them;
`AsyncWrites` shows that the real one does.

### The refinement

`LedgerFeed` says what an ETL promises whoever listens: the database grows by one
ledger at a time, whoever writes it, and from the ledger the process starts with
it sends only ledgers that are committed, each at most once. `EtlMonitor`
implements it under `committed <- maxSequence, start <- first, feed <- sent`
(`ImplementsFeed`): however often the process takes over and gives way, and
although a conditional update may be applied and reported as failed. The abstract
feed does not promise the order: the code has two publishing threads and does not
keep it (`RangeNeverDecreases` below). Nor does it promise every ledger: one that
closed over ten minutes ago is not published (`ReportingETL.cpp:201`). That each
ledger is taken up once, and either sent or skipped for that reason, is
`PublishedExactlyOnce` and, in the end, `EveryLedgerPublished`.

### Data that is abstracted

* A transaction is its ledger, its index, whether it succeeded, whether it is a
  mint, and the NFT record it yields. Hashes are numbered in the order of
  Cassandra's scan, object keys in key order.
* A blob in the cache or the object table is a version number (the ledger that
  wrote it); 0 is the absence of an object.
* A ledger of the pipeline and of the monitor is its sequence. Sequence
  arithmetic that the code does on unsigned integers keeps its modulus
  (`UintModulus` in `EtlPipeline`, a power of two that stands for 2^32).
* A JSON value is a record that says its kind (`RpcHelpers`), a parameter an
  element of a small set of values of the right and the wrong kinds; an account,
  a hash, a key is a name, and what parses as one is a set of names. An amount
  is a small integer with an issue; the largest amount is `MaxAmount`, so that
  sums overflow.
* An answer to a client of `Sessions` is one value, a message of a stream its
  number; a message of `Subscriptions` is its key and the ledger or transaction.

### Assumptions about what is not under `src/`

Cassandra applies a write once or more, at any time after it was sent, whether
or not it is acknowledged; rows with the same key replace one another. A
conditional update is atomic. A fetch from rippled succeeds in the end. Another
clio starts to write a database it finds empty seconds after us at the earliest,
so two first loads do not overlap.

## Runs

A property that a run checks is often the conjunction of named parts, each with
its own comment in the module; the mutants of `PROJECT.json` break the parts one
by one.

| Run | Instance | Shows |
|---|---|---|
| `migrate` | two tokens, one burned and minted again in one ledger, four transactions, three ledgers of which clio writes the last or all, two objects in the initial ledger, pages and batches of one or two, one retry, two runs of the tool | `SuccessMeansMigrated`, `ThrowsOnlyOnNewerTx`, `URIServed` (with the comparison of `clio_verifier`), `NewerRowsUntouched`, `DropOnlyAfterBackfill`, `Terminates` |
| `writes` | two writers, four requests, one may be outstanding | `CounterExact`, `ThrottleBound`, `SyncIsBarrier`, `EverythingIssued` |
| `pipeline` | three extractors, queues of one, six ledgers, another writer, a shutdown at any time | `LedgersInOrder` (in the queues, as built, as published), `FinishReached` |
| `pipeline_conflict` | one extractor, another writer | finding: `runETLPipeline` does not return after a conflict with a full queue |
| `monitor` | five ledgers that may grow old at any time, one attempt before taking over | `PublishedExactlyOnce`, `RangeIsCommitted`, `ImplementsFeed`, `CacheNeverSkips`, `EveryLedgerPublished` |
| `cache` | two keys, all three load styles, at most one peer, two ledgers before and two during the load, two walks, a shutdown | `CacheIsLedger` (hits and neighbours), `LoadCompletes` |
| `ledger_state` | four keys of which two are directories of one book, three ledgers with up to two changes each, two download markers, one ledger kept by online delete | `RowsAreLedger` (objects and diffs), `LinksAreLedger` (the whole ledger and the book by links), `PagedAll` (a client's walk) |
| `history` | ledgers 2 to 4 with up to two transactions each, rows written in any order, every form of range, order, limit and marker | `HistoryIsComplete` (backwards and forwards), `SearchedAllIsTrue`, `LedgerIsWhole` |
| `requests` | about two thousand cases in eight families (directories cut into pages in every way, tokens and their offers, all forms of trust lines, forms of parameters, ledger entries, order books, traded offers, messages of every form), each while a ledger arrives | `PagingIsComplete`, `LinesAgree`, `MarketsAgree`, `AnsweredAndCounted` |
| `sources` | one rippled that speaks wss or ws and drops once, at any moment, or speaks both and stays, another source that may answer or not, one call of the balancer at a time | `SourcesAgree`, `Reconnects`, `ExecuteReturns` |
| `sessions` | a WebSocket and an http client of one address, two requests, two messages, every limit 1 | `LimitsHold` (queue, requests, one count for each subscriber), `ReceivedInOrder`, `MessagesDelivered`, `FailedReleased` |
| `subscriptions` | two clients, two workers, six scenarios: ledgers, accounts, books, snapshots of two books, messages of rippled, requests with an error in each place | `AsAsked`, `DeliveredOnce` (nothing missed, no gap after the first ledger, nothing twice), `SnapshotOfOneLedger`, `Tidy` (counts, nothing left of the dead) |

Why the bounds are enough. Pages, batches, queues and limits are set so that
each of them is met, exceeded by one and left partly filled in the same
behaviour (a full page followed by an empty one, a batch that fills inside a
page, a queue that is full when its reader leaves). Two of everything that can
interfere (runs, writers, walks, clients, workers) and three extractors, so that
the round robin differs from an alternation. Five ledgers let a process take
over and give way again; four ledgers let a key be created, deleted and created
again around a page that was read in between. Four keys in `ledger_state` let an
object have neighbours on both sides that change in the same ledger, in front of,
inside and behind the book. In `requests` a directory of four objects is cut into
up to three sparse pages, with limits below, at and above a page; a handler reads
one ledger, so two ledgers and one that arrives are all it can tell apart. The
theorems below remove the bounds for `Migrator`, `AsyncWrites`, `EtlMonitor`,
`EtlPipeline`, `LedgerCache`, `Sessions` and `Subscriptions`.
In `sessions` two requests let a client subscribe twice or subscribe and
unsubscribe; a third one was checked for the invariants only and is too large for
the liveness properties. Each scenario of `subscriptions` has its own bounds on
requests, failures and ledgers; a scenario leaves out the kinds of subscription
that none of its requests names, whose tasks find no subscriber and change
nothing.

Deadlock is checked for `ledger_state`, `history` and `sources`. The other models
end (the tool succeeds or fails, the last ledger is published, the bound on
requests is reached) and say `CHECK_DEADLOCK FALSE`.

## What the code does not keep

`pipeline_conflict` is a run of the project: the joining thread frees one place
of a full queue, the extractor needs two (its ledger and the empty optional), so
`runETLPipeline` does not return. `FinishReached` in `pipeline` is therefore
stated for pipelines nobody interrupts.

Seven further configurations state what a line of the repository says, and TLC
refutes each of them in seconds. They are kept beside the runs so that a change
of the code can be tried on them.

| Configuration | Module | Refuted | What happens |
|---|---|---|---|
| `MCMigratorNewer.cfg` | `MCMigrator` | `NewerTxsDiscarded` | A hash in `nf_token_transactions` whose row in `transactions` clio has not written yet comes back as a record of sequence 0 with an empty blob (`CassandraBackend.cpp:561`), passes the test on the sequence (`main.cpp:181`), and parsing it throws. `src/README.md:72` says to "discard any that were posted after the migration started". `ThrowsAreNewer` proves that this is the only way a migration throws in the model. |
| `MCMigratorFinal.cfg` | `MCMigrator` | `FinalStateKept` | Step 1 writes owner and burned flag of the mint to the row of its ledger (`main.cpp:191`); a sale later in that ledger is undone. `src/src/backend/README.md:160` says the row "will give you the owner of token N at ledger Y". |
| `MCLedgerCacheReadOnly.cfg` | `LedgerCache` | `FullMeansAllData` | `monitorReadOnly` on an empty database loads the cache from a ledger that is not there (`ReportingETL.cpp:1223`): an empty cache is declared full. `SimpleCache.h:84`: "whether the cache has all data for the most recent ledger". `FullIsComplete` excludes that start. |
| `MCEtlMonitorRange.cfg` | `EtlMonitor` | `RangeNeverDecreases` | `publishLedger` on `publishStrand_` reads `writing_` after the pipeline has reset it (`ReportingETL.cpp:195`): the range goes back, against the assertion at `BackendInterface.h:250`. |
| `MCLedgerStateDelete.cfg` | `LedgerState` | `UnchangedSurvives` | `doOnlineDelete` writes objects again and no links; a link that no ledger touches for twice the interval expires (`CassandraBackend.cpp:1010`, 1332) and every walk ends there. `CassandraBackend.cpp:967` says the doubled TTL is "to prevent unchanging records from being deleted". |
| `MCBookFreeze.cfg` | `MCRequests` | `FrozenIsUnfunded` | `postProcessOrderBook` tests the issuer of `book.out` twice and `book.in` never (`RPCHelpers.cpp:1272`), against the comment at 1299: "If either asset is globally frozen". |
| `MCEtlSourcesStream.cfg` | `EtlSources` | `StreamForwarded` | `shouldPropagateTxnStream` compares a `ProbingETLSource` with the source inside it (`ETLSource.h:679`): nothing is forwarded once a source is connected, and the `ForwardCache` is never filled. `ETLSource.h:663`: "only forwards messages from one source at any given time". |

`MCEtlSourcesProbing.cfg` checks `ProbingRestarts`, that a source is connected in
the end whatever it loses: `ProbingETLSource.h:36`, "If however the connected
source loses connection the probing is kickstarted again". A connection that is
lost between its handshake and its first message refutes it: `currentSrc_` is set
and never reset, and no probe reads again. The run `sources` has that loss too;
its `Reconnects` and `ExecuteReturns` name it as the one exception
(`StrandedByEarlyLoss`).

### Visible in the properties

Not against a line of the repository, but shown by the way a property has to be
stated:

* A subscription registered after its connection failed keeps the session for
  ever (`FailedReleased` and `NothingLeft` name the sessions in `late`).
* A token that is minted and sold or burned in one ledger may lose its URI, until
  the migrator is run over that ledger: `insertTransactions` keeps one record of a
  token, whichever the sort puts first (`ReportingETL.cpp:99`), although "we
  _always_ write this field as a result of this tx" (`DBHelpers.h:107`).
  `URIServed` admits an earlier URI exactly there (`MintHidden`), and without it
  the run `migrate` refutes the property.
* A ledger that closed over ten minutes ago is not published. The test reads the
  age from `lastCloseTime_`, which the other publishing thread may set in between
  (`ReportingETL.cpp:197`): a recent ledger is skipped after an old one.
  `PublishedExactlyOnce` therefore asks only that some ledger is old when one is
  skipped.
* A pipeline that ended in a conflict may never return (`pipeline_conflict`), and
  then nothing is published any more: `EveryLedgerPublished` names that end.
* `gateway_balances` reports what hot wallets and frozen lines hold from the
  holder's side, so that the lines add up to the assets less the hot, the frozen
  and the owed balances (`BalancesAddUp`).
* The throttle, the work queue and the `DOSGuard` admit more than their limit
  under concurrency, by the amount the properties state; `ThreadSafeQueue` holds
  one element more than its maximum.
* A client that pages forward through a history can meet the ledger that is
  being written and get a blank transaction (`Torn` in `TxHistory`); a marker
  whose object has left its page ends a listing without an error.
* The base of a book that exists in the first ledger has no link until the book
  changes: `loadInitialLedger` tests `cache().get(cur->key)` where it means the
  base (`BookIsLedger` speaks of books whose base has a row).
* The handlers of `ngHandlers` treat null ledgers, numerals with a tail ("2x")
  and limits out of range differently (`Disputed`). Nothing dispatches to them.
* `book_offers` by the hash of a book shows no offers of issued currencies;
  `BookFunding` leaves that form out. `limit` of `noripple_check` is not enforced.
* A subscription to a book with taker_pays P and taker_gets G is stored as the
  book that transactions publish the reverse offers to: its events are those of
  the reverse of its snapshot, as the unit test expects. With `both` it does not
  show. The presence of `both` or `snapshot` counts, also with the value false,
  and a request with streams and snapshots is answered without the snapshots.
* The snapshot of a book is read before the session subscribes: offers taken in
  between are in neither. `NothingMissed` begins at the answer.
* An account of `accounts_proposed` that is given by its public key passes the
  check and is then skipped, as only addresses are parsed there
  (`Subscribe.cpp:190`): the answer is a success and nothing is subscribed. None
  of the scenarios has this form (`Direct`).
* A proposed transaction may be sent twice to an account that it names in two
  fields (`SentOnce` leaves proposed transactions out), and keys whose sessions
  have all died stay in the maps.
* `execute` of the load balancer does not test for a shutdown: it ends only when
  a source has the ledger (`ExecuteReturns`).

### Seen and not modelled

`SimpleCache::getSuccessor` locks a temporary (`SimpleCache.cpp:73`); the online
delete keeps a reference to a local of `runETLPipeline` (`ReportingETL.cpp:722`)
and `range->minSequence` is not updated after it; with a sync interval other
than 1 `lastSync_` is stale after another process wrote (`CassandraBackend.h:796`);
`loadInitialLedger` ignores the result of `finishWrites` (`ReportingETL.cpp:173`);
the comparator of the sort before `unique` is no strict weak order
(`ReportingETL.cpp:103`), for which `Migrator` keeps any record of a token;
`WorkQueue` starts one thread fewer than configured (`WorkQueue.cpp:26`);
`ProbingETLSource` tests `currentSrc_` without the mutex (`ProbingETLSource.cpp:78`).

## Fairness

* `Migrator`: the process is scheduled and an acknowledged write comes in the
  end, since the backend retries it for ever. Nothing is assumed of clio.
  Restarts and reads that time out are not fair.
* `AsyncWrites`: strong fairness of each thread, as a mutex that is free again
  and again is granted in the end, and of the success of a request that is
  retried for ever. Waking without notification may happen and is never
  required.
* `EtlPipeline`, `EtlMonitor`: threads and strands run, the network goes on
  validating; the other writer may stop at any time. That a pipeline returns
  after a conflict is not assumed (`EndPipeline` is not fair), nor that ledgers
  ever grow old.
* `LedgerCache`: the loader's coroutines and thread run. Peers need not answer:
  the attempts run out.
* `EtlSources`: posted handlers run, an operation on a socket and a timer end, a
  thread in the load balancer goes on, and the rippled is not away for ever. A
  drop is never required and may come at any moment, also before the first
  message.
* `Sessions`: the threads of the io context and of the work queue run what is
  posted to them; a write completes or fails; a read on a closed socket is
  aborted. Clients may stay silent.
* `LedgerState`, `TxHistory`, `Requests` and `Subscriptions` are checked for
  safety only: their completeness properties speak of the moment a walk, a
  listing or a request has ended.

## Proofs

The proof modules extend the specifications and hold for every value of the
constants that satisfies their named assumptions.

`MigratorProofs`. `SuccessMeansMigrated` speaks of the end of a run and is not
inductive: while the tool runs, a mint is in none, some or all of its tables.
`IInv` says where each record is meanwhile. `MintsCovered`: every mint in the
range is recorded, in the batch, among the writes sent, or ahead of the cursor;
`ObjectsCovered` says the same of the initial ledger in step 2. `Phases` ties
the step, the cursor and the pending writes together (after `sync()` there are
none), `RowsCommitted` says that a committed ledger's rows are all there, which
is what makes a page of the scan complete up to the range, and `WithinRange`
that nothing newer is written. Theorems: `TypeCorrect`, `SuccessIsMigration`,
`ThrowsAreNewer`, `DropIsSafe`, `NewerRowsAreSafe`.

`MigrationServesURIs` proves `URIServed`, what `nft_info` answers and
`clio_verifier` compares, from the end of the backfill and what clio wrote
itself. `ServedInv` adds to `IInv` that no URI is in the table that no record
brings (`UrisOfHistory`), that every transaction of a committed ledger has left
a row in `nf_tokens` (`Shown`, which also follows the rows of the ledger being
written), and that the URIs of the mints after some ledger `lo` are there,
`lo` being the initial ledger or the last one of the previous release, whichever
database the tool found, and no run's range being before it (`UrisWritten`). The
mints up to the range are the migrator's, those after it come after `lo`. A mint
that `insertTransactions` may have given up for another record of its ledger is
left out of `UrisWritten`; if it is above the range, `RecordsServed` concludes
that it is `MintHidden`, and the URI served is that of the newest ledger with a
row (`RowIsURI`, `URIIsServed`). There is no hypothesis on the history. That the newest
record of a history exists is shown with the number of records that follow one,
not by induction. The proof also uses the last part of `TxAssumption`, that only
a mint carries a URI (the constructors of `NFTsData`, `DBHelpers.h:93`).

`AsyncWritesProofs`. A writer tests the counter under the mutex and increments
it later, so the bound is not inductive for the counter alone: `PassedBound`
adds the writers that have passed the test and not yet counted. `IssuingOwn`
and `SyncAfterIssue` order a thread's own requests before its `sync()`; the
counter being exact then makes `sync()` a barrier. Theorems: `TypeCorrect`,
`CounterIsExact`, `ThrottleIsBounded`, `SyncIsABarrier`.

`EtlMonitorProofs`. Whether `updateRange` gets a committed ledger depends on how
it came to be published, so `Committed` bounds by the database whatever is on
the strand, being published, or remembered by monitor and pipeline; `Phases`
says that the monitor publishes only while no pipeline runs, and `InCache` that
whatever the strand holds is in the cache and that nobody is more than one
ledger ahead of it. Theorems: `TypeCorrect`, `ReadersSeeCommitted`,
`CacheInSteps`. That a ledger is published once and none is left out relates two
threads and a strand, so `OnceInv` adds three parts: `Once`, a ledger is in one
place at most (sent, skipped, posted, or in the hands of one thread); `InCharge`,
the ledgers in those places are exactly `first .. Taken`, and the ledger to build
is the one after the last posted, which is what lets the monitor go on at the
right ledger when a pipeline ends; and `AgeKnown`, the close time that decides is
that of a ledger already taken up, so nothing is skipped before a ledger is old.
Theorems: `PublishesEachOnce`; `FeedImplemented`,
the refinement of `LedgerFeed`, each step of which is a step of the feed or a
stutter.

`EtlPipelineProofs`. The transformer asks the queues in turn and compares
nothing; that the ledger it takes is the next one is known only from what all the
extractors have done. `RoundRobin` says of each queue which ledger is `Due`: the
ledgers in it are every `NumExtractors`-th one from there, the empty optional
comes last and only from an extractor that is done, and all queues are due within
one round of the transformer. `InChain` ties the ledger in hand to the published
ones, and `Threads` orders the joining thread after the transformer. It is
assumed that the first ledger to build has been validated
(`StartSequence <= LastValidated`): `runETLPipeline` is called with a sequence
the network has reached. Theorem: `PipelineInOrder`.

`LedgerCacheProofs`. A page of an old ledger may come after newer ledgers have
been applied, so being right now is not enough. `EntriesCurrent`: what is held
has been so in every ledger from its own to the latest. `MissingKnown`: what is
not held was deleted by a live update (and is among the `deletes`), or no live
update has touched it, so that a late page may still bring it. Completeness needs
to know how far each load has come: `PeerWalk` says that every object of the
loaded ledger is accounted for or still `Due` from the marker on, the answer that
is on its way included; `DbWalk` that each walk has brought all between its start
and its cursor and that the walks together leave no key out. `FullIsLive` is what
`setFull` then gets. Theorem: `CacheAnswersLedger`.

`LedgerStateProofs`. The successor table is a list of which each ledger writes
only the links that it changes, so a walk through one ledger reads links of many.

* `LinksRight`: in every ledger since the first, the link of each live key and of
  `firstKey` leads to the next live key. It is inductive because every link that
  `buildNextLedger` writes is right in the new ledger (`LinkRowsRight`) and one
  that it does not write has not changed (`LinksChange`: a key whose successor
  comes or goes is the predecessor of what came or went). `InitialLinks` gives the
  first ledger: within a range, across an edge, to the last key.
* `BookRight` says the same of the base of a book, less exactly: the base is
  linked again only when its first directory changes, so behind an empty book the
  link may lead to any key beyond it (`BookChange`).
* `ObjectsRight` and `DiffsRight`: the newest row not newer than a ledger is the
  object, in every ledger since the first. `doOnlineDelete` writes rows with an
  older sequence than some that are there; a ledger from there on either has a
  newer row or the same object (`SelectRewritten`). `LedgersOK` has what the cache
  relies on: an object of the newest ledger is also that of the ledgers since its
  last change.
* A walk (`Walk`, the loop of `fetchLedgerPage`) over links that are right finds
  the keys in order and leaves none out (`WalkFinds`), and all of them if it has
  more steps than there are keys (`WalkFindsAll`). This is an induction over the
  steps of the loop. The induction theorems of the library cannot be used, so it
  is done with the least number that fails: naturals are well founded, and the
  library states that for sets (`LeastNat`, `Induction`). The recursive function
  is shown to exist in the same way (`WalkDef`).
* `PagerRight`: a client has exactly the keys of its ledger up to its cursor,
  which is a live key, so that the next page may come from the cache or from the
  database.

Theorems: `TablesAreLedger`, `LinksListLedger`, `PagesAreComplete`, under the
hypothesis `NothingExpires` (`Ttl >= MaxLedgers`): the tables have no time to
live, as without `online_delete`, or the behaviour is not longer than it. It cannot
be dropped: links are not written again, and `UnchangedSurvives` of
`MCLedgerStateDelete.cfg` shows a ledger that is lost with them. The keys, the
book, the ranges of the first download, the number of ledgers and of changes in
one, and `online_delete` are arbitrary.

`SessionsProofs`. `LimitsInv`: neither `curSize_` nor the count of `DOSGuard`
shows the handlers that have passed a test and have not counted yet. `Counted`
adds them, through the finite set of jobs and the set of connections in each
step, and `Wired` says that an HTTP session does one thing at a time, that the
outstanding write is that of the first message of a session's queue and that only
WebSocket sessions subscribe. `OrderInv`: the messages a client has, those in the
session's queue, those posted to its strand and those on the strand of the stream
are four increasing sequences, each before the next (`InLine`). Theorems:
`ServerLimits`, `StreamInOrder`.

`SubscriptionsProofs`. What matters is not who is on a topic but who will be when
the strand has run: `On` reads that from the strand's tasks and `WillHave` is its
value at the end.

* `TidyInv` adds to the types that the counts are those of finite sets
  (`CountsExact`), the phases of a request, and `CleanedUp`: whoever will have a
  topic is known to cleanup or is just being registered, and a session that was
  cleaned up has nothing to come, unless it registered late. Theorems:
  `ManagerTidy`, `SnapshotsAgree`.
* `AskedInv` says of a client with one request at a time how much of it has been
  done (`PartDone`), topic by topic, for any number of workers. Theorem:
  `ClientsAsAsked`.
* `DeliveredInv`: a published message `Reaches` a client if the client has it or
  will be on its key when its task runs. `Delivering` says so of everything
  posted since the answer, `GapFree` of every ledger after the one that a request
  has read and has not answered with yet (`AnswersReady`) or has answered with.
  Reading the ledger after the subscription is on the strand is what makes it
  hold: all ledgers posted so far are at most the newest.
* `OnceInv`: `Origin` says where each posted message comes from (a transaction of
  a ledger that was sent, a message of rippled, the number of a ledger that only
  goes up), so that the next one is new; `OnceEach` that a message is posted
  once, is on the strand at most once and then no longer, and is then with a
  client at most once. Theorem: `ClientsGetAllOnce`.

Two hypotheses on the scenarios are stated in the theorems. `Direct`: the manager
is called for the topics that a request asks for, and for none if it is refused.
`SubscribeRpc` gives such requests but for one form, `accounts_proposed` with a
public key, which passes the check and is then skipped (see above). `Distinct`:
the messages of the ledgers and of rippled differ, as hashes do. Both hold of the
scenarios of `MCSubscriptions`; `Tidy` and `SnapshotOfOneLedger` need neither.

TLC has checked every strengthening above on the instance of its run.

Only model-checked:

* all liveness (`Terminates`, `EverythingIssued`, `FinishReached`,
  `LoadCompletes`, `EveryLedgerPublished`, `Reconnects`, `ExecuteReturns`,
  `MessagesDelivered`, `FailedReleased`), which needs fairness and `ENABLED`, out
  of the prover's reach;
* `HistoryIsComplete`, `SearchedAllIsTrue` and `LedgerIsWhole` of `TxHistory` and
  the four properties of `Requests`: what a history or a listing contains is
  defined by selections, sorts and folds of sequences, about which the provers
  know nothing, and each would need its own induction, as `Walk` of `LedgerState`
  did;
* `SourcesAgree` of `EtlSources`, whose `TypeOK` holds for the constants of the
  run only: `close(true)` starts a new resolve and cannot stop an old one, so the
  operations a probe has outstanding grow with the number of drops (`MaxOps` = 2
  is for a rippled of one protocol that drops once). Its other parts,
  `ConnectedIsCurrent` and `AnsweredIfAvailable`, are not proved yet.

## What is not modelled

* Of `verify.cpp` the comparison is (`doVerification` in `Migrator`); its paging
  is that of step 2, its batches only change when the comparison is made.
* A `sync_interval` other than 1 (asynchronous commit), two processes that load
  the same empty database, the shutdown of the two monitors.
* The whitelist and the byte count of `DOSGuard`, the SSL handshakes of sessions.
* `ledger_data` without `out_of_order`, whose walk is that of `PagedAll`;
  `channel_authorize` and `channel_verify` (signatures) and `random` (no state);
  the fields that `server_info`, `ledger` and the messages of streams are filled
  with: formatting.
* The parsing of `NFTokenPage` differences in `NFTHelpers`: `Migrator` takes the
  record a transaction yields as given.
* `BackendIndexer`, which nothing calls; opening sessions, preparing statements,
  configuration, logging and statistics: I/O and formatting.

## Plan

Done, in this order: `Migrator`, `AsyncWrites` and `EtlMonitor` with proofs;
`EtlPipeline`; `SimpleCache` and `LedgerCache`; `Sessions`; `LedgerState`;
`RpcHelpers` and `TxHistory`; `AccountRpc`, `EntryRpc`, `MarketRpc` and
`Requests`; `EtlSources`; `Subscriptions`; `LedgerFeed`.

The proofs of this order: `Migrator`, `AsyncWrites`, `EtlMonitor` with the
refinement, `EtlPipeline`, `Sessions`, `LedgerCache`, `Subscriptions`,
`LedgerState`.

Next:

1. `ConnectedIsCurrent` and `AnsweredIfAvailable` of `EtlSources`, for any number
   of operations on the strands: the invariant has to say which operation each
   probe has outstanding, and which one a stopped probe still waits for.
2. `HistoryIsComplete` of `TxHistory`: the pages of a history are a walk too, over
   the rows of one index in the order of their sequence, to which the lemmas on
   `Walk` of `LedgerStateProofs` carry over.
