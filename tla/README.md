# Redge: a TLA+ verification project

Redge (`src/`) is a Redis-compatible server in Go that keeps its keyspace in a
SQL database (GORM: SQLite, PostgreSQL, MySQL) or in Cloudflare D1, with an
in-process L1 cache, HTTP APIs and a document store. This directory holds TLA+
models of it, TLC configurations that check them on small instances, and TLAPS
proofs of the properties that matter most.

## 1. Inventory

| Component | State | Operations | Interacts with |
|---|---|---|---|
| SQL key store, `internal/store/sqlstore/store.go` | tables `redge_keys`, `redge_zset_members` | Set, MSet, GetDel, Delete, Expire, Persist, IncrBy, ZAdd, ZIncrBy, ZRem, ZRemRangeByScore, ZPopMin/Max, the reads, lazy deletion, CleanupExpired, Scan | called by the router, the HTTP APIs and the cleanup goroutine, concurrently, also from several processes |
| D1 store, `internal/store/d1store/store.go` | the same tables behind an HTTP API | the same, as chains of statements without transactions, with retries | as above |
| L1 cache, `internal/cache/memory.go` | Ristretto's map and buffer | Get, Set (TTL capped), Del | filled by `Router.get`, invalidated by every handler that writes |
| Sessions and router, `internal/command/router.go` | `Session`: Authed, DB, InMulti, Queued | Handle, execute | one session per TCP connection; calls the store and the cache |
| TCP server, `internal/server/tcp.go` | listener, `done`, semaphore | ListenAndServe, handle, Shutdown | started and stopped by main |
| Lifecycle, `cmd/redge/main.go` | WaitGroup, signal context | start, signal, shutdown | all servers, the cleanup ticker |
| Document store (in both stores) | documents, index configuration, index rows, search text | PutDoc, GetDoc, DeleteDoc, QueryDocs, ConfigureIndexes | document API |
| Document API and hub, `internal/docapi/server.go` | subscriptions with channels of 32 | REST and WebSocket handlers, Subscribe, Unsubscribe, Publish | document store |
| Store API, admin API, status server | none but the limiter | HTTP handlers | store, cache |
| Rate limiter, in `internal/storeapi` and `internal/docapi` | a token bucket for each bearer token, or IP of a request without one | allow | every request of the two APIs |
| RESP codec, configuration, connections | none kept between calls | parsing, environment, drivers | |

What is hard in this code, and what makes each part correct:

* **SQL store.** Half of the operations are transactions; the other half, every
  read with its lazy deletion included, are chains of autocommitted statements
  that other connections interleave with. Correct means: keys that do not
  expire are lost only to a command that removes them; sorted-set members do
  not outlive their key; expired rows go away; logical databases are separate;
  versions increase.
* **L1 cache.** GET reads the cache, then the store, then fills the cache, with
  no lock across the three; writers commit, then delete the entry; Ristretto
  applies insertions later than deletions. Correct means: an answered write is
  not hidden by an older entry, and no entry outlives its TTL.
* **Sessions.** EXEC runs queued commands past the tests of Handle. Correct
  means: nothing runs unauthenticated, the queue is run exactly once and in
  order, in the selected database.
* **Server and lifecycle.** Slots are taken in one goroutine and freed in
  another; a signal may come at any time. Correct means: no slot leaks, the
  limit holds, the process ends after a signal.
* **Hub.** Publish copies the channels under the lock and sends outside it,
  Unsubscribe closes them outside it, and any client may name any id. Correct
  means: no channel is closed twice, nothing stays behind when a connection
  ends, and a subscriber gets what was committed, once and in order, or lost it
  to a full channel.
* **D1 store.** No call is atomic: between any two statements another caller
  may run, and an executed statement may be reported as failed or be sent
  again. Correct means: INCR gives each number once, SET NX succeeds once, keys
  that do not expire are lost only to a command, and members stay with their
  key, as far as the version guards and the order of the statements reach.
* **Documents.** PATCH is a read and a write; index rows and search text follow
  a configuration that changes, and events are published after the commit.
  Correct means: the index names no value a document has lost and misses none it
  was configured for, a version names one body, and who follows the events ends
  up with the document.
* **Listings and limiter.** A listing takes many requests, between which rows
  come and go and some of which are refused; the limiter reads the clock outside
  its lock. Correct means: nothing comes twice, nothing that stayed is missed,
  no client exceeds its rate, and Retry-After tells the truth.

The hazards are listed line by line in `PROJECT.json`.

## 2. Modules

| Module | Models | Proofs |
|---|---|---|
| `SqlStore` | the keyspace half of the SQL store, with the expiry cleanup | `SqlStoreProofs` |
| `L1Cache` | the cache between the handlers and an atomic store | `L1CacheProofs` |
| `Session` | the sessions of all connections | `SessionProofs` |
| `TcpServer` | composes `Session` with the server, the HTTP servers, the cleaner and main | `TcpServerProofs` |
| `Hub` | the subscriptions of the document API, its WebSocket connections and publishers; implements `Feed` | `HubProofs` |
| `Feed` | what a subscription promises its client (abstract) | `HubProofs` |
| `D1Store` | the keyspace half of the D1 store, with lost answers and retries | `D1StoreProofs` |
| `DocStore` | documents, indexes and search text of the SQL store, under the document handlers | `DocStoreProofs` |
| `RateLimiter` | the token buckets | `HttpApiProofs` |
| `Paging` | the pages of SCAN, of a collection and of an index query, as operators | `HttpApiProofs` |
| `HttpApi` | composes `RateLimiter` and `Paging`: clients that list page by page while the table changes | `HttpApiProofs` |
| `MC...` | instances for TLC of the module named | |

### SqlStore

`rows` is `redge_keys`: a record per database and key with type, value, expiry
(0 for NULL) and version; `members` is `redge_zset_members`.

The code sets no isolation level, so the model takes the weakest default of the
databases supported: READ COMMITTED with row locks, as on PostgreSQL. A method
whose transaction begins with the `FOR UPDATE` of `getLiveRowTx` is one step
(Set, MSet, GetDel, IncrBy, ZAdd, ZIncrBy, zpop), lazy deletion inside it
included (`Fetched`, `FetchedMembers`): it keeps the lock of its key row to the
end, and if there was no row its INSERT fails when another has made one since.
A transaction in which a statement fails rolls back and is no step; databases
other than PostgreSQL would let it go on after a failed DELETE of its lazy
deletion, which is not modelled. `Delete` has a transaction and no `FOR UPDATE`:
it is two steps, `DeleteMembers`, which deletes the member rows it
sees, and `DeleteKeys`, which deletes the key rows there are by then and
commits; `DeleteError` is the failure of either. In between `del[p]` holds the
locks on the member rows (`Locked`): who wants to change or delete one of them
waits, but a ZADD may commit a new member, which then has no key. The other
methods have no transaction and are the state machine of `call[p]`: SELECT (`getLiveRow`), the comparison with
the clock (`CheckExpiry`), the two DELETEs of lazy deletion, or the UPDATE or
DELETE of Expire, Persist, ZRem and ZRemRangeByScore, each a step between which
anything else may happen, and each may fail (`StatementError`). `sweep[c]` is a
cleanup pass between its SELECT and its DELETE. All reads are the one operation
"read": they differ in what they return only. `ModelMatches` is external: gorm
builds the WHERE of `Model(row).Updates` from the primary-key fields that are
not zero, so an update of a row of database 0 has no `db` condition. `IntHalf`
stands for 2^63. The history variable `volatile` remembers which keys have ever
had an expiry time, and `torn` which keys have met a gap that may cut their
members off: a ZADD or ZINCRBY while another connection is between the two
DELETEs of a DEL or of a lazy deletion (`Exposed`), the failure of the first of
these in a lazy deletion, or the DELETE of the cleanup. A later ZADD or ZINCRBY
makes the row again and takes the key out of `torn`, and so does the removal of
its members. The key rows carry no creation and update times, and an
MSET that names a key twice is not distinguished from the one that names it
with the last value.

### L1Cache

`db` is the store, atomic per call; `cache` and `buf` are Ristretto's map and
buffer, modelled from how it is used and from its documented behaviour (an
update of an entry that is there and a Del act at once, a new entry goes
through the buffer and may be dropped or rejected, Del leaves a marker in the
buffer that deletes again). `call[p]` is a GET between miss, store read and
fill, or a writer between commit and Del. `ForeignWrite` is a write that this
process does not invalidate: another instance, or a store call that took effect
and reported an error. The field `origin` is history: what happened to a value
between the store and now. Capacity is modelled by eviction at any time.

### Session

Each connection's `Session`, the queue EXEC is running (`work`), and two
history logs: what was accepted and what ran, with the database it ran in. A
command that is refused (NOAUTH, nested MULTI, EXEC without MULTI) changes
nothing and is no step. Commands that do not touch the session are "DATA".
Parsing and replies are left out; `CLIENT SETNAME` only sets a name that
`CLIENT GETNAME` returns.

### TcpServer

`EXTENDS Session`; admitting a connection is `Connect`, its handler returning is
`Close`, its commands are `Command`. `serve` is the accept loop, `ln` and
`published` the listener before and after `s.ln` is set, `sem` the length of
the semaphore channel, `leaving` the handlers between their two deferred calls.
`http`, `shut` and `cleaner` are the other goroutines of main, `main` its own
progress. `logger.Fatal` ends the process. The allowlist is its verdict
(`Allowed`). Store and document APIs are mounted on the status server and have
no listener of their own.

### Hub

`hub` is `Hub.subs`, `chan` and `closes` the channels, `fw` the forwarding
goroutine of each subscription, `conn` the read loop of each connection with
its local map of ids, `pub` the Publish a writer is in. The critical sections of
`Hub.mu` are one step each (`Subscribe`, `Remove`, `Snapshot`); the sends and
the close that follow the unlock are steps of their own (`Send`,
`CloseChannel`), so a channel can be closed between the copy and the send:
`SendPanics`, which net/http recovers, ends the request or, through the deferred
calls, the connection. A client may unsubscribe an id of another connection;
the code does not ask whose it is. A write of a document is its commit and its
event; a store call that fails publishes nothing and is no step. `events`,
`aborted`, `dropped` and `got` are history. `got` is what was handed to
`client.write`; the library behind it is not modelled, and neither is a client
that does not read, whose goroutine stays in the write.

`Feed` says what this amounts to: a feed per subscription that only grows at its
end, is shown from the front, keeps the order of each writer, gets nothing once
it is cancelled, and may miss events. The refinement mapping (`F == INSTANCE
Feed WITH ...`) reads the feed off what was written to the client, what the
forwarding goroutine holds and what is in the channel, without the answer to
the subscribe request; closing the channel is the cancellation and the return of
the goroutine the end.

### D1Store

The two tables again, without scores. `call[p]` is the call a process is in:
the operation, the row `getLiveRow` returned, the expiry time to write, and `at`,
the statement that comes next. Every statement is an action; its parameter `ack`
says whether the answer arrives. If not, the statement was executed, and the
client either sends it again (`at` stays) or the call ends with an error;
`Answer` is external, it stands for the retries of the d1http client that `New`
configures. `Fail` is a
statement that had no effect, a guard that met another version, a caller that
went away, or the death of the process. Set and IncrBy write `WHERE version = ?`
(`Guarded`) or INSERT; Expire, Persist, ZAdd, ZRem and the upsert of Set do not
compare, and `disturbed` remembers for which keys that happened. ZRem deletes
its members one by one, ZRemRangeByScore with one statement, and both raise the
version if there was one to delete. ZPopMin and ZPopMax fail at their first
SELECT, which names a column that the table does not have, and so are reads.

### DocStore

`docs`, `index` and `config` are the three tables, for one collection. PutDoc,
DeleteDoc and ConfigureIndexes are transactions and one step each; GetDoc is a
SELECT, a comparison with the clock and two DELETEs by name; PATCH is GetDoc and
PutDoc. A request that has committed waits in `call[p]` at "put" or "deleted"
for its `Publish`. Values are told apart by what `normalizeScalar` and the
search text do with them: scalars are indexed, non-empty strings searched,
objects neither. `asked` is the configuration of the last ConfigureIndexes,
`seen` what a subscriber that keeps the last event has, `crossed` the ids of
which two writers have been between commit and event at once.

### RateLimiter, Paging and HttpApi

`bucket` is the map of the limiter; `ask[p]` a call of `allow` between its
reading of the clock and the mutex. Time is counted in ticks and tokens in
parts of a request, so that the floating point of the code becomes whole
numbers. `mark` and `refused` are history: a moment from which an observer
counts, and the first refusal since an admission.

`Paging` defines one page of each listing, as a function of the rows and the
cursor. Names are numbers in the order of ORDER BY, and one of them, `Zero`, is
the key spelled "0". An index query is two SELECTs, of index rows and of their
documents.

`HttpApi` gives every request of a listing to the limiter first; a refused
client asks for the same page again. `table` has for each name no row, one that
the query shows, or (hidden) an index row whose document is expired or does not
match the search; others change it at any time. The limiter counts by
`rateLimitKey` (`KeyOf`): the bearer token a request sends, valid or not, as the
limiter comes before authentication, or else the IP. Other callers with the same
key use up its bucket. A page is received as the set of its rows: ORDER BY makes
the order inside it the order of the names.

## 3. Runs

| Run | Checks | Result |
|---|---|---|
| `sql_durable` | TypeOK, MembersHaveParent, Durable | hold |
| `sql_cleanup` | ExpiredRowsGo | holds |
| `sql_crossdb` | ExpiryStaysInDatabase (docs/schema.md) | violated: an update of database 0 spreads |
| `cache_coherent` | TypeOK, Coherent, BoundedLife | hold |
| `session_commands` | TypeOK, AuthBeforeData, NothingLost, SelectedDatabase | hold |
| `server_life` | ServerTypeOK, SlotsCounted, StopsOnSignal | hold |
| `hub_delivery` | TypeOK, ClosedOnce, NothingLeaks, InOrder, Complete, ForwarderFreed, ImplementsFeed | hold |
| `d1_keys` | TypeOK, UniqueNumbers, LockOnce, OrphansOnlyFromRaces, OnlyAskedRemovals | hold |
| `d1_getdel` | GetDelAtomic (docs/store-api.md) | violated: a value written since the read is deleted |
| `docs` | TypeOK, IndexSound, ConfiguredComplete, VersionNamesContent, LastEventCurrent | hold |
| `http_pages` | HttpTypeOK, WithinRate, NoNameTwice, NothingMissed, RetryAfterHonest | hold |
| `http_find` | FindComplete (docs/document-api.md) | violated: has_more is computed after rows were dropped |

Bounds. `sql_durable` has databases 0 and 1 (0 is the one gorm treats
differently), one key name, one member, one connection between statements or in
a DEL, next to all transactional commands, and one cleaner with limit 1; the clock has the
two values between which a TTL of 1 passes and versions stop at 2. One key name
is enough because rows of different names never meet except in a multi-key
command, where each is treated alike; this is what the proofs, which have no
bounds, confirm, as they do for several calls between their statements at once. `sql_cleanup` needs time to pass again after a row was given a
new life, and has three ticks. There the limit covers all rows: with more
expirations per pass than the limit a row may starve, as SELECT has no order.
`cache_coherent` has two connections, a buffer of two, a TTL below and one
above the default of 2, and four ticks, so that entries expire and rows outlive
them. `session_commands` accepts three commands per connection: MULTI with a
SELECT and a command behind it. `server_life` has one allowed client more than
slots and one client the allowlist turns away; no data command is needed there
(`MaxLog = 0`; MULTI, EXEC and DISCARD still run). The server runs do not check
deadlock: a process that has ended takes no step. `hub_delivery` has two
connections, both of which write, two ids, one subscription per connection and
channels of one event for two events: one is dropped, both publishers send at
once, and one connection cancels the other's id during a send. Connections and
ids are symmetric. The hub may stop when all connections have ended.

`d1_keys` has one key, two members (one more than the first DELETE of a ZREM
reaches) and two callers and the clock between which a TTL of 1
passes; two versions and a counter up to 2 are enough for a guard to be
compared with an old version and for a number to be given again. The loop of a
DEL over several keys is in the model and not in this instance: its keys do not
meet. `docs` has one document with a field that is indexed, holding a text or an
object, and one that is searched, two requests, and writes without options, with
a field to index and with a TTL; version 2 is the first that replaces a body.
`http_pages` lists three names, one per page, so that every listing has a first,
a middle and a last page, with the key "0" in the middle, behind a bucket of one
request that regains one and a half per second and is shared with another
caller. `http_find` is the same with index queries only.

### Disagreements with the documentation that have no run

* A ZADD that commits between the two DELETEs of a DEL leaves its member
  without a key row, also of a key that never expires (docs/schema.md:191, "This
  keeps sorted set members from becoming orphaned."). MembersHaveParent without
  the exception for `torn` is violated by DeleteMembers, ZAdd, DeleteKeys.
* The cleanup deletes the key row only; the members of an expired sorted set
  stay (docs/schema.md:182, "The parent key owns expiration."), and a ZADD that
  re-creates the key finds them. This is another of the gaps MembersHaveParent
  names, as is the ZADD between the DELETEs of a lazy deletion, and the failure
  of the first.
* A reader that saw an expired row deletes by name a row that another connection
  has written since (docs/schema.md:179, "delete expired keys when found").
  Durable allows this (`LazyRemoval`) for keys that have had an expiry time, and
  allows nothing else to take such a key before it is expired again.
* A GET that a write overtakes between its store read and its fill leaves the
  old value in the cache after the write was answered (docs/cache.md:20); a row
  that expires in that interval is cached with the default TTL
  (docs/cache.md:40). Coherent holds of the entries whose `origin` is "clean".
* A signal before `ListenAndServe` has set `s.ln` closes no listener, and
  `wg.Wait` waits for ever (docs/configuration.md:16). StopsOnSignal begins
  once the listener is published.
* A cleanup pass may delete more rows than `REDGE_EXPIRY_CLEANUP_LIMIT`
  (docs/configuration.md:155), because `CleanupDelete` matches the selected
  names in every database, and versions are not monotonic (docs/schema.md),
  because `UpdateExpiry` and `BumpVersion` write back one more than a version
  read earlier.
* SCAN returns the last key as the cursor, and a page that ends with the key "0"
  reads as the end (docs/admin-api.md:187). NothingMissed leaves out the names
  after "0", in a listing whose last page was full and ended with it (`CutOff`);
  in every other SCAN it counts them.
* ZPOPMIN and ZPOPMAX always fail on D1, see `D1Store`.

Fairness. `SqlStore`: the ticker starts a pass again and again, so a cleaner
whose SELECT would return rows takes it (weak), and a DELETE that is attempted
infinitely often succeeds once (strong): a database that fails for ever removes
nothing. `TcpServer`: the Go scheduler runs every goroutine (weak fairness of
the local steps); Accept on a closed listener returns; a sweep ends; the
cleaner's `select`, when both channels are ready, picks at random and so takes
the cancelled context in the end (strong). Nothing is assumed of clients, and no
signal need come. The other modules state no fairness: their properties are
safety properties.

Every property of a passing run has a mutant of the code (`PROJECT.json`,
"mutants"; the mutated operators stand before the originals) that TLC finds to
violate it.

## 4. Proofs

All theorems hold for every value of the constants under the ASSUMEs of the
modules (sets of the right kind, a positive TTL and limit; `Conns` finite for
the semaphore, `SubIds` for the limit of subscriptions per connection and
`Names` for the pages).

* `SqlStoreProofs`. Neither property is inductive. `Durability`, an action
  property, needs that a row with an expiry is in `volatile`, and so is the row
  a connection has read with an expiry or is about to delete: without it a
  reader half way through lazy deletion could delete anything. For
  `OrphansOnlyFromGaps` (MembersHaveParent) the invariant says what a call
  between its two DELETEs knows of a key outside `torn`: a lazy deletion has left
  no member (`DroppedIsEmpty`), and an open DEL has seen every member there is
  (`DeletedIsSeen`), so its second DELETE leaves none behind. A transaction keeps
  all of this if, where it meets no gap, it leaves members under sorted-set rows
  and adds none while a deletion is under way (`Fits`, `TransactionKeeps`); each
  operation is shown to be such a step.
* `L1CacheProofs`. Coherent alone is not inductive: the invariant states it of
  the buffered insertions (each agrees with the store, or an invalidation
  behind it in the FIFO or of a handler is pending) and of the calls that have
  read a row and not yet filled. `LifeIsBounded` needs the same bound on the
  buffer.
* `SessionProofs`. Per connection: the queue is empty outside MULTI, `work` is
  empty outside EXEC and the queue inside it, an authenticated session has an
  AUTH in its log, and nothing but open commands is queued before one; the
  database in force is the session's.
* `TcpServerProofs`. `SlotsAreCounted` adds that a handler that is leaving has a
  closed connection and that an incoming connection has none yet.
  `ImplementsSession` shows that the server implements `SessionSpec` (each of
  its steps is a session step or a stutter), so the session theorems hold of the
  server; `ServerAuthenticates` is one of them. `ServerTypeCorrect` takes
  the types of the sessions from there and the semaphore's from the count: no
  slot is given back that was not taken.
* `HttpApiProofs`. `HttpPassesLimiter` shows that `HttpApi` implements
  `LimiterSpec`; the first half is about the limiter. A bucket lies on a line of slope
  Rate, and `Level` is where the line meets time 0. A refusal leaves the level
  alone, an admission lowers it by a request, and the cap only lowers it. The
  invariant (`Paid`) says that nothing was decided since the mark, or the level
  and the requests since the mark together are at most a full bucket's level at
  the mark; and that the tokens, which may be negative when calls overtake each
  other, would be at least 0 now. For `RetryAfterHolds` it adds that the level
  is at least that of an empty bucket at the first refusal (`Promised`). The
  arithmetic is proved of one bucket as a value; the steps of the state then
  only instantiate it.

  The second half of the module is about the listings. `FirstRows` says what a
  SELECT with LIMIT returns (an initial part of the rows after the cursor, and
  all of them if fewer than the limit), `ShownRows` what docQueryResult makes of
  it; they rest on the least and the greatest element of a set of numbers, taken
  from the well-foundedness theorems of the library. NothingMissed speaks of
  ended listings and is not inductive: HttpInv says of a listing under way that
  what it received is behind its cursor and in order, and that every name that
  matched all the time and is behind the cursor was received; between the two
  SELECTs of an index query, that a name which matched and is not among the ids
  comes after all of them, and they are more than a page. `PageOK` is what a
  page must satisfy for this to go on, and is shown of each kind of page.
* `HubProofs`. None of the hub's properties is inductive: who may still close a
  channel depends on where every connection is. HubInv follows the life of an
  id (unused, registered and not yet answered, in the map, taken out by exactly
  one connection, closed) and says what each connection knows of the ids it
  names; from this follow `HubClosedOnce`, `HubNothingLeaks` and
  `HubForwarderFreed`. For `HubInOrder` and `HubComplete` it adds that a Publish
  holds the latest event of its writer, that no channel it has yet to send to
  was handed it, and that a subscription it is past was. Each action has one
  lemma for the lives of the ids and one for the feeds. `HubImplementsFeed` maps
  each step to a step of `Feed` or a stutter, with the same invariant.
* `D1StoreProofs`. The invariant says of every call what is still true of the row
  that it read, however long ago: that the row had an expiry puts the key in
  `volatile`; a version that is still the row's means the row read, unless the
  key is in `disturbed`; a sorted set that it read is still one, unless the key
  is in `raced`. With these, the guards of Set and IncrBy give `D1UniqueNumbers`
  and the order of the statements `D1OrphansOnlyFromRaces`. `D1OnlyAskedRemovals`
  is an action property: a lookup or a cleanup pass that is about to delete by
  name has a key of `volatile`.
* `DocStoreProofs`. IndexSound and ConfiguredComplete are inductive together with
  `asked` being part of `config` and expiry times being in `volatile`. For
  `DocVersionNamesContent` a call remembers a version not newer than the
  document's in the same life; for `DocLastEventCurrent` an id outside
  `crossed` and `volatile` has at most one event to come, and that event tells
  the document as it is.

Every safety invariant and action property of the passing runs is proved.
Model-checked only: the liveness properties (ExpiredRowsGo, StopsOnSignal),
which rest on fairness and ENABLED. The violated properties are false and have
TLC's counterexamples.

## 5. Not modelled

* The document half of the D1 store: PutDoc, ConfigureIndexes and DeleteDoc are
  there chains of statements that leave index rows of one writer beside the
  document of another when they interleave or stop half way.
* The scores of sorted sets on D1, and with them the lost updates of ZINCRBY.
* Interleavings inside document transactions at READ COMMITTED: `DocStore` takes
  them to be serialized, as SQLite does; on PostgreSQL a PutDoc that read the
  old configuration may commit after ConfigureIndexes has indexed anew.
* The conversion of TTLs to nanoseconds, which overflows for very large EX
  arguments.
* The RESP codec (a parser without state), configuration, TLS material, drivers
  and migrations (I/O), logging and metrics. HTTP routing and JSON are left out
  everywhere.

## 6. Plan

1. Done: the key stores, the cache, the sessions, the server, the hub, the
   documents, the listings and the limiter.
2. Proved: every safety property of every module, and that the hub implements
   `Feed`, the server `Session` and the HTTP API the limiter.
3. Open: an abstract keyspace that both stores implement for keys that do not
   expire, with its refinement proved, and the document half of the D1 store.
