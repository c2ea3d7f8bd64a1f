# Pageview counting: a TLA+ model

The repository counts page views.  Requests that report a view reach a REST
service, which appends a message to the Kafka topic `pageview`; a consumer
process copies the topic into counters in Postgres.  This directory models the
part of it where counts can go wrong, checks it with TLC and proves the main
results with TLAPS.

## 1. The system

| Part | Source | State | Operations |
|---|---|---|---|
| Load client | `java/httpPageviewClient` | none that matters | random requests to the REST service |
| Go service | `golang/pageviewcount_service` | one producer, a connection pool per request | `client_create`, `client_get`, `client_list`, content handlers, `pageview` |
| Spring service | `pageview_svc` | JPA entities | `addClient`, `updateClient`, lookups, asynchronous send of a view |
| Kafka topic `pageview` | external | one partition, retention | append, fetch, delete the oldest |
| C++ consumer | `cpp` | per thread: last offset, batch counter, open transaction | start, read, count, commit by size or by time, stop |
| C consumer (deprecated) | `c/consumer.c` | the same, for one statistic | the same, with errors logged instead of thrown |
| Postgres | `pgsql/content.sql` | clients, contents, a counter table per client, `client_counter`, `source_ref` | `create_client`, `content_add`, `content_pageview`, `client_content_pageview`, `client_pageview`, `get_source_ref`, `set_source_ref` |
| Ansible | `ansible` | none at run time | builds hosts |

How they interact:

* the load client calls a service; a service calls Postgres for clients and
  contents and appends views to Kafka;
* each thread of the consumer reads the topic from its own position and, in one
  Postgres transaction per batch, increments counters and stores the offset of
  the last message of the batch in `source_ref`;
* a thread that starts reads its `source_ref` and resumes after it.  Kafka's own
  committed offsets are not used, so that a database restored from a dump
  resumes where the dump was taken (`src/README.md`).

What is hard, and where (the list with lines is `hazards` in `PROJECT.json`):

* **Crashes and commits of unknown outcome.**  Any exception in one thread calls
  `exit()`, whatever the other is doing.
* **The first fetch.**  `KafkaClient::Start` fetches the message of the stored
  reference in order to skip it.  It waits one second, and four different things
  can come back.
* **Retention.**  Messages are deleted by age, counted or not.
* **Restore.**  The database goes back, the topic does not.
* **The last batch.**  A quiet topic leaves an incomplete batch that only the
  timer commits, and the loop that reads does not look at the stop flag.
* **Bad messages.**  A view of a content that does not exist makes the statement
  fail.
* In the services: answers that say nothing about delivery, check-then-insert
  without a lock, a client without its counter table, pools that are never closed.

Properties that make each part correct:

| Part | Property |
|---|---|
| C++ consumer | counters and reference agree exactly; references only advance; a bad message is never passed; a crash replays at most a batch; everything is counted in the end; an interrupt ends the process; the displayed number of events is right |
| C consumer | the same agreement while statements succeed and no events are delivered; a bounded loss when one fails, since the failure is only logged; a bounded recount after error events |
| Postgres, services | names of clients are unique under concurrent requests and renames; a content's client has its counter table; every request ends, also at the server's limit of connections |
| Producers | what an answer of 204 says about the topic and, in the end, about the counters; how many copies a view can have, and how many confirmed views can get lost |
| Data access layer | a page is the beginning of the listing; a keyed write touches its row only |
| Validation | the schema check accepts exactly the documents of the schema, and cleans them |

## 2. Modules

| Module | What it is |
|---|---|
| `PageviewConsumer` | the C++ consumer process with its threads, Kafka and Postgres around it; properties |
| `PageviewConsumerProofs` | its inductive invariant, its theorems and their proofs |
| `PageviewLedger` | the abstract specification: each statistic is a ledger posted up to an offset |
| `CConsumer` | the C consumer, with Kafka and Postgres around it, checked against the same `PageviewLedger` |
| `CConsumerProofs` | its inductive invariant, its theorems and their proofs |
| `EventCounter` | the counter that the C++ threads share with the display in `main` |
| `EventCounterProofs` | its inductive invariant, its theorems and their proofs |
| `PageviewEvents` | a view from the requester through the Go or the Spring service into the topic, composed with `PageviewLedger` for the rest of its way |
| `PageviewEventsProofs` | its inductive invariant, its theorems and their proofs |
| `ClientService` | clients and contents: the handlers of both services, `create_client` and the connections to Postgres |
| `ClientServiceProofs` | its inductive invariant, its theorems and their proofs |
| `DataHandler` | `postgresDataHandler` of the Go data access layer |
| `DataHandlerProofs` | its inductive invariant, its theorems and their proofs |
| `Validation` | the Go validation package |
| `ValidationProofs` | its inductive invariant, its theorems and their proofs |
| `MC...` | the instances of these for TLC |

### PageviewConsumer and the code

One behaviour has one process at a time, relaunched after it ends, with one
thread per member of `Consumers` (`ContentPageViewConsumer` and
`ClientPageViewConsumer`, which share everything but the counter they increment:
`KeyOf`).

| Variable | Code |
|---|---|
| `log`, `logStart` | the partition and its first retained offset |
| `db[c].ref`, `db[c].counts` | the committed row of `source_ref` and the committed counters |
| `backup` | the last dump |
| `running` | the flag that `GracefulShutdown` clears |
| `pc[c]` | the place in the thread: before the constructor's read, in `Start`, at the outer loop, at `Read`, at the commit by size (`"batch"`) or by time (`"timed"`), joined |
| `kcRef[c]` | `KafkaClient::sourceReference` |
| `pos[c]` | librdkafka's next fetch |
| `msgCounter[c]` | `msgCounter` |
| `due[c]` | the comparison of the clock with `lastCommitTime` in this pass |
| `work[c]` | the counters as the open transaction sees them |

| Action | Code |
|---|---|
| `Construct` | `MessageConsumer` constructor, `RefreshFromDatabase`, `SetSourceReference` |
| `StartAtBeginning` | `Start` with `OFFSET_BEGINNING`: no fetch |
| `StartFound` | the message of the reference arrives within a second and is skipped |
| `StartAtEnd` | end of partition: `_ProcessMessage` returns false, the comparison cannot fail |
| `StartTimesOut` | no message within a second: the same, but the message is still to come |
| `StartRefused` | another message arrives: `Start` throws |
| `Pass`, `Finish` | the test of `*running` in the outer loop, and the rollback after it |
| `ReadMessage`, `ReadPoison`, `ReadNothing` | the inner loop with a message that is counted or ignored, a message whose statement fails, no message |
| `Commit`, `CommitUnacknowledged` | `UpdateSourceRef`, `CommitTxn`, `StartTxn`; the same with the answer lost |
| `ThreadError` | any exception, `kill`, power loss |
| `GracefulShutdown`, `Exit`, `Launch` | SIGINT; `main` after the joins; a new process |
| `Publish`, `Trim`, `Backup`, `Restore` | the outside world |

A transaction is modelled by its effect: a thread writes `work[c]`, and COMMIT
copies it with the reference into `db[c]`.  The threads' counters are in
different rows and each has its own `source_ref` row, so that their
transactions do not meet.

Assumed of the environment:

* one process at a time (the code has no lock against a second one), and a
  COMMIT that takes effect after its process has died does so before the next
  process reads the reference;
* the partition is never recreated, so offsets do not restart;
* `batch_commit_size` is positive (`ConstantsAssumption`).

### PageviewLedger

What a reader of the database may rely on: `Post(c, r)` moves statistic `c` to a
later offset `r` and leaves in its counters exactly the views up to `r`.
Everything that the threads do in between is invisible.

### CConsumer and the code

The C consumer does the same work for one statistic, in one loop, and differs
where errors are concerned.

| Action | Code |
|---|---|
| `Launch` | `init_postgres`, `get_last_source_ref`, `rd_kafka_consume_start` |
| `SearchNothing`, `SearchStep`, `SearchFails` | the loop of `init_kafka` that reads until it meets its reference, or the end of the partition |
| `SearchError` | the same loop takes an error event at the offset of its reference for the message |
| `EnterLoop` | handler, statistics thread, `proc_running = true`, in this order: an interrupt in between is forgotten |
| `ReadView` | a view: BEGIN if it is the first of the batch, `update_pageview_count` |
| `ReadOther`, `ReadEnd`, `ReadError` | what `continue` skips, messages and events: `lastoffset` moves, the check for a commit does not happen |
| `ReadNothing`, `NotDue`, `CommitBatch` | the rest of a pass; `late` is the comparison of the clock with `committed_time` |
| `ReadViewFault`, `SetRefFault` | a statement that fails and is logged |
| `BeginFails`, `CommitFails` | the two failures that end the loop |
| `Kill`, `Interrupt`, `Exit` | the ends of the process |

`txn` is the state of the transaction in Postgres, of which the program knows
nothing: after a failed statement it is `"aborted"`, and `Committed` leaves the
database as it is.  `content_pageview(uuid)` counts on the day of processing,
which the log does not determine; a counter in the model is a content's total
over its days.

`PartitionEof` stands for two builds.  librdkafka before 1.0 reports the end of
a partition as an event by default; later versions do so only on request.  By
librdkafka's interface the length of an event that reports an error is that of
its text, and so positive.

Other error events are printed and then go the way of a message, here and in
`init_kafka`.  `MaxErrors` bounds them; `ErrorOffsets` are the offsets that they may have,
0 (where librdkafka sets none) or any up to that of the next fetch.  This is an assumption about
librdkafka: an offset below 0, which some of its newer versions give to events of no
message, would be stored as a reference by a commit by time and is not modelled.  Nor are
messages without a payload, which no producer of this system sends.

### EventCounter and the code

`_IncrementCounter` of the consumer threads and `DisplayEventsProcessed` of
`main` share `*eventCounter` under `counterLock`.  Reading and storing the counter
are steps of their own (`Read`, then `_IncrementCounter` or
`DisplayEventsProcessed`), so that only the lock makes them one.  `Wake` is the end
of `sleep`, with the test of `running`; `Join` the joins at the end of `main`.
Messages are only counted here (`Process`).  The two views of the same threads are
independent, as nothing in `PageviewConsumer` reads the counter.

### PageviewEvents and the code

| Variable | Code |
|---|---|
| `log`, `db`, `backup` | as in `PageviewLedger`, which is instantiated for them |
| `req[r]` | the request of requester `r` in a service: the content it reports, sarama's attempts, the status of the answer |
| `todo`, `exited` | `numberOfViews` of a thread of the load client, and its `System.exit` |
| `stray` | attempts of sarama that were given up and may yet be appended |
| `buffer` | the sender of Spring's Kafka producer |
| `tally` | history: requests taken on, answers 204 and messages, per service and content |

| Action | Code |
|---|---|
| `ProcessPageviewHandler` | route, method, `combineInput`; 404, 405, 400, or on to the producer |
| `sendMessage`, `BrokerAppends`, `MakeNoContent` | `SendMessage` with `WaitForLocal`, the leader's append, the acknowledgement and 204 |
| `AttemptFails` | an attempt fails, before or after the append; retried, or 500 when `Producer.Retry.Max` is used up |
| `StrayArrives` | a message of a failed attempt is appended after all |
| `contentView`, `SenderSends`, `SenderGivesUp` | Spring's handler: 500 if `send` fails at once (no metadata, a full buffer), else 204, whatever becomes of the message |
| `Receive`, `LoseAnswer` | the requester has the answer or an `IOException`; the load client exits on anything but 204 |
| `CrashGo`, `CrashSpring` | a service dies with its requests, and with its buffer |
| `Post`, `TakeBackup`, `Restore` | the consumer and the database, as the ledger allows |

`Post` is the step that `PageviewConsumer` is proved to implement (theorem
`ImplementsLedger`), so that the composition rests on a proof and not on a second
model of the consumer.  It has the conditions of that theorem, prompt first fetches and no
deletions: a slow start may count a view more than `CaughtUpCounts` says.  Neither service asks
whether the content exists: `Known` matters to `Post` only, and a content of a client without a
counter table is as unknown as one that is not there.

### ClientService and the code

| Variable | Code |
|---|---|
| `clients`, `counters`, `contents` | committed rows of `client`, existing counter tables, clients that have rows in `content` |
| `inserted[r]` | the row that the open transaction of request `r` has inserted |
| `conns` | connections held by the pools of the Go service |
| `req[r]` | the place in the handler, the name and id it works with, and the answer |
| `saved` | history: clients made by Spring |

| Action | Code |
|---|---|
| `InsertClientHandler`, `UpdateClientHandler`, `FindOneClientHandler`, `FindManyClientHandler`, `InsertContentHandler`, `UpdateContentHandler`, `FindManyContentHandler` | a handler up to its first use of the database: `combineInput`, the switch on the method, the validation |
| `Connect` | the first query: the pool of this request opens a connection, or the server refuses one more |
| `UndefinedFunction`, `ListClients`, `ListContents` | the queries that change nothing |
| `CreateFound`, `CreateNotFound`, `CreateInsert`, `CreateCommit` | `create_client`, in the steps at which another transaction can come between |
| `CreateAnswer` | the handler after it |
| `LoseConnection`, `Restart` | a lost connection at any of these steps; a restart of the Go service |
| `addClient`, `updateClient`, `saveClient` | the Spring controller: lookup and validation in one transaction, the save in another; the body of `addClient` may have an id, and its save is then an update of that client, or 500 if there is none |
| `content_add` | called with psql |

`CreateInsert` and `saveClient` are enabled only if no other open transaction has
inserted the name: this is how a unique index of Postgres makes an insert wait.

### DataHandler and the code

One handler (`pDH`, with the fields of `postgresDataHandler`) and one table of two
columns.  Each method is an action of the same name; those that fetch rows go on
with `FetchRow` for every `rows.Next()`, `LoseConnection` (it returns false, and
`rows.Err()` is not read) and `FetchDone` for what follows the loop.  A statement is
not a string but what Postgres makes of it: whether it is well formed (no empty
`where`, no `order by` of two columns without a comma), whether it has as many
placeholders as the arguments collected in `dmlArguments` (only their number is
kept), and which rows it selects.  `InOrder` lists rows by their rank, the number of
rows before them, which is what `order by` does for a key without duplicates; an order
over two columns is never executed, as its text has no comma.  Where there is an order, it
is by the id (`DataHandlerAssumption`).  A page size is any `int64` (`MaxInt64` is a constant,
so that TLC can get there): `Limit` is `batchSize + 1` with its overflow, a limit of 0 selects nothing
and Postgres refuses a negative one (`FindIsAccepted`).  A procedure returns any number of rows
(`ProcAnswers`).  `OtherWrite` is everybody else who writes the
table.

### Validation and the code

Documents and schemas are nested, and the module keeps them flat: a document is a
function from paths (`<<"more", "id">>`) to values, a schema a function from the paths of
nested documents to sections.  This is how the code sees them as well, since a Go map is a
reference and a nested call changes the one document in place; and it needs no recursive
operators, which is what makes the module provable.  `IsDocument` and `IsSchema` say when
such functions are trees: what has a path is in something, and a section is the `sub_type`
of a field.  A `sub_type` that is no hashmap has no section.

| Variable | Code |
|---|---|
| `schema` | the message schema, as `InitSchema` has left it |
| `request`, `document` | `input` as it came in, and now |
| `path`, `at` | the innermost call of `ValidateWithSchema` and whether it is before or in the loop of `ValidateWithLegend`; its callers, all in their loops, are for the prefixes of `path` |
| `left` | what the loops of all the calls have still to visit |
| `verdict` | the error that is returned, or the panic |

| Action | Code |
|---|---|
| `InitSchema`, `Reconfigure` | a schema is digested (`parseSubSection`, `processRequiredFields`) or refused, and then the service does not start |
| `Request`, `Respond` | a handler validates a document, and is done with it |
| `ValidateWithSchema` | the required fields and the optional one, up to the loop |
| `ValidateWithLegend(q)` | one round of the loop, for any field that is left, as the iteration of a Go map is: the field is strained out, accepted and converted, descended into, or refused |
| `ReturnToCaller` | the end of the loop |

A value is reduced to its Go kind and, if it is a string, to its length and form.
`Conforms` says what a schema of the configuration means, without digest, order and
conversion; `CleanCopy` what an accepted document is; `Trapped` where the code panics.

## 3. Runs

| Run | Instance | Shows |
|---|---|---|
| `exactly_once` | 2 threads, 2 views, log 3, batch 2, 2 stops, 1 restore | `TypeOK`, `ExactlyOnce`, `ReplayBounded`, `Refinement`: with a broker that answers in time and no retention, counters and reference always agree, and the consumer implements `PageviewLedger` |
| `unreliable_start` | 1 thread, log 4, batch 2, 2 stops, 1 restore, 2 slow starts, 3 deletions, one unknown content | what remains true when starts time out and messages are deleted: `NoOvercount`, `NoUndercount`, `PoisonNeverPassed`, `RefNeverBack` |
| `progress` | 2 threads, 1 view, log 3, batch 2, 1 stop | `AllCounted`, `ShutdownCompletes` under fairness |
| `slow_start` | 2 threads, log 2, 1 slow start | **violation** of `ExactlyOnce` |
| `c_ledger` | C consumer, 2 contents, log 4, batch 2, 2 stops, 1 restore | `TypeOK`, `Refinement` and, under fairness, `AllCounted`: while statements succeed and no events are delivered it implements `PageviewLedger` too |
| `c_everything` | the same with 1 unknown content, 1 failing statement, 2 deletions, end-of-partition events and 1 other error event | `OvercountBounded`: only an error event makes views be counted again; `LossBounded`: a failed statement costs its batch and never more |
| `event_counter` | 2 threads and `main`, 5 events | `TypeOK`, `NothingLost` and, under fairness, `EventDisplayed` |
| `events` | 1 requester of the Go service, 1 load thread at the Spring service, 2 views each, 1 known and 1 unknown content, 1 retry, 2 faults, 1 crash, 1 restore | `TypeOK`, `ConfirmedIsPublished`, `CopiesBounded`, `CaughtUpCounts`, `SpringLossExplained` and, under fairness, `ConfirmedIsCounted`, `EveryViewAnswered` |
| `clients` | 2 requests to the Go service, 1 to the Spring service, 2 ids, 1 name, 2 connections, 1 lost connection, 1 restart | `TypeOK`, `UniqueNames`, `ContentsCountable`, `CreateLeavesClient` and, under fairness, `EveryRequestEnds` |
| `announced` | 1 request, nothing fails | **violation** of `CreatedIsAnnounced` |
| `data_handler` | ids 1 and 2, 2 names, pages of 1 and the sizes -1 and `MaxInt64` = 2, 2 operations per handler, 1 foreign write, 1 fault | `TypeOK`, `PageIsPrefix`, `NextFollowsPage`, `KeyedWrite`, `SpentHandler` |
| `validation` | the two deployed schemas and ten more, all documents over a few values per field | `TypeOK`, `AcceptsExactly`, `AcceptedIsClean`, `ArgumentsReady`, `PanicsOnlyTrapped` |

Why the bounds are enough.

* *Consumers.*  A log of three messages with batches of two has a full batch, an
  incomplete one and the boundary between them; two stops allow a stop while the
  process recovers from a stop; one restore goes back over a committed batch; two
  views of one client give the content thread two counters and the client thread
  one.  Three deletions in a log of four let retention overtake the reference, the
  position in mid-run, or neither.  `unreliable_start` has one thread because
  threads share nothing that its properties mention, except the process exit, which
  `exactly_once` covers with two.  The C consumer's log of four holds two batches, so
  that a batch that was lost is followed by one that moves the reference past it.
* *`events`.*  Two faults use up one retry and end in 500; or they lose an
  acknowledgement after the append and then the answer.  Two views per requester let a late
  message of the first meet the second.  Spring's requester belongs to the load
  client, so that its exit happens; the Go requester asks anything.
* *`clients`.*  A race for a name needs two transactions, and a third request to
  see what the loser sees.  There is one name, as a race is
  for one name; a client that takes the name that another is about to get is left to
  the theorem `NamesAreUnique`.  Everything in this run but `EveryRequestEnds` is also proved
  for any number of requests and names.
* *`data_handler`.*  The default page holds one row of at most two, which gives a
  page with and without a next one; -1 is the size whose limit is 0, and the largest one
  overflows.  A second operation meets whatever the first has left
  in the handler.  Criteria, records and replacements include lists, nulls, absent and
  partial keys.
* *`validation`.*  The deployed schemas have neither nested sections, nor nulls, nor
  exact lengths; the other ten have (`MCValidation`), one of them documents in documents
  in documents with unknown fields at each level.  Three have values of the wrong kind, or
  null, wherever `InitSchema` does not look.
* Everything that the passing runs check is also proved for all bounds, under the
  assumptions that section 4 states, except for liveness: the bounds matter only to
  that, and to finding out what is true before it is proved.

Deadlock is checked except in `events` and `event_counter`, where requesters may have
made all their requests and the process may have ended.

Fairness.

* *C++ consumer.*  An operator or supervisor relaunches the process (weak,
  `Launch`); `main` gets past its joins (weak, `Exit`); threads are scheduled (weak,
  `Thread(c)`).  Two are strong, since what they need comes and goes while the loop
  turns: the clock passes 30 s and a pass sees it (`Pass(c, TRUE)`), and
  librdkafka's background thread sooner or later has a message ready when `Read` asks
  with timeout 0 (`ReadMessage(c)`).  Producers, errors, restores and interrupts have
  no fairness: `AllCounted` says that a published message is counted although nobody
  publishes another.  `ShutdownCompletes` uses that the log of the model ends: the inner loop
  does not look at the flag, and an interrupted thread first reads all there is.
  The C consumer's fairness is the same, action for action.
* *`PageviewEvents`.*  A request that the Go service has taken on goes on (weak,
  `GoStep`: the producer has timeouts), and the consumer posts (weak,
  `PostSome`, which `AllCounted` justifies).  Nothing makes a requester ask, a stray
  message arrive or Spring's sender send.
* *`ClientService`.*  Handlers run to their end (weak, `GoStep`).  Inserting is strong
  (`CreateInsert`, `saveClient`): Postgres wakes a transaction that waits for
  another's name when that one ends.
* *`EventCounter`.*  Threads run on (weak).  Taking the mutex is strong: whoever holds
  it never blocks, and comes back only with a new message or after a sleep.

### The violations

* `slow_start` (`KafkaClient.cpp:152`).  If the broker needs more than a second
  for the first fetch after a relaunch, `Start` goes on without having consumed the
  message of the reference; the first `Read` delivers it, and its view is
  counted a second time.  `NoOvercount` bounds the damage: one per such start.
* `announced` (`client.go:82`).  The row of `select * from create_client(...)` has
  one column, named after the function.  The handler looks for `client_id` in it and
  panics, after the client has been committed: no create is answered 201, and the
  message `client_create` is never sent.

### Behaviour worth knowing, in the models but without a run of its own

* `KafkaClient.cpp:156`: a reference whose message is gone is refused only if some
  other message arrives.  If retention has emptied the log, the thread goes on over
  the gap.
* `consumer.c:555`: the C loop takes `lastoffset` from the end-of-partition
  event, whose offset belongs to no message yet.  A batch committed by time after it
  stores this offset, and a restart skips the message that has got it meanwhile.
  `LossBounded` allows for it.
* `consumer.c:539`: any other error event is printed and then moves `lastoffset` as well,
  back or ahead, and `consumer.c:233` takes one for the message of the reference.
  Either makes a part of the log be counted again: `OvercountBounded` allows each event
  to repeat every view once.
* `consumer.c:601`: after a failed statement the statistics count the batch as
  committed, and Postgres has rolled it back.
* `dal_postgresql.go:612`: a list as the value of a key passes `checkPrimaryKey`
  and puts no condition into the `where` clause; `KeyedWrite` therefore speaks of keys that
  have values.
* `dal_postgresql.go:429`: a listing that was cut short by a lost connection is
  returned as complete.
* `dal_postgresql.go:242`: each request keeps a connection until the service is
  restarted.  When the server has no more, requests that need the database are refused.
* `dal_postgresql.go:414`: a page size of -1 lists nothing and reports no error; a smaller one,
  or the largest, gives a negative limit and an error of Postgres.
* `ClientController.java:32`: a POST with the id of a client renames it and answers 201.
* `validation.go`: what `InitSchema` accepts may make a request panic instead of refusing it
  (`Trap`, `Trapped`): a null as `null_ok` (line 290) or `additional_validation` (310), an
  `enum` that is no list of strings (327), a null bound of a length (347, 357), an exact
  length that is missed (350), a hashmap without a schema (413), an array whose elements have one (424)
  and an action without a default (244).  No deployed schema has them (`DeployedIsSafe`
  in `MCValidation`).
* `InitSchema` does not ask whether a required field is in the legend; if it is not, the
  validation demands it and then strains it out (`ArgumentsReady`).
* `ContentPageviewService.java:59`: a client added through the Spring service has no
  counter table; the first view of its content stops the consumer
  (`ContentsCountable` has to except these clients).
* `apphandlers/main.go:27`: 500 may be answered for a view that is in the topic;
  Spring answers 204 for a view that may get lost.  So `ConfirmedIsPublished` is
  about the Go service and 204 only.

## 4. Theorems

For every value of the constants that satisfies the assumptions of the modules.

| Theorem | States |
|---|---|
| `PageviewConsumerProofs` | |
| `Invariance` | the inductive invariant `IInv` |
| `TypeCorrect` | `TypeOK` |
| `OvercountBounded`, `NothingLost`, `PoisonStops` | `NoOvercount`, `NoUndercount`, `PoisonNeverPassed` |
| `ReferenceForward` | `RefNeverBack` |
| `CountedExactlyOnce` | `ExactlyOnce`, if no start times out and nothing is deleted |
| `ReplayIsBounded` | `ReplayBounded`, under the same assumption |
| `ImplementsLedger` | `Refinement`, under the same assumption |
| `ClientServiceProofs` | |
| `Invariance` | the inductive invariant `IInv` |
| `TypeCorrect` | `TypeOK` |
| `NamesAreUnique` | `UniqueNames` |
| `ViewsAreCountable` | `ContentsCountable` |
| `CreateSucceeds` | `CreateLeavesClient` |
| `CConsumerProofs` | |
| `Invariance` | the inductive invariant `IInv` |
| `TypeCorrect` | `TypeOK` |
| `OvercountIsBounded` | `OvercountBounded` |
| `LossIsBounded` | `LossBounded` |
| `ImplementsLedger` | `Refinement`, if nothing is deleted, no statement fails, all contents are known and neither errors nor the end of the partition are reported as events |
| `EventCounterProofs` | |
| `Invariance` | the inductive invariant `IInv` |
| `TypeCorrect` | `TypeOK` |
| `EventsAccounted` | `NothingLost` |
| `PageviewEventsProofs` | |
| `Invariance` | the inductive invariant `IInv` |
| `TypeCorrect` | `TypeOK` |
| `ConfirmedPublished` | `ConfirmedIsPublished` |
| `CopiesAreBounded` | `CopiesBounded` |
| `CaughtUp` | `CaughtUpCounts` |
| `SpringLossIsExplained` | `SpringLossExplained` |
| `DataHandlerProofs` | |
| `ListingOrdered` | `InOrder` is what `order by` means |
| `Invariance` | the inductive invariant `IInv` |
| `TypeCorrect` | `TypeOK` |
| `PagesArePrefixes`, `NextIsTrue` | `PageIsPrefix`, `NextFollowsPage` |
| `WritesAreKeyed` | `KeyedWrite` |
| `HandlersAreSpent` | `SpentHandler` |
| `ValidationProofs` | |
| `Invariance` | the inductive invariant `IInv` |
| `TypeCorrect` | `TypeOK` |
| `ExactAcceptance`, `CleanAcceptance` | `AcceptsExactly`, `AcceptedIsClean` |
| `OrderDoesNotMatter` | the accepted document is a function of the request and the configuration |
| `ArgumentsFound` | `ArgumentsReady` |
| `PanicsTrapped` | `PanicsOnlyTrapped` |
| `SafeSchemasNeverPanic` | no panic, if every section of the configuration is a `SafeSection`; the deployed ones are |

### PageviewConsumer

The assumption of three of the theorems is `MaxSlowStarts = 0 /\ MaxTrims = 0`;
`slow_start`, and the empty log of `KafkaClient.cpp:156`, show that neither half
can be dropped.

The argument.  None of the properties is inductive.  `TypeOK` is not, because
a commit stores `kcRef[c]`, which may be `OFFSET_BEGINNING`: one needs
that a thread about to commit has read something.  For the others, `Accounted`
says of counters and a reference that they agree with the log: not short of it
while nothing is deleted, over it by at most a slack, and not past a bad message.
`IInv` says this of three things: the committed row, the dumped row (so that
a restore preserves it) and the open transaction with the thread's own
reference (so that a commit does).  The slack is `slowStarts`, except for a
thread that is `Replaying`, whose slack is one less: the view it is about to
read again is the one it will use up.  The position of the next fetch is just
after the thread's reference, at it when replaying, or anywhere not past the
beginning of the log when retention has overtaken it.  With both budgets zero the
slack is zero and the log is complete, and the two inequalities close to
`ExactlyOnce`.  `OwnStep` treats the actions of the thread in question,
`OtherStep` everything that other threads and the environment do.

`ReplayBounded` is proved from `IInv` and itself (`BatchStep`); the refinement
from `IInv'` at each commit, since `Post` requires the exact counts.

### ClientService

`UniqueNames` is not inductive: two open transactions could be about to commit the same
name.  `InsertInv` says of a client that is inserted and not committed that its
name is that of its request, that no committed client has it and that no other
transaction has inserted it.  It survives the steps of other requests because
`CreateInsert` and `saveClient` are enabled only where `NameIsFree`, and
because a commit of another name does not touch it.  `ContentsCountable` follows from the
stronger statement that all committed clients, not only those with a content, have
their counter table or come from the Spring service; a save with an id
changes only a client that exists.  `TypeOK` needs `ConnInv`: a request that is being served
has a connection of its own, so that losing it cannot make their number negative; here
the cardinality of `Holding` is needed, and with it that `GoRequests` is finite.
`CreateLeavesClient` is an action property: it is proved from `IInv` for each action
that can end a create (`CreateFound`, `CreateInsert`, `CreateCommit`).

### CConsumer

The C consumer loses views without noticing, and after an error event it counts some again;
the proofs are about how many.  `OvercountBounded` needs that the batch in the open
transaction does not count more than the log has before the next fetch (`ReadInv`), and that the
row and the dump do not count more than it has up to their references (`RowInv`), in
both cases but for as many times the whole log as there were error events (`NotOver`).  An event
that has moved `lastoffset` back has done nothing yet; it costs its repetition only when the
offset is committed, so that until then (`Rewound`) the `Slack` of what has been read
is one less.  `LossBounded` is a balance: `Allowance` is what bad
messages, failed statements and stops pay for, and `LossInv` says that row, dump and
batch are each within it; bad messages are paid for again whenever the log is read
again.  Three things make it delicate.

* The run of a failed batch.  After a failed statement the transaction is
  aborted and the batch goes on; everything that it reads is paid for by that
  one statement, because a batch has at most `BatchSize` views and its COMMIT stores
  nothing (`ReadLoss`).
* References that are ahead.  After an end-of-partition or error event (`Ahead`) the stored
  reference may be that of a message that has not been read, or does not exist yet; `RowLoss` says for such a row that it is
  exact up to the offset before it.
* Who pays for the skipped message.  The process that starts at such a reference skips
  a message, and the stop that ended its predecessor pays (`Excused`): one
  stop, one message.

For `ImplementsLedger` the budgets are zero, and the two inequalities close
to equality at each commit, as in the C++ consumer.

### EventCounter

Every processed message is displayed, in the counter, or held by a thread that has still
to count it: `processed = displayed + eventCounter + Cardinality(Pending)`.  It is inductive
only together with the other half, that what a thread has read under `counterLock` is still
the value of the counter when it stores; this is where the lock is used.

### PageviewEvents

The properties compare numbers that several requesters contribute to, so the
invariant contains sums.  A sum over a set is the number of pairs `(x, i)` with `i` up to
the summand of `x` (`Numbered`, `Sum`); that a step changes a sum by what it changes in one summand
is then a statement about finite sets and needs no induction.  This is why requesters and
contents are finite (`PageviewEventsAssumption`).

`ContentInv(m)` is the account of one content:

* confirmed views and messages that are appended and not yet acknowledged are at most the
  copies in the topic: `ConfirmedIsPublished`;
* copies, stray messages and the attempts still open to requests under way are at most
  `1 + RetryMax` for each request taken on;
* copies, strays and requests under way are at most requests and faults, since each
  failed attempt is a fault;
* the messages of the content in the topic are the copies of both services.

`TopicInv` bounds the length of the topic by all requests and faults, with the faults
counted once and not for each content; `RowInv` says that a committed row, and the row of
the dump, is the count of a prefix of the topic.  `CaughtUpCounts` follows: a row at
the end of the topic counts all copies.

`SpringLossExplained` is proved from `IInv` and itself (`SpringStep`): a view that is confirmed
enters the buffer in the same step, and one that leaves it is in the topic or is a fault.

### DataHandler

`PageInv` describes a find while it reads: what it has added to `Record`, the row in hand and
the rows to come are the answer of its statement, one after the other, and it has read
or will read as many rows as it asked for unless the connection was lost.  Nothing in it
mentions the table, as there is one statement.  `NextFollowsPage` needs
also that a handler which has recorded nothing has no next index (`HandlerInv`).  This would
be false for a size of 0, where a find would read one row, record nothing and set a next index;
0 is replaced by the default, and a negative size that Postgres does not refuse is -1, which
reads nothing (`Room`, `Asked`).  `SpentHandler` needs that an insert leaves arguments
behind.  `KeyedWrite` needs no invariant.

### Validation

The assumptions are `SchemasAssumption` and `DocumentsAssumption`: schemas and documents are
trees, lengths are natural numbers, and a bound of a length is a number, null, a word that is
wrong or one that leaves it free (`Bounds`).
Nothing is assumed about the depth, the number of fields or the sense of a schema; the
invalid ones are refused by `InitSchema`.

The verdict at the end says nothing about the way to it, so none of the properties is
inductive.  The invariant divides the paths of the request.  A path is `Pending` if it is
below a field that some loop has still to visit, or in the document of a call that has not
begun its loop.  `PendingUntouched`: there the document is what came in.
`VisitedSettled`: everywhere else the field is `Settled`, which is that it fits its
definition and the document has its converted value, or that it is unknown and gone.
`VisitedComplete` says the same of the places and their required fields.  A step takes
a path out of `Pending` and has to settle it:

* straining takes out all that is below the field, and nothing there is known
  (`UnknownBelow`), since sections hang together;
* an accepted value is no document, so that nothing else is below it (`DocumentPrefix`);
* descending settles the field alone, and all below it stays pending, now by the call;
* the loop of a call begins with exactly what was pending by the call (`LoopBegins`).

That a step touches nothing else rests on `CallsOK`: what is left belongs to the calls in
progress, and none of it is on the way to the innermost one, so that two fields that
are left never overlap (`NothingElsePending`).  When the outermost loop ends nothing is left
and every path is settled, which is `Conforms` and `CleanCopy`.  A refusal comes from a
field or a place that is still what came in, and is the one that `Conforms` or
`Trapped` names (`FieldJudged`, `CheckedAsRequested`).  `SectionDigested` relates the
digested parts to what the configuration says.

### Only model-checked

Liveness (`AllCounted` twice, `ShutdownCompletes`, `ConfirmedIsCounted`,
`EveryViewAnswered`, `EveryRequestEnds`, `EventDisplayed`), which is outside what
the prover handles.

## 5. Not modelled

Left out, because nothing that it does can be told apart by a property of this system:

* configuration files of the consumers (the batch size is a constant; 0 is accepted by
  `ProcessCfg.cpp:34` and divides by zero at the first message);
* the layout of response bodies, SQL and connection strings, logging;
* the C consumer's statistics thread and the load client's, which only print;
* endpoints of the Spring service that only read, and `addContent` and
  `updateContent`, which are empty;
* the code of `content.go` behind the data handler that `InsertContentHandler` and
  `UpdateContentHandler` fail to make: it cannot be reached, as
  `NewPostgresDataHandler` refuses the empty table definition that they pass;
* `update_client` and `delete_client`, which the Go service calls and
  `content.sql` does not define: modelled as the error they give;
* the day of a view.  The Go service writes it in its own zone and Spring in UTC
  (`main.go:25`), and no document says which is meant;
* Ansible: nothing at run time.
