# DemoFactory: the back-end service, specified in TLA+

This directory holds a TLA+ development of the back end of *blueprint-cdk-back-service*
(`src/packages`): a serverless REST service for versioned "demos", whose table feeds an
asynchronous notification pipeline. Paths below are relative to `src/packages`.

| Section | |
|---|---|
| 1 | the system: components, state, operations, what is hard about them |
| 2 | the modules and how they correspond to the code |
| 3 | the runs of TLC, their bounds, the fairness assumed |
| 4 | the theorems checked by TLAPS |
| 5 | where the code and its documentation disagree |
| 6 | what is not modelled, and the plan |

## 1. The system

```
client -> API Gateway -> handlers (one Lambda function per route)
                            |  get / create / update / deleteCompletely
                            v
                         DemoModel -> DynamoDB table -> stream (one order per shard)
                                                           |
                            consumer (batchSize 1, no retries) -> dead letter queues
                                                           v
                         notification queue (FIFO, one group per recipient)
                                                           v
                         notifier (batchSize 1, 4 s, 5 receives) -> Cognito, Slack, SES
```

| Component | Code | State | Operations |
|---|---|---|---|
| Demo model | `data-models/lib/models/demo.model.ts` | rows of one table, key `v{k}_{id}`; `v0` is the latest copy | `get`, `getAll`, `getAllById`, `create`, `update`, `updateRevision`, `delete`, `deleteCompletely` |
| Pagination | `data-models/lib/models/generic.model.ts` | none | `queryWithPagination`, `scanWithPagination` |
| REST handlers | `rest-api/src/handlers/demo.handler.ts`, `api.controller.ts` | none between requests | `getAll`, `get`, `post`, `put`, `deleteDemo`, `handle` |
| Request validation | `rest-api/src/validation` | none | pure checks, those of demos unused |
| Feedback | `feedback.model.ts`, `feedback.handler.ts` | one SQS queue | `POST /feedback` |
| Stream consumer | `rest-api/src/consumers`, `utils/consumer.helpers.ts` | stream position, notification queue, dead letter queues | `consume` |
| Notifier | `rest-api/src/notifications` | FIFO queue, receive counts, a cached web hook | `notify` |
| Test support | `data-models/lib/test-support`, `rest-api/features` | created resources, `this.demo` of a scenario | `createDemo`, `manageDemo`, `deleteAll`, the steps of `Demo.feature`, `expectEventually`, the script for the test users |
| Stacks, constructs | `constructs`, `infra`, `rest-api/lib` | none at run time | declarations |

Interactions: the handlers call the model, and the instances of the functions share nothing
but the table, so that every `await` of a method is a point where other requests run.
Everything behind the table is connected by the stream and by queues; the consumer and the
notifier never write to the table.

What is hard, and what makes each component correct:

* **Demo model.** Two rows per write, kept together by a transaction; optimistic versioning
  by a condition on the version row only; eventually consistent reads; retries of `create`
  when an id is taken; retries of the SDK; a deletion that is a loop of independent
  requests. *Correct* means: version 0 is the newest version, histories have no hole, what
  was acknowledged is kept, no version row is overwritten, an update builds on the latest
  version, a deletion deletes what it has read, and a demo is whole until its first version
  is deleted.
* **REST handlers.** Two calls of the model in a request, without anything that holds
  between them; a function cut off after 3 seconds (`constructs/lib/LambdaFunction.ts`).
  *Correct*: the status is true of what happened to the table, and every request is
  answered.
* **Stream consumer.** Several requests for one event, each of which may be refused, lost or
  partly executed; the dead letter queue may fail too; no retries. *Correct*: nothing is
  lost without a trace, nothing is sent twice, the order of a recipient's messages is that
  of the stream, a bad event does not hold up its shard.
* **Notifier.** Two messages for one notification, at-least-once delivery, several
  instances at a time, errors that are swallowed by their code and text, a web hook kept
  for the life of an instance. *Correct*: a message leaves the queue, and what is deleted
  was delivered or failed in a way the code means to ignore; a recipient's messages come in
  the order of the stream.
* **Pagination, listing.** Others write between two pages, and the order is that of
  strings. *Correct*: all the rows that were there, none twice, one row per demo in a
  user's list.
* **Test support.** Several test runs, each with its own list of what to clear away, share
  one table, whose reads are eventually consistent. *Correct*: a step fails only if the
  service is wrong, and nothing is left.

`PROJECT.json` lists the hazards one by one, each at its line.

## 2. The modules

| Module | Models | |
|---|---|---|
| `DemoTable` | bodies, items, keys and DynamoDB's operations on a table | data only |
| `DemoModel` | the methods of `DemoModel` run by concurrent invocations | `table`, `replica`, `used`, `call` |
| `DemoHistory` | *abstract*: each demo is an append-only list of bodies | `history`, `busy`, `answer` |
| `DemoModelHistory` | the refinement of `DemoHistory` by `DemoModel` | mapping |
| `DemoModelDeletion` | what racing, stale and repeated deletions leave of a demo, and the invariants that explain it | adds the history variables `standing`, `repeated` |
| `DemoHandler` | the REST handlers on top of `DemoModel` | adds `http` |
| `DemoReads` | listings of the demos, page by page, on top of `DemoModel` | adds `reader` |
| `Scenarios` | test runs that play `Demo.feature`, on top of `DemoHandler` | adds `world` and the history variable `misread` |
| `Consumer` | the consumer of the stream, its event source and queues | `pos`, `pc`, `start`, `queue`, `parked`, `failed` |
| `Notifier` | the notifier's instances behind the FIFO queue | `queue`, `place`, `receives`, `worker`, `secret`, `trace` |
| `Mailbox` | *abstract*: what a recipient may expect of the two | `inbox`, `settled`, `seen` |
| `Pipeline` | `Consumer` and `Notifier` composed over the queue they share | all of theirs |
| `MC*` | instances for TLC | model values |
| `*Proofs` | theorems and their proofs (section 4) | |

Some definitions stand under the heading "Mistake" and directly before the definition that
they get wrong. No specification uses them. They say which error in the code each property
would notice; `PROJECT.json` pairs them under "mutants".

**DemoModel.** `call[p]` is the activation of a method by process `p`: `op` the method, `pc`
the request it awaits (`get`, `save`, `revise`, `delete`), and its arguments and locals. An
action is what the code does between two awaits, the request that DynamoDB executes
included: `ReadForUpdate` is the answer to `this.get(id)` with the validation that follows
(`demo.model.ts` 230-238), `Save` and `SaveRefused` the transaction and what `create` or
`update` make of its outcome (212-249). DynamoDB executes a request atomically.

* *Data.* A body is a pair of a datum and a status; ids, data and processes are model
  values. Dates, `userStatusKey`, `entityId` inside the item and the text of messages are
  left out, as no decision depends on them.
* *Stale reads.* `get` asks for no consistent read: with `Lag` it answers from the table or
  from `replica[id]`, a copy of the latest row that catches up in `Replicate`. The copy never
  goes back in time, but `get` may alternate between the two.
* *Ids.* `uuidv4` picks any id when `Collisions` is TRUE and a fresh one otherwise (`used`).
* *Faults.* `Fail`: a request is rejected with another error than a failed condition.
  `LostReply`: a transaction took effect and its answer was lost. The SDK repeats it with
  its idempotency token, so that the repetitions change nothing; the SDK gives up in the
  end, or one of them is answered like the transaction. `LostDelete`: a delete took effect
  and its answer was lost. It carries no token: the call waits on, and the repetition is a
  request like any other, at any later time. It fails on the condition, so that `delete`
  answers `NotFoundError` for a row it has deleted, or it deletes a row that an update has
  put back in between, and the loop goes on. It may lose its answer again. `Crash`: the
  function times out or dies. A request still on its way when its invocation dies is not
  modelled; it is executed before the crash or never.

**DemoHandler** extends `DemoModel`: `http[p]` is the request that invocation `p` serves.
`ReceivePut` and the like are the handlers up to their first call, `PutUpdate` and
`DeleteAll` the second call, `Respond` what `ApiController.handle` answers, `GatewayError`
the gateway's 500 for a function cut off. `wrote` is a history variable: no handler reads
it. The actions of the calls are those of `DemoModel`, unchanged.

**DemoModelDeletion** adds two history variables to `DemoModel`. `standing[p]` are the rows that
have been there ever since the deletion of `p` read the latest version, so that
`DeletedWhatItRead` can say what a deletion promises beside updates that write anew what it
has deleted. `repeated` are the demos of which a delete lost its answer; `KeptUnlessRepeated`
leaves these out, since the repetition may delete a version that was put back: the demo can
then be read and has no row of its version.

**Consumer.** `pos[s]` is the event of shard `s` that is handled or next, `start[s]` the
`startPosition` of the loop, a request's entries its `Batch`. The processor is a constant function from events to
notifications (the repository's `DemoRecordProcessor` returns none yet). SQS refuses a
request with too many entries or with an Id twice (`Accepted`), as it would refuse the
notifications that `consumer.controller.test.ts` 72-110 dispatches, which are all alike; the
event is parked then. Its content-based
deduplication drops an entry equal to a recent one (`MayMiss`), and with "partial" any entry
may fail, which it reports in an answer the code does not read. `Park` is the catch block;
`ParkThrows` and `Timeout` end the invocation with an error, upon which the event source,
set to `retryAttempts: 0`, records the event at its `onFailure` destination and goes on. The
redelivery of a stream record by a crash of the event source itself is not modelled.

**DemoReads** extends `DemoModel`: `reader[r]` is a listing that a reader asks for. `ReadPage`
is the answer to one query or scan: the next `PageSize` rows that match, in the order of
their keys, and whether there is more (`LastEvaluatedKey` may also be there when the page is
full and nothing follows). With `loop` the listing goes on as `queryWithPagination` and
`scanWithPagination` do; without, it is `getAll` or `getAllById`, which ask once. `VersionRank`
is the order of the strings `v{k}_{id}`, in base `Radix`. `steady` is a history variable: the
rows that matched from the start on. Indexes are copies of the table that follow it; what is
checked for the table holds of the copy that is queried.

**Scenarios** extends `DemoHandler`: `world[r]` is what test run `r` plays and its `DataManager`.
`GivenDemo`/`DemoGiven` are `createDemo`, `GivenNoDemo` the step of that name, `Ask` and `Reply`
the When step and the comparison of the Then steps, `CleanUp`/`CleanedUp` `deleteAll` in the
`After` hook. The list is asked for by `Ask`, read by `ScanDemos` (the handler `getAll`) and
compared by `ReplyList`, each a step of its own. The manager's calls are those of `DemoModel`
by the processes of `Own[r]`; the requests are served by the others (`Lambdas`). The features
are about a deployment in which nothing fails, so the module has no faults. But the reads
are eventually consistent also there: with `Lag` a read right after `createDemo` may find
nothing and the scenario fails, and one in `deleteAll` may give a `NotFoundError` that is
swallowed, or count too few versions, and rows stay. `misread` remembers the demos of which
a read answered something else than the latest copy; `ScenariosPass` and `NothingLeft` excuse
these and no others. Bound: the scan of `getAll` finds `this.demo` only while the table fits
one page.

**Notifier.** `queue` holds every message that was ever sent, `place[i]` says whether message
`i` is waiting, deleted or in the dead letter queue, `receives[i]` how often it was handed
out. `worker[w]` is an instance of `notify`: the request it awaits, its message, whether
Cognito gave an address, and `instantMessageWebHook` of its `SlackGateway`. `Receive` is the
receipt with `parseRecord`, `Throws` an exception that leaves `notify`, `Delete` the event
source's deletion after a normal return. A message is handed out when it is the first of its
group (`First`). `trace[i]` is a history variable: what went out for message `i`, and whether
an error was swallowed (`excused`) or something outside the code was in the way
(`hindered`). `Mishaps` lists what may go wrong: each request may be rejected, users may be
unknown to Cognito or Slack, SES may be in its sandbox, an instance may be cut off, and the
secret may be rotated. A lost answer is the effect of the request and then a rejection of the
next one, and is not listed apart. The queue hides a message for 30 seconds and the function
is cut off after 4, so no message is handled by two instances.

**Pipeline** extends `Notifier` and instantiates `Consumer` over the same `queue`: a step is one
of the consumer that leaves the notifier's variables alone, or the reverse. From the
notifier's point of view the consumer is `Put`. A notification as its interface declares it
has `type` and `userId` in its recipient, and `validateBody` refuses it each time it is
received (section 5). The stream of `pipeline` holds one of these; the other messages have
the two fields at the top as well, which is what a sender would have to write today for the
gateways to be reached, and without which nothing behind `validateBody` would ever run.

**Mailbox** is what a recipient may expect: a list, settled in its order, each entry reaching
the recipient, if at all, while it is next. It knows no attempt: repetitions of a message
that was received several times are stutters.

## 3. The runs

| Run | Question | Instance |
|---|---|---|
| `demo_versions` | are histories complete and acknowledged writes kept, under stale reads, collisions and all faults? does this implement `DemoHistory`? | 3 processes, 1 id, 2 bodies, 3 versions |
| `demo_rest` | what do racing deletions and updates leave of a demo? is the deletion invariant one? | 3 processes, 1 id, 3 versions, lost answers, repeated deletes and crashes, stale reads |
| `demo_reads` | does a loop over pages miss rows, does a user's list show a demo twice? | 1 writer with every method and fault, 1 reader, pages of 1 row, 3 versions' keys |
| `demo_methods` | does any method make a version row appear but as the latest version, `updateRevision` and `delete` included? | 2 processes, valid and invalid bodies, 2 versions, stale reads, all faults |
| `handler_requests` | is a 400 or 404 true of the table? are other demos left alone? | 2 clients, 2 demos, valid and invalid bodies, 3 versions, all faults |
| `handler_live` | is every request answered? | 2 clients, stale reads, collisions, crashes |
| `scenarios` | do the scenarios of `Demo.feature` pass while other runs play theirs, and do they leave nothing, stale reads apart? | 2 test runs, 2 functions, 2 generated ids and the one that does not exist, stale reads |
| `consumer_faults` | is anything lost, repeated, out of order, badly cut or held up? | 2 shards, events of 3, 2, 0 and 5 notifications and one of 2 that are alike, `MaxMessages` 2 |
| `pipeline` | does a message vanish, overtake another, stay for ever? does this implement `Mailbox`? | 1 shard, 2 events, 4 messages for a user and a mailing list, one of them refused, 2 instances, 2 receives, 2 secrets |
| `demo_wedge`, `handler_delete`, `notifier_intent` | section 5 | the smallest instances that show it |

*Bounds.* `MaxVersion` caps the versions of a demo through `HasRoom` and `PutHasRoom`: an
update starts only while the version it may compute fits. Three versions in `demo_rest` are
a first version, one that a deletion past it has still to delete, and one that an update
puts back or stores behind it: what goes wrong after version 1 is gone (`KeptUnlessRepeated`)
needs no more. Three processes are a deletion and two updates that read different versions,
or two deletions and an update; the hazards of section 1 need no more, and what the
theorems of section 4 cover holds for any number. `demo_wedge` needs four versions, as an
update may start only while the bound leaves room for it. `Retries` is 1 in
`demo_versions` and `demo_methods`, where the number of attempts after the first tells no states apart but the
counter's own, and the source's 2 elsewhere. One id is enough where
demos do not interact; `handler_requests` takes two because a PUT names two. In
`consumer_faults` MAX_MESSAGES and the queue's limit, 10 in the code, are 2: events then need
one, two and three requests, with the last one full or not. In `pipeline` both are 2, so that
the messages of the first request of an event can be handled before the rest of them is sent; `maxReceiveCount`, 5 in
the stack, is 2: one attempt that fails and one that is the last. `MaxSecret` 2 is one
rotation, which `Rotate` does only right before a fetched hook is used, as an earlier
rotation is noticed no earlier. `Capacity` is the number of messages the stream produces.
`demo_reads` has pages of one row and `Radix` 2, in which the versions 0, 1 and 2 already are
strings of one and of two digits, out of numerical order. Processes are symmetric in the
runs without liveness. Two runs have a `VIEW`, which drops what neither a further step nor a
property depends on. `handler_requests` keeps of an answered request its method, status and
`wrote`, and drops the call that served it; `scenarios` keeps of a call that nobody waits for
any more its demo and outcome, as long as the scenario it belongs to is played.

*Fairness.* `FairHandlerSpec` has weak fairness of the next step of each request:
DynamoDB answers every request or rejects it, and between two awaits a handler only computes.
No fairness is assumed of faults, of clients or of `Replicate`. `FairSpec` of `Consumer` has
weak fairness per shard of the invocation and its steps: the event source polls while there
are events. `Fairness` of `Notifier` has weak fairness of each instance's steps, the receipt
included, and of the move to the dead letter queue: SQS hands out what is visible while an
instance is free. `FairPipelineSpec` has both. No fairness is assumed of any mishap. Nothing
is assumed of the order of answers to different requests.

*Deadlock* is checked for the demo model, the listings and the handlers. The consumer stops at
the end of its stream, and the pipeline when the queue is empty behind it; test runs stop
when the ids are used up. Their configurations switch the check off.

## 4. The theorems

All proofs are in modules of their own; each theorem holds for any sets of processes, ids,
bodies, shards, events, instances and messages, any number of versions, retries and
receives, and any set of faults, as far as the third column does not say otherwise.

| Theorem | Module | Assumes |
|---|---|---|
| `TypesCorrect`: values have their types, suspended calls hold what they need (`TypeOK`) | `DemoModelProofs` | |
| `NewVersionsAreLatest`: a version row appears only as the latest version | `DemoModelProofs` | |
| `VersionsNeverOverwritten`: no write changes a version row | `DemoModelProofs` | no `updateRevision` |
| `HistoriesComplete`: the rows of a demo are a history without a hole, and the latest copy is its newest version | `DemoModelHistoryProofs` | `AppendOnly` |
| `ReadsComeFromHistory`: what was read, stale or not, is a row of the history | `DemoModelHistoryProofs` | `AppendOnly` |
| `AcknowledgedWritesKept`: no acknowledged write is lost or shares its version | `DemoModelHistoryProofs` | `AppendOnly` |
| `UpdatesAreOptimistic`: an update succeeds only on top of the version it read | `DemoModelHistoryProofs` | `AppendOnly` |
| `ModelImplementsHistory`: `DemoModel` implements `DemoHistory` | `DemoModelHistoryProofs` | `AppendOnly` |
| `DeletionsKeepOrder`: the invariant that explains racing deletions (`DeletionInv`) | `DemoModelDeletionProofs` | `RestSystem` |
| `WholeUntilDeleted`: a demo is whole while its first version is there (`WholeWhileFirst`) | `DemoModelDeletionProofs` | `RestSystem` |
| `DeletionsSucceedOnce`: at most one deletion of a demo succeeds | `DemoModelDeletionProofs` | `RestSystem` |
| `DeletionsDeleteWhatTheyRead`: a deletion that returned has deleted the versions up to the one it read (`DeletedWhatItRead`) | `DemoModelDeletionProofs` | |
| `ReadableIsKept`: a demo that can be read has its version row, unless a delete of it was repeated (`KeptUnlessRepeated`) | `DemoModelDeletionProofs` | `RestSystem` |
| `LoopsAreComplete`: a loop over pages returns every row that was there all the time (`LoopIsComplete`) | `DemoReadsProofs` | |
| `ListsHaveOneRowPerDemo`: a user's list has one row per demo (`OneRowPerDemo`) | `DemoReadsProofs` | |
| `ReadersChangeNothing`: beside any listings, the table sees a behaviour of `DemoModel` | `DemoReadsProofs` | |
| `HandlersUseModel`: what the handlers do to the table, `DemoModel` does | `DemoHandlerProofs` | |
| `HandlerTypesCorrect`, `RefusalsStoreNothing`: a 400 or 404 stored nothing | `DemoHandlerProofs` | |
| `RequestsKeepToTheirPath`: a request changes the demo of its path only | `DemoHandlerProofs` | |
| `WholeBehindHandlers`: `WholeWhileFirst` and `OneDeletionSucceeds` behind the REST interface | `DemoHandlerProofs` | `~Collisions` |
| `ScenariosUseModel`: what test runs, managers and handlers do to the table, `DemoModel` does | `ScenariosProofs` | `~Collisions` |
| `RunsTakeTurnsOnDemos`: until a read is stale, no two calls are about to write one demo (`OneWriterPerDemo`) | `ScenariosProofs` | `~Collisions` |
| `EveryScenarioPasses`: until a read is stale, what `Demo.feature` says comes true and no clean-up throws (`ScenariosPass`) | `ScenariosProofs` | `~Collisions` |
| `RunsLeaveNothing`: until a read is stale, each row is of a scenario still being played (`NothingLeft`) | `ScenariosProofs` | `~Collisions` |
| `ConsumerTypes` | `ConsumerProofs` | |
| `NoNotificationLost`: what was dealt with is queued, or its event is in a dead letter queue | `ConsumerProofs` | SQS fails no single entry |
| `RequestsAreCut`: no request is empty or has more entries than SQS takes (`RequestsFit`) | `ConsumerProofs` | `MaxMessages` within the limit |
| `NothingSentTwice`, `QueueInOrder`: the queue has the order of the stream | `ConsumerProofs` | `ToldApart` |
| `NotifierTypes` | `PipelineProofs` | |
| `NoMessageVanishes`: what was deleted was delivered or excused | `PipelineProofs` | |
| `InstantMessageFirst`: the instant message before the email | `PipelineProofs` | |
| `NotifierImplementsMailbox`: a recipient's messages leave the queue, delivered or given up, in their order, and none goes out before every earlier one has left (`Mailbox`) | `PipelineProofs` | |
| `PipelineImplementsItsParts`: either half of `Pipeline` is the component modelled alone | `PipelineProofs` | `Capacity` is not exceeded |
| `PipelineDelivers`: `NothingVanishes`, `TextedFirst` and `Mailbox` behind the consumer | `PipelineProofs` | `Capacity` is not exceeded |
| `NothingLostOnTheWay`: nothing is lost from the stream to the recipient, but into a dead letter queue | `PipelineProofs` | SQS fails no single entry, `Capacity` is not exceeded |
| `RecipientsSeeOrder`: a recipient's messages come in the order of the stream (`DeliveredInOrder`) | `PipelineProofs` | `ToldApart`, SQS fails no single entry, `Capacity` is not exceeded |

The theorems about the notifier stand in `PipelineProofs`, in front of those about the pipeline,
and the refinement of `DemoHistory` in `DemoModelHistoryProofs`.

`AppendOnly` says that the calls are `get`, `create` and `update`; `RestSystem` that they are
those of the handlers and that no generated id repeats, which is `~Collisions`; `ToldApart`
that the processor does not produce one notification twice. `Capacity` is the bound on the
queue of the model, not of SQS; that the stream produces no more messages is a hypothesis of
the theorems about `Pipeline`, and `TypeOK` checks it in `pipeline`. `RestOpsOnly` in
`DemoHandler` fixes the methods that the handlers call. No theorem assumes that reads are
consistent, that calls on a demo take turns or that a fault of the demo model is absent: where the code needs
that, the property itself says what is excused. `Scenarios` has no faults at all, as the
features are about a deployment in which nothing fails.

*Arguments.* **Types** need the strengthening that a suspended call holds an item it has read
(`CallsOK`), since `Updated` takes its version. **Rows** (`NewVersionsAreLatest`,
`VersionsNeverOverwritten`): every step leaves the table alone, writes the two rows of `Save`,
writes those of `Revise`, or removes one row (`WritesOfNext`); the condition of the first says
that the version row is not there. **Histories** are an induction on the
conjunction of `HistoryComplete`, `LatestIsNewest`, `LatestHasVersion`, `ReadsAreHistory` and
`AcknowledgedKept`: whatever an update has read, stale or not, is a row of the history, so
that the condition on the next version's row fails unless what it read is still the newest.
Under that invariant the mapping of `DemoModelHistory` takes every step to one of `DemoHistory`
or to a stutter: `Save` appends, everything else of an update's course is silent.
**Deletions** need `DeletionInv`: version 1 is written by `create` only, so of the deletions
that walk a demo only the one that found version 1 goes on, and while version 1 is there
nothing below any version is missing and whatever was read of the demo is still stored.
None of this minds the repetition of a delete: the loop does not go back, and the only row
that both matters here and is never written again is version 1. For `KeptUnlessRepeated` it
does: `KeptInv` says of a demo none of whose deletes was repeated that the deletion past
version 1 finds all the versions still ahead of it (`FindsTheRest`), and that the version
which can be read is not among them (`LatestOutOfReach`), for an update that stores the
latest copy again behind the deletion computes a version that is either taken or newer than
what the deletion has read. `DeletedWhatItRead` is an induction on `StandingInv`: what has
stood since the read and is below the loop's counter is gone. **Requests** need to know which call
serves them: a POST or PUT that wrote has a call that answers "ok" or "Error"; and a call of
a request works on the id of the path (`PathInv`), which for a PUT is what the comparison of
the two ids in `put` is for.
**Consumer**: `ConsumerInv` says how far the loop has come, and that up to there everything is
queued or the event is parked; `OrderInv` that each message of the queue comes from a
position in the stream at or before the shard's, and that any two are in the order of
theirs. What is sent next is behind all of that (`LaterInOrder`).
**Notifier**: `NotifierInv` says that a message has one instance at a time, that no earlier
message of its group waits, and what must have gone out for the request that is awaited
(`Attempt`). Each step of an instance is then one lemma (`WorkStep`) with different marks. The
step to `Mailbox` needs the second part only: marks and places change for a message that is
next.

**Pipeline**: to the consumer the notifier changes nothing, as the consumer never reads the
notifier's variables and the queue keeps what left it; to the notifier a step of the consumer
is `Put` or nothing (`PipelineStep`). So both invariants hold of the composition. Two links are
added: `PrefixQueued`, that a message in the queue has the rest of its event in front of it
there, which with `NothingLost` and `OrderInv` gives where an earlier message is
(`EarlierIsAhead`), and `SeenInOrder`, that what reached a recipient has everything before it
settled, which is an invariant of `Mailbox` and therefore of what implements it.

**Listings.** `ReaderInv`: the rows read so far are in the order of the keys, without a
repetition, up to `last`, and every row that matched all the time is among them or behind
`last`. A page takes the rows next behind `last`, in order, so that nothing that was there can
be jumped over; a row that others write behind `last` may be read or not. `OneRowPerDemo`
needs that only rows of version 0 match a user's list, and that a key is read once.

**Scenarios.** `FreshInv`: what is true of `DemoModel` anyway (`ModelInv`), and `ScenariosInv`
until the first stale read. `ScenariosInv`: every process at work belongs to one run, every
row and every id that was generated and not yet given up belongs to one run (`Holds`), no two
runs hold the same, and each run is *on course* (`OnCourse`): for every step of a scenario,
what its demo, its manager and its calls then are. A demo is there with all of its rows,
gone, or being deleted by a call that has all the rows left before it (`InOrder`). A step of
one run or of a call for it changes no row of another's demo (`StepStaysPut`), so that the
other runs stay on course (`OthersStayOnCourse`), and it is enough to look at the run that
moves (`OneRunMoves`). That no two calls of a run write one demo is part of being on course,
for the deletions in the `After` hook run side by side; hence `OneWriterPerDemo`, which is not
true of `DemoHandler`, where two clients may name the same id. The proved form speaks of
behaviours up to the first stale read of any demo; that a stale read of one demo harms no
scenario about another is model-checked (`ScenariosPass`, `NothingLeft`).

*Model-checked only.* Liveness (`EveryRequestAnswered`, `EveryEventHandled`,
`EveryMessageLeaves`), which is out of the provers' reach; and `ScenariosPass` and `NothingLeft`
in full, as said above.

## 5. Where code and documentation disagree

| Run | What happens | What is said |
|---|---|---|
| `demo_wedge` | two updates from different versions and a deletion leave a demo whose next version row is taken: it can be read and never updated again | `Demo.feature`: an update gets a 200 status |
| `handler_delete` | a DELETE cut off after its first row leaves version rows that no later DELETE finds, each answering 404 | "Handler to delete definitely an existing demo and all their versions." |
| `notifier_intent` | a message with the fields of a `NotificationIntent` is refused each time it is received, since `validateBody` asks for `type` and `userId` at the top | "Parse the input, validate it and return the values that are useful." |

Noticed while modelling, and not the subject of a run:

*Demo model.*

* "Delete all versions of an existing demo." (`demo.model.ts:326`): `deleteCompletely` counts the
  versions by a `get` without `ConsistentRead`. Right after an update it may read the version
  before, end its loop there and return normally, also when nothing else goes on and nothing
  fails; the newest version row stays, and no later deletion finds it. An update that read the
  demo before a deletion began also stores it again behind the deletion, which still succeeds.
  What is true of a deletion that returns is `DeletedWhatItRead`.
* A delete whose answer was lost is sent again by the SDK, without a condition on what is
  deleted: if an update has put the row back meanwhile, the repetition deletes the new version,
  and the demo can be read without a row of its version. `KeptUnlessRepeated` excuses this case.
* `updateRevision` puts the latest copy back from an earlier read without a condition; an
  update in between leaves `v0` older than the newest row, after which every update is
  refused. Given an old version it overwrites that version's row. No handler calls it.
* `update` does not look at the version in its argument, so a client that edits an old
  version replaces what came after it without being told.
* `getAll` and `getAllById` read one page; the loops of `generic.model.ts` have no caller.
  `getAllById` orders versions as strings, `v0` last and `v10` between `v1` and `v2`. The
  scan of `getAll` lists each demo at least twice, as latest copy and as version.
* `GET /demos` ignores `demoStatus` when there is no `userId`. `memoizeResponse` keeps nothing.

*Consumer and notifier.*

* SQS may accept a request and fail some of its entries; `consume` does not read the answer,
  so that they are dropped. Two notifications in a request with one subject and recipient have
  one Id, and SQS refuses the request; the notifications that `consumer.controller.test.ts`
  dispatches are of this kind, but the test stubs SQS.
* The stack passes no `NOTIFICATION_QUEUE_URL` or `DLQ_QUEUE_URL` to the consumer and grants
  it no right to send, so every send and every `Park` throws as deployed; only the event
  source's record is left. `Consumer` models a consumer that has them. The notifier gets no
  `USER_POOL_ID` and no right to ask Cognito or Secrets Manager; `Notifier` models one that has.
* When Slack does not know the address, the error is swallowed behind the jump over
  `sendEmail`: the user gets no email either.
* A message whose instant message went out and whose email failed starts from the
  beginning, so that the instant message is repeated, up to five times.
* The web hook is kept for the life of an instance. After a rotation each user message
  with an action that this instance receives fails, and is given up unless another instance gets it.
* "retry sending notification 5 times" (`infra-stack.ts:67`): `maxReceiveCount` 5 is one
  attempt and four retries.

*Test support.*

* `deleteAll` forgets the demos before they are deleted and swallows `NotFoundError`, which a
  stale read can cause too. The check for a default demo is before the await of `createDemo`,
  so that two at a time would both pass it.
* The script for the test users sets the password after the creation; if it breaks off in
  between, a second run finds that the user exists and never sets one.

## 6. Not modelled yet, and the plan

What a next step would be, in this order:

1. `NextVersionFree` and `DeletedDefinitely` fail (section 5), and a deletion that returns may leave
   newer rows; the weakest conditions under which these hold, as theorems.
2. `ScenariosPass` and `NothingLeft` in full, as theorems: an invariant of each demo of which no
   read was stale, beside others of which one was.
3. Feedback as a further entry to a queue, should it get any state.

Partly modelled: of the test support, the script that creates the test users and the
retrieval of their tokens (`auth.helper.ts`), which talk to Cognito only; `expectEventually`,
which no step uses; and the data generator.

Not modelled, and for good: stacks and constructs, which are declarations evaluated at
deployment (the timeouts, retries and queue settings they state are in the modules);
feedback, a stateless request that sends one message; validation of requests, pure checks
that the handlers of demos do not call. Of the demo model and its handler, `get` of one past
version (`?version=`) is no action: it reads one row and changes nothing.
