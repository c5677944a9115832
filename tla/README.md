# Kaskade: a verification development

Kaskade (`kaskade/`) is a terminal user interface for Apache Kafka with three modes:
**admin** (list, create, edit, delete topics; inspect and change consumer groups),
**consumer** (read records page by page, filter, export) and **producer** (compose
and deliver records). It is one Textual application per mode: a single-threaded
asyncio event loop in which every handler runs from one `await` to the next without
interruption, and a few worker threads in which the blocking calls of
`confluent-kafka` and `httpx` run (`concurrency.run_blocking`). What is hard in it
is what happens between two awaits, two threads, or a call and its late answer.

This directory models those parts in TLA+, checks them with TLC on small instances,
and proves some of the results for every instance with TLAPS.

## Inventory

| Component | State it keeps | Operations | Hard behaviour | What makes it correct |
|---|---|---|---|---|
| Refresh coordination (`refresh.py`, `admin/topics.py`, `admin/app.py`) | generation, active, pending, mutation flag; workers; screens; timers; loading cover | request, stages of a refresh, mutations, screens, timers | workers, callbacks, timers and mutations interleave | one refresh at a time, no request lost, a change is followed up, the cover comes off, auto-refresh resumes |
| Blocking calls (`concurrency.py`) | the thread's call, its caller | start, return, cancel | cancellation while the call runs | the caller outlives the call; cancellation wins |
| Topic metrics (`topic_service.py`, `models.py`) | offsets and groups of every topic, their metric states | metadata, offset batches, group snapshot, apply | partial failure, a snapshot applied to newer metadata | all-or-nothing per topic, no stale or mixed numbers, no state left "loading" |
| Group service (`group_service.py`) | reset plan | plan, review, apply, delete | the group changes between plan and apply | only reviewed partitions and offsets are committed; targets inside the log |
| Consumer service and record list (`consumer_service.py`, `consumer/records.py`) | client, assignment, positions, page, filters, pool | start, consume, change page size, filter, retry, close | threads, error callbacks, cancellation mid-page, reconnecting on filter | records shown once and in order, none skipped, each client closed once and never while used |
| Producer service and composer (`producer_service.py`, `producer/composer.py`) | client, event of the delivery, draft, Summary | start, produce, flush, close, edit, look up schemas | late delivery report, close during delivery, timeout, a draft edited during a lookup | success only after the record's own report, one delivery at a time, a Summary of the draft as it is, bounded shutdown |
| Apicurio client (`apicurio.py`, `cache.py`) | token, cache of what was read | request, OAuth token, retry, cache | tokens that expire or are taken back, lost answers, eviction, age | a request ends, and is not refused for an old token; what is cached is what the registry has |
| Schema resolution (`producer/composer.py`, `serializers/registry.py`, `schemas/apicurio.py`) | schema of each field, registered documents, parsed schemas | resolve, register, read a version, collect references | the request fails half-way, others publish, references meet again | each field gets a schema of its own artifact, whole and registered once |
| Deserializers and schemas (`deserializers/`, `schemas/`) | schemas kept by ID, lazily loaded files | recognize framing, select a schema, collect its references, read, fall back | a request of one stage fails, a failure is remembered, references meet again, a file goes away | a record is decoded with the schema its identifier names; a failure is the field's and not the program's |
| Serializers (`serializers/`, `record_export.py`) | none of interest | read the composer's text, frame | the text shown for one branch of a union is that of another | what was copied from the consumer is produced again |
| Topic forms (`admin/forms.py`, `admin/topics.py`, reviews of `admin/screens.py`) | inputs, configuration as loaded, command under way | load, validate, review, one call or two | others change the topic meanwhile, the second call fails | only what was changed is sent; what Kafka did is told |
| Details and navigation (`consumer/details.py`, `help.py`, `widgets.py`) | cursor, panes | move, copy, toggle | data replaced below the cursor | the cursor stays on an existing row |
| Settings and command line (`main.py`, `cli/`, `settings.py`, `timeouts.py`, `configs.py`) | options, files, environment | parse, merge, validate, normalize | precedence, checks made in one place and relied on in another, fragile files | a start that is accepted has what every reader and writer needs |
| Look (`themes.py`, `keymaps.py`, `banner.py`, `colors.py`, `highlighting.py`) | none of interest | rendering | none | not modelled |

## Modules

| Module | Models | Role |
|---|---|---|
| `RefreshCoordinator` | `refresh.py` | one operator per method of the coordinator, over a record |
| `AdminRefresh` | `admin/topics.py`, `admin/app.py`, mutations of `topic_service.py` and `group_service.py` | admin mode's event loop; uses the coordinator's operators |
| `CoalescedRefresh` | what admin mode promises whoever asks for a refresh | abstract specification of `AdminRefresh` |
| `AdminRefresh_proofs` | | theorems about `AdminRefresh` |
| `TopicMetrics` | `topic_service.py`, the stages of a refresh in `admin/topics.py` | what a refresh loads and what is kept when it fails |
| `TopicMetrics_proofs` | | theorems about `TopicMetrics` |
| `OffsetReset` | `group_service.py`, the reset form and its review | a reset against a cluster that moves |
| `TopicEdit` | `admin/forms.py`, the topic mutations of `admin/topics.py`, reviews | creating, editing and deleting a topic others change too |
| `MCOffsetReset` | the forms are modal | composes `OffsetReset` and `TopicEdit` |
| `AdminForms_proofs` | | theorems about `OffsetReset`, `TopicEdit` and that composition |
| `ConsumerSession` | `consumer_service.py`, `consumer/records.py`, `concurrency.py` | clients, threads and the record list |
| `PagedRecords` | what consumer mode shows | abstract specification of `ConsumerSession` |
| `ConsumerSession_proofs` | | theorems about the clients, the threads and the list of `ConsumerSession`, and that it implements `PagedRecords` |
| `Selection` | loops over a list with a condition in them | `Kept`, which `ConsumerSession`, `PagedRecords` and `Registry` use |
| `Operators_proofs` | | what the operators of `Selection`, `Framing` and `Escapes` do with any sequence or bytes, and that recursive definitions have functions; used by the proofs of three components |
| `RecordDelivery` | `producer_service.py`, `producer/composer.py` | deliveries, schema lookups, closing |
| `ReportedDelivery` | what producer mode says of a record | abstract specification of `RecordDelivery` |
| `RecordDelivery_proofs` | | theorems about `RecordDelivery` |
| `Registry` | Apicurio Registry, as `apicurio.py` uses it | outside the program: contents, versions, answers |
| `RegistryClient` | `apicurio.py` (requests, token), `cache.py` | any sequence of requests; extends `Registry` |
| `SchemaResolution` | `resolve_schemas()` of `composer.py`, `serializers/registry.py`, `schemas/apicurio.py`, the cached readers of `apicurio.py` | one caller of `RegistryClient`, which it extends: its requests are `RegistryClient`'s own actions |
| `SchemaResolution_proofs` | | theorems about `RegistryClient` and `SchemaResolution` |
| `Properties` | `cli/validation.py`, `configs.py`, `settings.py`, `timeouts.py` | merging of properties, the connection, MSK, deadlines |
| `RegistryOptions` | `cli/`, options of both registry providers | what `--registry` accepts; extends `Properties` |
| `FormatOptions` | `cli/`, `main.py` | formats and their options; extends `RegistryOptions` |
| `Framing` | `schemas/protobuf.py`, headers of `deserializers/` and `serializers/` | the bytes around a field |
| `SchemaCollection` | `schemas/` | a schema with all it references |
| `Deserializers` | `deserializers/` | what a field is read as |
| `Decoding` | `main.py`, `consumer/`, `models.py` | a start, and the records the consumer reads; composes the six above |
| `Decoding_proofs` | | theorems about `Decoding`, `SchemaCollection` and `Copies` |
| `Escapes` | `models.py`, `serializers/primitives.py` | bytes shown escaped and read back |
| `Copies` | `serializers/avro.py`, `record_export.py`, `models.py` | a field copied and produced again; extends `Escapes` |
| `MCDecoding`, `MCCopies` | | families of command lines, registries, records, Avro schemas; `MCDecoding` composes `Decoding` with `Copies` |
| other `MC...` | | symmetry sets and instances for TLC |

Each module but the `MC` ones and the abstract specifications has, beside the
definitions that translate the code, a few marked "A defect": variants that a
plausible mistake would lead to. Each property of a run is violated when one of them
takes the place of the definition next to it; nothing else uses them.

### Grain

The event loop of asyncio runs one handler at a time, so an action is the code from
one `await` (or queued callback, timer, message) to the next, with every call it
makes. A thread started by `run_blocking` is a step of its own for each place where
it reads or changes what another thread or the loop also uses. As `concurrency.py`
has it, a cancelled caller waits for its thread; a worker that was cancelled is
therefore a state (`superseded`, `cancelled`) in which the call goes on, not one
that is gone. A second cancellation, which stops that wait, is not modelled.

### AdminRefresh

* `coordinator` is the `RefreshCoordinator`, whose generation counter cycles through
  `Generations` labels (only equality of generations is used); `refreshes` has the
  `refresh_topics` worker of each generation with what it awaits; `mutations` the
  workers of the exclusive group `topic-mutation`; `detailsLoads` those of
  `topic-config`; the others are the loading cover, the screen stack, the
  auto-refresh timer, and the queues of callbacks, messages and timers.
* A worker's `finally` clause (`FinishRefresh`, `FinishMutation`) is part of every
  action that ends the worker.
* Of the cluster one bit is kept, whether the list lacks a change made by a mutation
  (`missed`), and `lateCalls`, the calls that timed out for Kaskade and may be
  executed all the same, whether their worker is still there or not
  (`LateCallApplies`).
* The loading cover is one flag of four owners: refreshes, mutations, loads of a
  configuration, and the topic filter, whose dismissal fills the table anew and
  uncovers it (`CloseFilter`).

### TopicMetrics

An offset is represented by the number of the refresh that loaded it, 0 for never:
this is what tells mixed, stale and missing offsets apart. Requests for the start
and the end of each partition, for the list of groups, and for each group's
description and offsets fail independently. The two stages run concurrently; the
code applies the groups after the offsets whichever ends first.

### OffsetReset

Each call of `plan_reset()` is a step, and between two of them producers append,
retention expires and members join. A log is its start, its end and the records at
or after the timestamp asked for. A cancelled preview's thread only reads, so its
remaining calls are one state. Kafka's answer to the commit is any split into
partitions changed and refused, and the call may time out before or after that.

### TopicEdit

The form of a topic, its review, and the worker of the two calls
(`add_partitions()`, then `edit()`), of `create()` or of `delete()`. Each call is
two steps, Kafka executing it and the answer, and may fail before or after the
first. A form holds what `describe_configs()` answered when it was opened; meanwhile
other clients change the same settings (`OthersChange`). Of a setting the model
keeps its value and whether it overrides the default; of an input, the few texts the
validation and normalization tell apart (a number, the same number written
otherwise, a negative one, none, and empty).

### ConsumerSession

A task is a coroutine that waits for, or holds, the operation lock of a service;
`pages` has the locals of its `_consume()`. `clients` has the Kafka client of every
`ConsumerService` ever built and `services` the rest of the object: position,
assignment, page size. `shown` is the list, by offset: one partition is enough
because the code never compares offsets of different ones. Rebalances and
authorization errors are callbacks during a poll.

### RecordDelivery

`thread` is the delivering thread, `closer` the closing one; they share `_producer`
(`client`) and `_closing` without a lock, so each read of either is where a step
begins. `holder` says which client's queue a record is in, `fate` and `callback`
what the cluster did with it and whether its delivery report was served. `draft` is
what the composer holds, `missing` the fields whose schema is not found yet and
`summary` the problems the Summary shows. A lookup goes from field to field, and the
draft may be edited at any of its steps. An edit does not update the Summary itself:
the editor posts a message, and until `draft_changed()` handles it (`changed`) the
Summary is of the draft before.

### Properties, RegistryOptions, FormatOptions

Pure operators, one for each check or merge of the command line. A property is a
pair of a scope and a name, a configuration a function on such pairs; a path is a
name, and `files` says what it names. An operator ending in `Valid` is FALSE where
the code ends with a message; which message is left out.

### Framing, SchemaCollection, Deserializers, Decoding

A document stands for encoded data by the kind and name of the schema it was written
with; a reader finds it or fails. `Framing` computes headers and Protobuf's message
indexes in both directions. `SchemaCollection` walks references, with the code's own
rules for what was met before; its walks and pools are recursive functions on places
(`Places`: a schema, and how many of its references are behind), so that they can be
proved about. `Deserializers` gives the outcome of a field, with the requests it
makes and what it keeps of the answers (`cache`, `loaded`, `classes`). What the
libraries do with bytes that are no document is a constant: `Undecodable` says of a
reader and a payload whether an exception is raised that the code handles (the end
of the bytes, `DecodeError`) or one that it does not (the `TypeError` of
`MessageToDict` for an `Any` of unknown type, the `OverflowError` of a date). What
Apicurio's client keeps of an ID ages (`RegistryAges`). `Decoding` is the state
machine: a command line is parsed and either refused or started; a started consumer
reads record after record while the requests of some kind fail, and files disappear
(`FileLost`).

### Copies

fastavro reads Avro data as a Python value (`ReadsAvro`); the consumer shows it as
JSON, with `str()` for what JSON has not (`ShownAs`); the composer reads that back
with the same schema (`Convert`), which takes the first branch of a union that fits
(`Fits`); fastavro validates the result and writes it (`Writable`, `Writes`).
`CopyAvro` does all of this with one datum, `CopyBytes` shows bytes escaped and
reads them back (`Escapes`).

Of a value the model keeps its type (`py`), its items, a name for what nothing looks
at, and the types its text can be read as (`form`). That is a set: `datetime` reads
the text of a date too, a decimal may look like any of them, and a string like
anything (`Forms`, from Python's `fromisoformat`). Of written data it keeps the
branch of each union, since that is written too. Schemas are resolved, and as deep
as `MaxDepth`; the logical types are those that `avro.py` names. A root that is a
string or bytes is not shown as JSON and is left out.

### Registry, RegistryClient, SchemaResolution

One thread runs a lookup: `resolve_schemas()` calls the serializer, which calls the
resolver, which calls `ApicurioSchemas`, which calls itself for each reference. The
calls in progress are `frames`, the innermost first, each with its arguments and
locals; a step is the code from one HTTP request to the next, or from one call to
the next. An exception drops all frames (`Raise`), as nothing below catches it.

`request` is the call of `_request()` in progress: it asks for a token, sends, and
retries, and `Handled` and `Answer` of `Registry` say what the registry does and
answers. A lost answer may have been handled. Time is in seconds and passes while a
request waits; an answer may be `Latency` old when it is stored, with the time of
its storing (`request.at` is the time it was given). `RegistryClient` alone
(`ClientSpec`) lets a caller ask for anything; `SchemaResolution` is composed of its
actions, so that what is proved of any caller holds of lookups too.

An artifact's type is told by its content, by its versions' metadata, or by neither;
then the read fails (`RefuseType`). The contents that were gathered are parsed in
their order, and a name that is used before it is known fails the lookup (`Parse`):
so end contents that refer to each other in turns, which only someone else can have
published. Two things are left out: names that are defined twice by what a schema
refers to, and the time between the check of a token's age and the arrival of the
request that carries it.

Schemas are named by the registry's content ids (the global id, which the program
only carries along, is left out), and read the way Avro schemas are. Caches of
parsed schemas hold more than the runs ever have in them, so they are functions; the
client's cache is the `LruCache` with its bound and its age. Closing the client
while a lookup is under way is part of `RecordDelivery`.

## Runs

| Run | Question | Bounds | Distinct states |
|---|---|---|---|
| `admin_overlap` | When mutations overlap, do refreshes overlap or requests get lost? Does the list catch up with changes of mutations that were superseded or timed out? Which changes alone are not followed up? | 2 generations, 2 mutations of 1 call, 1 screen, no loads, 1 queued callback of a kind, 1 late call | 378 368 |
| `admin_live` | Is a mutation followed up though its second call fails, does the cover come off? | 1 mutation of up to 2 calls, 1 screen of a form, details or the filter, 1 load | 301 180 |
| `admin_superseded` | Is a superseded mutation followed up? **No.** | 2 mutations | |
| `topic_metrics` | Are counts and lags ever made of missing or mixed offsets? Are complete metrics kept, and groups complete? | 1 topic of up to 2 partitions, 2 groups, 3 refreshes | 164 364 |
| `offset_reset` | Does a plan made of several listings pass over a record or leave the log? Is the right plan reviewed? Does an edit keep what others changed? Is the outcome told? | 2 partitions, offsets 0..2, 2 planning threads; a topic of up to 2 partitions, 1 numeric setting and the cleanup policy, 1 change by others while a form is open | 295 728 |
| `consumer_faults` | Are clients used by one thread at a time, rows in order, none skipped, under every fault? Do pages end, is everything closed? | 2 clients, 2 records, pages of 1 or 2, 1 idle poll, 1 rebalance | 285 023 |
| `consumer_restart` | Does a filter always start over? **No.** | | |
| `consumer_rebalance` | Does a page wait for a rebalance? **No.** | | |
| `delivery` | Is only a record's own acknowledgement reported, does the Summary tell of the draft, are deliveries one at a time, do they and the shutdown end? | 2 records, both fields with schemas, 3 drafts | 492 373 |
| `delivery_flush` | Is a record queued before the flush or not at all? **No.** | 1 record | |
| `registry_lookup` | Do fields get whole schemas of their own artifacts, registered once, and is the cache true, under faults, expiry and eviction? Does a lookup end? | 3 setups, 2 lookups, 1 retry, cache of 2, pages of 1, clock steps of 20 s (a token's life, the check period) and answers 10 s on their way, up to 30 s, 3 troubles | 446 110 |
| `decoding` | Is a start that is accepted complete? Are settings optional? Is a record that can be decoded decoded, whatever failed before it? Are copies the same bytes? | some 800 command lines in families, registries with three kinds of schema, references and repeated registrations, every union of two of 15 branches, at the root and in records, lists and maps | 15 570 |

Why the bounds are enough to meet the cases: two generations, because the code
compares a generation only with the current one and a third is as different from it
as the second; a mutation of two calls has a first half that succeeds and a second
that fails (`admin_live`), and two mutations are one that supersedes another
(`admin_overlap`, where a call is enough to be superseded in); the violation run has
two screens, Topic Details and what it opens; a queue of one callback or timer of a
kind, each against those of the other kinds (the proofs hold for any number). Two
records of which one matches let a page of two need several polls, and a page of one
end on the first; two clients are one that replaces the other while it is still
polled (the theorems hold for any number of clients and workers). Two deliveries
have a late report of the first during the second (the refinement is proved for any
number). In `offset_reset` one change by others falls before, between or after the
two calls. In `decoding` each family varies one group of options against a line that
is otherwise accepted, as the checks of different groups are independent of each
other in the code; each framing is read with each format. In `registry_lookup` a
trouble is a fault, a token taken back, a version published by someone else, or time
passing; three of them let a lookup fail after it read the latest version, another
version be published, and the kept one run out before the next lookup; two lost
answers exhaust a request's retry. The first setup registers key and value, which
share a document; the second looks both up, with references that meet again and a
type that only the versions tell; in the third the key is absent, the value's
versions disagree on its type, and what others publish refers to itself. A cache of
two evicts within one lookup, and pages of one make any search of a content with two
versions take two requests. Two partitions make partial failure differ from failure,
and three refreshes let one succeed, one fail and one meet changed partitions.

Deadlock is checked in the admin runs. The other programs may stop: the bounds on
refreshes, polls, clients, records and lookups end them, and a closed list or
composer does nothing more.

### Fairness

* Admin: weak fairness of each worker, of queued callbacks, messages and timers.
  Every Kafka call has a `request_timeout`, asyncio runs what is ready and Textual's
  timers fire. The user may stop at any time; none of the properties needs a key
  press.
* Consumer: weak fairness of each task's next step: polls have a timeout, and the
  loop of a page counts idle polls and polls without an assignment.
* Producer: weak fairness of both threads and of lookups. The delivery deadline is
  strongly fair: the loop compares the clock with it on every round, but the rounds
  in between disable that comparison. The cluster may never answer.
* Registry: weak fairness of the lookup thread and of its requests: `httpx` has a
  timeout, so each has some end. Nothing is assumed of which; that faults come to an
  end is not assumed for the request either (`RequestsEnd` proves that it is sent a
  bounded number of times, whatever happens), only the run's budget bounds them.
* `ListCatchesUp` assumes in its statement that metadata requests keep being
  answered.
* The forms and `decoding` have no liveness property: a user may leave a form open,
  and a start and the reading of a record are single steps.

### What was found

The four violations are disagreements between the code and what it or its
documentation says; `PROJECT.json` quotes both sides.

1. `MutationIsFollowedUp`: all mutations share one exclusive worker group. One that
   is superseded while it waits for Kafka ends with `CancelledError` after its call
   went through, and no refresh is scheduled for what it changed. No other change is
   lost sight of (`UncancelledIsFollowedUp`), and with auto-refresh the list catches
   up with this one too (`ListCatchesUp`, checked with two mutations).
2. `FilterRestarts`: when no client can be built for a new filter, the cleared list
   pages on from the old client's position.
3. `AssignmentIsAwaited`: the assignment timeout applies to the first assignment
   only, though documented for rebalances.
4. `QueuedRecordsAreFlushed`: `_produce()` checks `_closing` only after it has
   queued its record, so a thread that is delayed queues it behind the flush.

Smaller observations, without a run of their own; those marked * are the exceptions
that the property named makes of what the documentation says without any:

* A superseded preview uncovers the form of the newer one when its thread ends, as a
  finished refresh, or the dismissal of the topic filter, uncovers the list while a
  mutation is in flight (each cover is one flag of several owners).
* A request for group descriptions that raises at once leaves group metrics
  "loading" rather than unavailable until the next refresh.
* The result of a reset that was cancelled after its commit went out is not shown,
  so the user may take it for not done.
* `OnlyUnhandledEndIt`\*: the consumer checks of a local Avro schema only that its
  file exists. `deserializers/local.py:92` loads it for the first record, without
  expanding `~`, and what it raises is not among `DESERIALIZATION_EXCEPTIONS`
  (`deserializers/base.py:28`): the application ends, where `USAGE.md:815` has the
  other fields of the record shown.
* `OnlyUnhandledEndIt`\*: so do bytes of a record that a library refuses with an
  exception of another kind than those. `MessageToDict`
  (`deserializers/protobuf.py:20`) raises `TypeError` for an `Any` whose type it
  does not know; of what fastavro raises, `deserializers/base.py:184` converts
  `IndexError` alone, and a date out of Python's range is an `OverflowError`; JSON
  nested too deeply is a `RecursionError`. The property says for which payloads, and
  that nothing else of a record does it.
* `SettingsAreOptional`\*, `OnlyUnhandledEndIt`\*: three faults of settings end the
  start with a traceback, although they are to be loaded "without making startup
  fragile" (`settings.py:58`): a file that is no UTF-8 text, for which
  `_read_settings()` (`settings.py:107`) catches nothing; a text that the YAML
  reader itself refuses with another exception than `YAMLError` (`settings.py:112`),
  such as the `ValueError` of a date that does not exist or an integer of too many
  digits, or the `RecursionError` of lists nested too deeply; and a deadline of any
  mode that is an integer too large for a float, for which `float()` raises
  `OverflowError` (`timeouts.py:32`, called without a handler at `settings.py:219`).
* `CopiesAreTheSame`\*: `USAGE.md:1015` says that a copied Key or Value "produces
  the same bytes again". An Avro union takes the first branch that fits what is
  shown (`serializers/avro.py:103`), which may not be the one that was written: a
  date comes back as the timestamp of a union that has this first, as its text is
  one too; and data whose root is a string or bytes is copied without its quotes.
  Escaped bytes are the same.
* A header of a source draft whose name and value are empty is dropped, as
  `HeaderRow.is_blank` takes it for a row not filled in.
* `admin/forms.py` reads numbers with `isdigit()` and then `int()`: a superscript
  digit passes the first and makes the second raise in a handler.
* Producing before `load_draft()` has run (`producer/composer.py:443`) produces the
  empty editors.
* Confluent's client keeps an answer it did not get: after a transient failure the
  subject and version of an ID stay unknown for the session
  (`deserializers/confluent.py:134`). The record is decoded all the same
  (`DecodableIsDecoded`).
* With `framing=apicurio` the local JSON deserializer takes off the header but no
  type reference (`deserializers/local.py:33`), which the registry's deserializer
  skips (`deserializers/apicurio.py:77`): such a record is an error. No document
  promises more, so `Preambles` puts a reference before JSON only where the registry
  reads it.
* Names decide where references are concerned: an artifact under two names, two
  schemas under one, a Protobuf file under the name the client gives the root
  (`default`, `root.proto`), or a message whose name within the package is another
  one's full name. `DecodableIsDecoded` leaves them out (`Unambiguous`).

## Proofs

`AdminRefresh_proofs` proves, for any number of generations, mutations, screens and
queued callbacks:

* `TypeCorrect`: `Spec => []TypeOK`.
* `OneRefreshAtATime`: `Spec => []SingleRefresh`.
* `TimerOnRoot`: `Spec => []TimerRunsOnRootOnly`.
* `ImplementsCoalescedRefresh`: `Spec => RefinesCoalescedRefresh`.
* `OnlyCancelledCallsAreMissed`: a mutation that ends after a call of it returned
  leaves a timer that requests a refresh, unless it had been cancelled and the call
  returned only then, as in `admin_superseded`. A call that timed out although the
  cluster executed it has not returned.
* `LoneMutationsAreFollowedUp`: `Spec => MutationIsFollowedUp` where there is one
  mutation worker at a time, as in the run `admin_live`.

They rest on the assumptions of the two modules (`AdminRefreshAssumption` and that
of `RefreshCoordinator`), which only give the constants their kinds: how many
generation labels there are, how many mutations, screens, queued callbacks and
loads. `SingleRefresh` alone is not inductive. `complete()` and `is_current()`
consult only the coordinator, so the argument needs that the generation handed out
next is not one whose worker still runs. `IInv == TypeOK /\ OneRefresh` says this:
every running worker is the current generation of an active coordinator, and an
active coordinator's generation is a real label with a running worker. `request()`
only hands out a generation when the coordinator is inactive, hence when nothing
runs; `FinishRefresh` deactivates it exactly with the worker's end; nothing else
touches either (the frame lemmas). The refinement then needs one case for each
action: a request is an abstract `Ask`, an accepted one a `Start`, `FinishRefresh` a
`Finish`, and the queued callbacks and timers keep `owed` until a refresh starts.

Which mutations are followed up rests on what `_mutation()` knows of its calls
(`ChangesAreKnown`): unless its worker was cancelled while the call ran and the call
has returned since, a mutation with a call that returned has `changed` set. With one
worker nothing is cancelled.

`TopicMetrics_proofs` proves all five properties of `TopicMetrics`, for any topics,
groups and numbers of partitions and refreshes (`MetricsAssumption`: there is at
least one of each but groups):

* `MetricsTypeCorrect`, `CountsAreOfOneLoad`, `LagsAreOfLoadedEnds`: `Spec =>
  []TypeOK`, `[]RecordsFromOneLoad`, `[]LagFromLoadedEnds`.
* `CompleteMetricsAreKept`, `NoGroupIsMissing`: `Spec => MetricsAreKept`, `Spec =>
  GroupsAreComplete`.

`LagFromLoadedEnds` is not inductive: `apply_groups()` copies a partition's end into
the group, so it needs `RecordsFromOneLoad`. Nor is `MetricsAreKept` a consequence
of the code alone: `_reset_groups()` does make groups unavailable when records are
not ready, and what was ready is only safe because groups are never ready without
records, which `_preserve_completed_metrics()` keeps by carrying over both or
neither. `IInv` is the conjunction of the two invariants with this
(`GroupsNeedRecords`) and with the bound that no offset is of a later refresh. There
is one lemma for each way a topic is changed (`Preserved`, `WithOffsets`,
`WithGroups`, `WithoutGroups`) and property, and the step lemmas only combine them.

`SchemaResolution_proofs` proves, for any retry count, lifetime, check period and
cache (`ClientAssumption` gives them their kinds), and whoever calls:

* `RequestsEnd`: `ClientSpec => []SendsAreBounded`. A request is sent at most
  `RetryCount + 2` times. A lost answer costs an attempt and a refused token the one
  refresh; the inductive invariant counts them (`SendsCounted`: sends are the
  attempts made and, once refreshed, one more).
* `RefusedTokensAreNew`: `ClientSpec => []RefusedTokenIsNew`. A request that fails
  for its token was refused one it had fetched itself. The invariant behind it
  (`RefreshedIsNew`) is that a request which has used its refresh and is past it
  holds a token of its own.

and, of the lookup, for any documents and references, setups of the composer,
registries it may begin with and versions others publish (`ResolutionAssumption`
says that a document refers to documents, a setup names artifacts, and what is given
is a registry: `GivenRegistry`; `DocumentsAreTrees`, that none refers to itself
through others, since `SchemaDocument` is immutable and is built from those it
refers to, `src/kaskade/schemas/registration.py:38`):

* `LookupRequestsEnd`: `Spec => [](SendsAreBounded /\ RefusedTokenIsNew)`, as a
  lookup is a caller like any other.
* `KeptIsTrue`, `FieldsHaveTheirSchemas`: `Spec => []CacheIsTrue`,
  `[]SchemaOfTheField`.
* `SchemasAreWhole`: `Spec => []SchemaIsWhole`. Its first half, that a content's
  references are in the registry before it, is `ReferencesAreRegisteredFirst`; its
  second half, that a parsed schema holds everything it refers to, `WholeAsRead`;
  its third, that what is gathered is in an order in which it can be parsed unless
  others published a cycle, `GatheredToBeParsed`.
* `DocumentsAreRegisteredOnce`: `Spec /\ RegisteredOnce => []RegisteredOnce`. A
  registry may be given with an artifact that has a content twice; the theorem says
  that it is never made so.
* `LatestVersionsAreFresh`: `Spec => LatestIsFresh`. The time an answer is on its
  way is not counted by the code, so the property grants it.

None of these is inductive, since each is about an answer that went through a stack
of calls. `LookupInv` therefore says of everything the lookup holds at any moment
what it says of the registry: each call in progress waits for the one above it, for
what that one is about to return (`Stacked`, `WaitsFor`); each local of a call
(`FrameTrue`), the answer that has come and is not yet read (`ReplyTrue`), each
entry of the client's cache (`ItemTrue`), of `_registered` and of `resolved` is true
of the registry. Truths last because a registry only grows (`Grows`, `GrowthLasts`:
a version keeps its number and its content, and pages of a search that were read
stay the first ones), and an answer is true when it is given (`Answers`), then as
long as it travels. There is one lemma for each action (`...Keeps`); `CallMade`,
`CallChanges` and `CallReturns` are what they share. `LatestIsFresh` needs the time
at which a version was taken from the registry: `Fresh` relates the answer, the
cache's age and the next version's.

`SchemasAreWhole` is about the order in which a graph is walked.
`_collect_contents()` gathers what a content refers to depth first and marks a
reference as seen on the way down; one that is seen again is not collected again,
although it may not have been gathered yet. `WalkOK` says what holds half-way: what
is seen is what was gathered and what is being read (`WalkSeen`); each reference of
what was gathered has been met (`WalkFollowed`, `WalkNeeded`); and, if nothing
refers back to itself, each content was gathered after all it refers to
(`WalkInOrder`). A reference to what is still being read is a cycle
(`MetWhileRead`). At the end nothing is being read, so what was gathered is closed
under references. A producer's own documents are trees, so that no cycle is met in
them, and what they refer to is local too (`LocalIsInOrder`).

`ConsumerSession_proofs` proves, for any number of clients, workers, records and
page sizes and any faults (`ConsumerAssumption`):

* `ClientsAreSafe`: `Spec => []ClientsUsedSafely`. `OneWorker`: `Spec =>
  []OneWorkerAtATime`.

A lock alone does not make the use of clients safe: a task that has waited for the
lock of a service would use it although its client was closed meanwhile. That no
worker ever waits is the heart of `IInv`: the list's flag stands for its one worker
(`FlagIsTrue`), a worker starts when nobody works, hence finds every lock free
(`NobodyWorks`), and so only `on_unmount()` waits (`TaskShape`), behind the current
client's page. `OwnClients` says who may close what: `on_unmount()` the current
client, the replacing worker one that is not current any more. Nothing of it depends
on positions, rows or assignments, which is why `clients` and `pages` are variables
of their own; a lemma for each way a task changes (`TaskStarts`, `TaskGoesOn`,
`PageEnds`, `LockStep`, `CloseStep`) is combined in `StepHolds`.

Of the list it proves, under the same assumption:

* `PagingIsRefined`: `Spec => RefinesPagedRecords`.
* `PagesAreOneAtATime`: `Spec => []OnePageAtATime`.
* `RebalancesRepeat`: `Spec => []OnlyRebalancesRepeat`.

`CInv` describes a page half-way (`PageShape`): the polled batch is the last stretch
before the client's position (`BatchIsNext`), the rows are all the offsets that
match from where the page started to where the batch starts, in their order
(`RowsAreAll`), and no more were polled than the page lacks, so none is read and not
shown. A rebalance may break `RowsAreAll` and `ListIsSound`, which is why both have
it as their exception. When the page ends its rows are what `PagedRecords` shows at
once (`PageIsShown`); every step before is a stutter (`PageMoves`), and replacing
the client is a `Restart` because nobody else pages (`OneWorkerAtATime`).

What the scan of a batch returns is `Kept` of `Selection`, a recursive function.
`Operators_proofs` shows for any sequence that it has the elements that pass, in
their order, and all of them (`KeptElements`, `KeptIncreases`, `KeptAppended`). The
induction is on the least position at which the statement would fail (`LeastOf`),
which the natural numbers have as `<` is well-founded on them.

`RecordDelivery_proofs` proves, for any number of records and any drafts:

* `TypeCorrect`, `NoDeliveryIsRefused`: `Spec => [](TypeOK /\ OneDelivery)`, `Spec
  => []NeverRefused`.
* `SummaryTellsTheDraft`: `Spec => []SummaryIsCurrent`.
* `ImplementsReportedDelivery`: `Spec => RefinesReportedDelivery`.

`IInv` has that the composer and the service agree on whether a record is being
delivered (`OneDelivery`), that a second client is built only after the first was
dropped (`OneClient`), that what is known of a record's fate is known of a record
that was queued, and that an attempt that ends as delivered had its own
acknowledgement (`OwnOutcome`), and that a lookup which ends under the composer's
eyes updates the Summary, and an edit leaves a message (`FreshSummary`). Each action
then is a stutter, an attempt, or a report of `ReportedDelivery`.

`AdminForms_proofs` proves, for any partitions, offsets and number of planning
threads:

* `LastPreviewIsReviewed`, `PlansStayWithinLog`, `TimestampsLoseNothing`,
  `OutcomesAreTold`: `[]ReviewIsWhatWasAsked`, `[]PlanWithinLog`,
  `[]TimestampLosesNothing`, `[]OutcomeIsTold`.

What a listing said stays true of a log that only grows at its end and shrinks at
its start: `PlannersKnow` says what each planner's listings imply of the log as it
is now, by the stage the planner has reached (a latest offset is no later than the
end, and no record at or after the timestamp lies before it that the second listing
would not find). `LastPreview` says that only the planner asked for last is not
superseded. `ReviewHolds` and `ResetIsReviewed` carry both over to the review and
the reset.

and of the topic forms and of both together:

* `EditsKeepOthersChanges`: `EditSpec => OthersChangesAreKept`.
* `UpdatesAreTold`: `EditSpec => []UpdateIsTold`.
* `AllChangesAreTold`: `FormsSpec => []ChangesAreTold`, of the composition: a step
  of one form leaves the other as it is (`FormsAreIndependent`).

`Decoding_proofs` proves, for any command lines, files, registry and records:

* `MetadataAreTrue`, `NothingElseEndsIt`: `Spec => []MetadataIsTrue`, `Spec =>
  []OnlyUnhandledEndIt`.
* `SettingsDoNotMatter`: `Spec => []SettingsAreOptional`: unless a start ends on one
  of the three faults, it ends as it would without settings, and what starts works
  with positive deadlines.
* `OptionsAreEnough`: `Spec => []OptionsSuffice`.
* `ReadingsAreFresh`: `Spec => []FailuresAreForgotten`, the part of
  `DecodableIsDecoded` that is about what is remembered: a record that is read while
  the registry answers gives what it would give to a consumer that has just started.
* `WrittenRecordsAreDecoded`: `Spec => []DecodableIsDecoded`, and of the operators
  it rests on `CollectedParse`, and in `Operators_proofs` `IndexesAreReadBack` and
  `TypeRefsAreReadBack`.
* `CopiesStayTheSame`: `CopySpec => []CopiesAreTheSame`, and of what is shown
  escaped `EscapesAreReadBack` in `Operators_proofs`.

`LinesAssumption` says of a command line what click and the YAML parser see to: one
of the three commands, formats that are offered, deadlines that are numbers where
they claim to be. `RegistryAssumption` says of the registry that its IDs have
schemas of the three kinds and finitely many registrations, which stay the same
while the application runs. `SchemasAssumption` has that schemas are finitely many
and refer to what was registered before them, so that references have no cycle, and
that a Protobuf file is one that `protoc` accepts: outer messages are there, nested
no deeper than the reader goes, indexes and lengths of 31 bits.
`UndecodableAssumption` lets the libraries fail on any bytes that are no document of
theirs, in either way. `RecordsAssumption` has that a record was written with a
document of some kind and name; the rest of a JSON object from a later byte is none.
`IInv` has that the application works with the options that were checked
(`StartIsTrue`), that what is kept of the registry is of known IDs, its metadata
sure (`CacheOK`), and the two properties that speak of the last record or of how the
program ended. `MetadataIsTrue` is not inductive without the cache: an answer is
kept under an ID and a field, and presented with a later record. What one field may
read follows from a lemma for each format (`LocalOK` for local schemas, `ReadOK` and
`RegistryReadOK` for the two registries): it is content, an error of the data, or,
for a reason that is named, an error of the options or one that nobody handles.

`OptionsAreKept` extends this by the files, which go away but never change, and by
the message classes that the consumer holds, which are those of the option or none.
What accepted options imply of the normalized copies is shown for each group of them
(`FramingIsKnown`, `ProtobufSuffices`, `ProducerHasOptions`); the registry's
properties fall into those of the client and those of the selection, and do so again
in the copy (`RegistryParts`). `KeepsNoFailure` has that a Confluent consumer holds
Protobuf schemas in serialized form only: a schema that was fetched as text before
its second request failed is not kept (`ConfluentSchemaHolds`), and what is read of
data depends on nothing else that is (`ConfluentReadIsTheSame`).

`DecodableIsDecoded` needs all of these and one more: a local schema that was loaded
is the file's (`LoadedIs`). The invariant is then the property itself
(`DecodableAreDecoded`), since what was read stays on the page when a file goes away
only until the property's condition fails. That a record which is read is decoded
(`FieldIsDecoded`) falls into three parts.

*Bytes.* A number below 2^35 has at most five bytes, the last of which is the first
below 128 (`VarintIs`, `VarintLength`), and their sum is the number (`ValueIs`);
what is joined is found at its offset (`FlattenIs`). So message indexes and type
references are read back, and what is behind them is the document.

*References.* A recursive definition has a function if each value asks only for
values of a lower measure (`RecursionExists`, by the least counterexample: the
library's theorems on recursion take operators as parameters and cannot be used).
Schemas without cycles have ranks (`RankExists`), a place of a walk the measure of
its schema's rank and its position (`DistanceIs`), and what holds of a place when it
holds of the two it asks for holds of all (`PlacesInduction`). A walk meets every
reference that its root reaches (`WalksVisit`, `AllAreMet`) and leaves dependencies
before their users (`WalksSort`, with what is on the way above the schema at hand);
hence the contents, resources and sources parse (`ContentsParse`, `NamesDoResolve`),
and no file waits for itself in a pool (`AllArePooled`).

*Readers.* With the schema parsed and the header taken off, a lemma for each format
and provider gives the document (`ConfluentIsDecoded`, `ApicurioIsDecoded`,
`LocalJsonIsDecoded`, `LocalAvroIsDecoded`, `LocalProtobufIsDecoded`);
`ReadingsAreFresh` is why nothing that was kept matters.

The proof attempt changed the property. It had covered a Protobuf file imported
under the root's own name, a message whose name within the package is another one's
full name, a file under two names in one pool, and a type reference before JSON that
a local schema reads: the code decodes none of these, and none was among the
instances.

*Copies.* `CopiesAssumption` says what schemas and data are: schemas of a bounded
depth, whose parts have names of their own and are schemas again, with no union as a
branch of a union, and data that fastavro reads with them; byte strings are of
bytes. The functions of `Copies` recurse over schemas or values of which nothing but
the depth is known, so that each exists level by level: one for the schemas of a
depth asks only for those of the depth before (`PartsAre`, `ItemSchemaIs`), two that
agree there agree here (`ConvertAgrees`, `WritableAgrees`, `WritesAgrees`), and
`ConvertIs`, `WritableIs`, `WritesIs`, `ReadsAvroIs` and `ShownAsIs` are their
equations.

What decides about a union is what is shown (`Kinds`: a number, an object, a text
and what this can be read as). A branch that fits what it makes of a value takes one
of these (`ConvertedIsTaken`), so does one that is valid for a value
(`WritableIsTaken`), and data shows no more than its schema says (`DataShows`).
Where no branch takes what a later one shows (`BranchesTold`), the first that fits,
and the first that is valid, is the branch that was written (`UnionsAreKept`);
leaves are read back as their type (`LeavesAreKept`), items one by one
(`ItemsAreKept`), and depth by depth all data are kept (`ToldIsKept`). `LinesSpec`
of the run makes the steps of `CopySpec`, or none, of `copy`.

The proof attempt changed this model too. It had one type that a text could be read
as, by which a date in a union after a timestamp was copied as it was.

For bytes, `EscapedByteIs` gives the length of what stands for each; a text that is
read from where one begins goes on where the next does, and from the last of them
back to the first it gives the bytes.

Only model-checked: liveness, since it needs fairness and `ENABLED`. Every invariant
and every action property of the passing runs is a theorem; `MutationIsFollowedUp`,
which `admin_superseded` refutes where mutations overlap, is one where they do not.

## Not modelled

* Kafka's protocol, `librdkafka`'s retries and Schema Registry servers appear only
  as the answers, callbacks and errors the code handles.
* Rendering, layout, focus, highlighting, help, themes, key maps, banner, clipboard,
  logs and the delivery of exported files: no state that a property could be about.
* Rows of headers in the composer, the cursor and the selection of lists, and Topic
  Details between a refresh and the recomposition of its panes: what they hold in
  between is decided by the order of Textual's message queues, which the code does
  not determine. A model could only assume an order and check the assumption.
* Conversions of numbers, booleans, UUIDs, Base64 and hexadecimal, Protobuf's JSON
  form, Avro's binary encoding and JSON Schema validation: library code. Which of
  them is used, on what, and what follows from a failure that the code handles and
  from one that it does not, is in `Deserializers` and `Copies`; which bytes make a
  library fail is given (`Undecodable`).
* Later registrations of an ID during a session: what Confluent's client keeps of
  them is for ever, and Apicurio's ages, but the answers of the model stay the same.
* Key maps and themes of the settings: they are checked by their own loaders, and
  nothing else depends on them.
* The chosen chunk size as a bound of a page in `PagedRecords`: it only has that no
  page is larger than the largest size, as the size may change while a page is read.
  `ConsumerSession` has the size itself.
* What a worker does after its list is gone and all that is modelled is done: it
  finds no widget (`consumer/records.py:238`, `:415`) and raises, in an application
  that is closing.
* Confluent's Schema Registry client, which is a library's; TLS and certificate
  files of the Apicurio client. That `on_unmount()` closes the registry's client
  while a lookup thread may still use it (`producer/composer.py:451`): the thread's
  exception then concerns nobody, and no document says more of it.
* The sandbox and the scripts (`src/sandbox`, `scripts`), which set up a cluster to
  try Kaskade with.

## Plan

Done, in this order: admin refresh coordination with its abstract specification and
proofs; the consumer session; record delivery; topic metrics and offset resets; the
Apicurio client with the resolution of a producer's schemas; the command line, the
deserializers and copies; the topic forms; the proofs of resets, edits, deliveries
and consumer sessions; the proofs of what the record list shows and of schema
lookups; the proofs of what `Decoding` says of options, settings, metadata, files
and failures; the proof that written records are decoded, with those of framings and
collected references; the proof that copies are the same.

Left, in order of importance:

1. A run of its own for each of the exceptions `OnlyUnhandledEndIt` makes, with the
   document's sentence as the property.
2. Topic Details, if the program orders refresh and recomposition itself.

Runs are kept few: what is a theorem for any constants needs no second run with
larger ones, and modules of pure operators share one run.
