# Script-Hub in TLA+

Script-Hub is an HTTP service that downloads rewrite modules, rule sets and
subscriptions, converts them between client formats, and caches the results on
disk. Most of its lines translate text. What is hard in it is everything around
the translation: a disk budget shared by writers and late readers, conversions
that several requests share, limits on refreshes, background jobs that survive
restarts, and a small document store with revisions, backups and exports.

These modules model that part of the code under `src/internal`. TLC checks them on
small instances; TLAPS proves the most important results for every value of the
constants. `PROJECT.json` lists the runs, the mutants that show each property can
fail, the source lines of each definition, the hazards and the theorems.

## The system

| Part | State | Operations | Works with |
|---|---|---|---|
| disk cache, `cache/cache.go`, `types/file.go` | `used`, index of files, pins, workspaces, reference counts of bodies | Get, GetRetained, SetLifetime, Workspace, Create, Write, Reset, Close, Cleanup, New | every conversion, source and export |
| shared conversions, `server/flight.go`, `server/handler.go` | calls in flight, waiters, conversion slots | convertWithCacheContext, doContext, parseRules, sendResponse | disk cache; refresh scheduler as a caller |
| public refresh limiter, `server/refresh_limit.go` | cooldown per key, attempts of the last minute | allow | the handlers, before a forced conversion |
| background refreshes, `server/refresh_jobs.go` | job states, status file | initialize, step, persist, start, stop | shared conversions (forced), creation times in the cache |
| management store, `manager/store.go` | documents, index, revision of each | SaveVersion, Delete, Share, List, Meta | exports and scheduler, by a change channel |
| backups, `manager/backup*.go` | snapshots, generations, active pointer, pins | Snapshot, Restore, SnapshotIfChanged, openBackup | store |
| source fetch, `manager/source.go` | flights, failure cooldowns | fetch, recordSourceResult | disk cache |
| exports, `manager/handler.go`, `hotpath.go`, `preparation.go` | output flights, slots, read permits, leases of nodes | handleExport, export, produce, prepare | store, source fetch, disk cache |
| management scheduler, `manager/scheduler.go`, `runtime.go` | running jobs, status of each record | step, runScheduled, refreshResource, note, prune | store, exports, slots |
| lifecycle, `server/server.go`, `main.go` | goroutines to stop | Start, Shutdown | all of them |
| pure parts: conversions, subscriptions, `replaceStream`, metrics, validation | none between calls | | |

What makes each part correct:

* disk cache: the bytes on disk never exceed the budget although writes are two
  critical sections long and readers keep replaced files alive; every counter
  counts what it stands for; a reader's file stays whole; a refusal is justified;
* shared conversions: a body is closed exactly when its last holder is done; one
  conversion of a key at a time; a forced request is answered with a conversion published after
  it came; everybody is answered;
* limiter: two limits that hold over every window, waiting times that are kept where
  they are given for a key or the minute, bounded memory;
* background refreshes: the backoff survives crashes and lost writes; the run of a job
  that has not failed comes before its result expires; no job starves another;
* store and backups: an atomic map with revisions, whatever fails and whenever the process ends (but for one
  failure that the code ignores, see `ResourceMap`); nothing is replaced without a snapshot of it; storage
  within its budgets;
* source fetch: contents and their validators belong together, answers never go back,
  a cooldown lasts;
* exports: one leader for an output, leases that end with their last user, no answer for a
  record that changed or a share that was revoked meanwhile, no mutual waiting;
* management scheduler: a slot is left for the foreground, no due record is forgotten,
  nothing is reported for an outdated revision;
* conversions: streaming gives what the conversion in memory does; a node written as a link
  is read back; nothing is dropped silently.

Hard behaviours: interleavings of Go routines between critical sections
(`TempFile.Write`, the singleflight, cancelled waiters), crashes and restarts of
everything that is on disk, failing writes and removals, timeouts that race
results, and limits that are reached. `PROJECT.json` has each at its line.

## Modules

### DiskCache

Files are inodes. A file begins as the temporary file of a workspace (`owner`), is
grown by `WriteReserve` and `WriteSettle`, renamed to a key's path by `Publish`
(`index`), and leaves the index by replacement, eviction, expiry or damage: then it is
gone, or `retired` as long as a body reads it. Bodies have a reference count
(`GetHit`, `Retain`, `Close`), and the cleanup after the last reference is a step of
its own (`Unpin`), as in the code, where it takes `Cache.mu` after the body's own
lock is released.

An action under `Cache.mu` is one step. `TempFile.Write` is two, because it
releases `Cache.mu` while it writes; other operations of that workspace wait
for `Workspace.mu` meanwhile (`Busy`). `Evictions` is the set of outcomes of
`evict`: expired files in the order of a Go map, then the oldest live ones until
the reservation fits, either loop ended early by a failed `os.Remove`. `Restart` is a
crash at any point and `New` on the same directory with any configured budget.

`SetLifetime` takes the lifetimes, opens its workspace and writes an entry of a
total size; if a write fails, only its deferred close is left. A conversion's
workspace fills and resets files and publishes none.

Abstracted: keys for their SHA-256 paths, sizes in units, the content of a file and
its metadata (only whether it is readable, `Damage`). Left out: files that someone puts
into the directory while the process runs (the branch of `get` for a file without a
record), and a removal of a workspace directory that succeeds in part; the code
keeps the whole charge then, as `CloseFails` does.

### ConvertFlight

Each request walks through `convertWithCacheContext`: read the cache, join or lead a
call, and as the leader look again, take a conversion slot, parse, store, publish.
`pc` is the place it is at. `Publish` is the critical section at the end of
`doContext`: retain one reference for each waiter, free the key, close the channel.
A waiter may be cancelled before it (`LeaveCall`) or after it (`ReleaseLate`), and when
both its channel and its context are ready, Go chooses. Any request may be cancelled
at any time, the leader too, whose context the parser runs under.

The cache is one serial number per key: `DiskCache` models the rest. An answer carries the serial number of
the conversion it comes from, so that it can be said whether that was published before a request came.
`RefreshIsNew` is about publication, not about making: a leader stores its conversion a moment before it
publishes it, and a forced request that joins it in that moment may get one that a reader of the cache has
been answered with already. A request leads at most one call and opens at most one body, which are therefore
named after it. Left out: requests without a cache key, which share nothing, and a panic of a converter.

### RefreshLimiter

`allow` in four actions, one for each way it returns: the key is cooling down, the
minute is full, the table is full, accepted. Each includes the purges the code has
done by then. The settings are any integers, clamped as in `newRefreshLimiter`.
`accepted` and `promise` are history: all accepted refreshes, and for each key the time its last
refused caller was told to wait for, with the reason. A caller refused for its key or for the minute would
be refused until then (`NoneTooEarly`). A full table is answered with a whole minute, whenever its entries
go: with a cooldown of 40 seconds the caller is accepted before that, with one of an hour refused after it. The
model gives this answer as the code does, and no property relies on it (`Due`); what is checked is that
the promises to others hold while the table is full. Retry-After is rounded up to seconds by the
handler; time is in seconds here, so the rounding does nothing.

### RefreshScheduler

The states of the jobs in memory and in the status file, the creation times of their results in the cache, and
the process, which is down, idle or executing. `Start` is `initialize` with any configuration: jobs may be
disabled, and their request or interval may have changed. The hash in the file tells a changed request and not
a changed interval, so that the saved time of a job that failed is restored under another interval
(`Restored`). `interval` is the configuration of the running process, `under` in a state the interval its next
time was computed for (history). `Postpone` and `Attempt` are the two halves of `step` before the conversion,
`Succeed` and `FailAttempt` the end of it; each writes the status file, which may fail. `Crash` may come at
any point, `CacheSet` and `CacheGone` are public refreshes and lost results. `backoff` is history: the time
before which a failure that reached the file defers the job. `overtaken` is history too: how many attempts of
other jobs a due job has had to let pass.

### SourceFetch

A request is one call of `fetch`; `pc` is its place there. `Join` and `Lead` are the critical
section after the first look at the cache, `EndFlight` is the deferred one at the end: free the
key, record the error, wake the waiters. In between the leader holds no lock, and the cache
expires and evicts entries, upstream changes, time passes and others arrive. `held` is
first the retained content whose ETag is sent, then the content that will be stored,
`stamp` its Validated-At. `Recorded` is `recordSourceResult`; where Go takes any of the
oldest failures, it is a set. `past` and `last` are history: the newest content anybody had
been answered with when a request arrived, and what the last flight of a key recorded.

The content of a source is upstream's version of it, and the ETag is that number;
Last-Modified plays the same part. A context may be done at any time, so there is no
flag for it: every place that looks at it may find it so. Upstream is assumed to answer 304
only to the validator of what it has now. Left out: the path without a cache.

### ResourceMap and ManagerStore

`ResourceMap` says what the store promises: a map from ids to documents that requests change one at a time,
wholly or not at all, refused when the revision they name is not the current one. `ManagerStore` is the code:
documents are files of the root or of a generation that the pointer `.active` names, with an index in memory;
at the first start there may be documents already (`Earlier`). `Create`, `Edit`, `Share` and `Delete` come to
`put` or `remove`; `Publish` is the rename (or unlink) and the update of the index, which fails before both.
`Restore` and `ReplaceCollection` fill a new generation, take a safety snapshot (in three steps, which rotate
others away) and switch the pointer; `Sync` is the sync of the root directory after it, which may fail without
notice, and `Retire` the removal of what was replaced, of which some may stay. `Crash` may come at any point
and `Start` is `NewStore`, which refuses to start when the pointer names a generation that is gone
(`StartRefused`). `former` are the directories that the pointer may name after a crash: those it named since
the last sync that succeeded.

`MapKept` is the refinement. The abstract documents are those that requests see (`Visible`): the active directory,
or the old one between the rename of the pointer and its sync, while `Store.mu` keeps everybody out. The map has
one exception to "wholly or not at all", because the code has it: when the sync fails, the old documents are removed
all the same, and until a later sync succeeds a crash may bring back the old pointer with what is left of them,
perhaps a missing directory. `past` of the map holds what may come back. It holds nothing when every sync succeeds,
and the maps in it only lose documents (`Remove`).

Assumed: a crash loses memory, and of the disk only renames of the pointer that were not synced. What is created,
renamed or removed in one directory reaches the disk in that order, so that a sync that succeeds confirms all before
it; the rename of a document or a snapshot, after which the code syncs no directory, is taken to last.
Ids are random enough and revisions, digests of id and time of edit, are never equal. Left out: temporary files,
the position of Sub-Store entries, validation of documents, and names that are taken for ids.

### ManagerExport

One record, which changes, is deleted or loses its share token, and its source, which gets newer; requests of
several kinds (`Modes`) for several targets. A request passes `handleExport`: permit, cached output, slot, the
flight of its output, then the answer after the last look at record and token; a leader prepares nodes
(`Read`), which flights of several targets share by leases (`preps`), produces, stores and ends its flight.
`StartRefresh` to `RefreshDone` are `refreshResource`. A step whose order with its next one no other request
can tell is one with it; each request comes once.

### ManagerScheduler

The steps of the one goroutine (`Wake` to `Launch`), of its jobs (`GetRecord` to `Unlist`) and of foreground
requests, which only take slots and refresh. Edits, deletions, stops and crashes come at any moment. Left out:
failing writes of `status.json`, the jitter of a job, and the status of single targets, which is for display.

### RuleStream, NodeFormats, ReplaceStream

Pure parts, with the input chosen by `Init`. `RuleStream` streams: it downloads one source after the other
into a file, sorts lines into three files and assembles the output, with a failure of any step; `Parse` is the
conversion in memory, the reference, which takes from all lines the ones of each class (`Those` of `Rules`,
`Refused` and `Struck`). A line is a record of what `parse` looks at. `NodeFormats` reads and writes nodes: a
node and what it is written as are functions from all fields (or parts of a link, or keys of a line) to texts,
and `None` where there is nothing. Each document is one `CASE` over its fields, whose rows follow the tables
of `export.go` and the cases of `subscription.go`. `Values` and `LinkValues` are the texts a user may give,
wrong ones among them. `ReplaceStream` replaces an address in a text that comes in reads of any size.
`Conversions` puts the three beside each other and names what they promise; `MCConversions` checks them in one
run, which has behaviours of each.

## Runs

| Run | Instance | Properties |
|---|---|---|
| `disk_cache` | 2 keys, 2 files, 1 body, 2 workspaces, budgets of one and two entries, retained entries | `Accounting`, `WithinBudget`, `ReadersCharged`, `RetiredReleased` |
| `convert_flight` | 3 requests, 1 key, 1 slot | `FlightsExact`, `RefreshIsNew`, `AnswersMonotone` |
| `convert_flight_slots` | 3 requests, one of them forced, 2 rule keys, 1 slot | `Answered` |
| `refresh_limiter` | 3 keys, table of 2, cooldown 40 s, 3 a minute, 105 s | `LimitsKept`, `NoneTooEarly` |
| `refresh_scheduler` | 2 jobs, the first of which may be disabled and may get another interval at a restart; units of 30 s | `RunsWithinInterval`, `NobodyStarves`, `BackoffKept` |
| `source_fetch` | 3 requests, 1 source with 2 versions, 2 times | `AnswersForward`, `ValidatorsMatch`, `Revalidated`, `CooldownKept`, `WaitersHaveLeader` |
| `manager_store` | 2 clients, 2 ids, bodies of 1 and 2 units, budget of 3, one snapshot kept, 2 generations, 1 download; a document at the first start, 2 writes, 3 snapshots, 4 of both | `TypeOK`, `IndexExact`, `StorageBounded`, `CheckpointTrue`, `MapKept`, `Undoable`, `SnapshotsKept` |
| `manager_export` | 3 requests (shared, forced, refresh), 2 targets, 2 slots, 1 permit | `LeasesExact`, `OneLeader`, `NoneOvertaken`, `ForcedRevalidated`, `NoneStuck` |
| `manager_scheduler` | 2 records, 1 foreground request, 2 slots | `BackgroundBounded`, `NoLostWakeup`, `BackoffKept`, `StatusOfCurrent` |
| `conversions` | 11 sorts of lines, 2 sources, 12 targets; nodes and links of 9 protocols with up to 3 optional fields or parameters; texts of up to 7 symbols | `SameAsParse`, `NothingLeaked`, `RoundTrip`, `ReplacedInOrder`, `NothingDropped`, `NoneIgnored` |
| `source_fetch_local` | 2 requests, 1 source | `UpstreamOnly` is violated |
| `rule_stream_excluded` | 1 source of one line | `ExcludedLeftOut` is violated |

Bounds, and why they are enough:

* `disk_cache`: a budget of two entries with two keys and two workspaces makes eviction, refusal
  and an old file beside its replacement happen together; the budget of one makes a restart trim
  what it finds. One tick makes an entry stale, retained or expired, by its lifetimes.
* `convert_flight`: three requests are a leader, a waiter and a latecomer, which is what the races of
  `doContext` need.
* `convert_flight_slots`: a forced request has to try again when an ordinary one missed the cache, a second one
  stored meanwhile, and the first one leads and finds that: three requests. The second may ask for the other key instead
  and take the only slot. The first and the forced one may be cancelled; no entry expires, which `convert_flight` has.
* `source_fetch`: two versions and two times tell old from new and before from after; the third
  request is the one that comes when two others have overlapped.
* `refresh_limiter`: 105 seconds are the window, the cooldown after it and a part of the next. Steps
  of 15 and 25 seconds hit both sides of the minute and of the cooldown, and both exactly.
* `refresh_scheduler`: two jobs are one that runs and one that waits; a row of two failures is a delay and
  its double; two intervals, of one minute and of five, are a configuration before and after a restart. The
  second job stays as it is, and only the first one's result is refreshed or lost by others; `BoundedNext`
  says the same as `Next` otherwise.
* `manager_store`: two documents of two units do not fit, nor does a replacement beside the old one; three
  snapshots with one kept rotate twice. Two writes are an edit and the stale one after it, of the document
  that is there at the first start, or a write and a restore. Two restores, each with its safety snapshot,
  are four of both, the bound of the sum; deletions, crashes and starts are not bounded. A download begins
  only while another snapshot may, for rotation is all that it could meet.
* `manager_export`: two conversions that share nodes and a third request that wants a slot, a permit
  or the same flight. One event (a change, failure, cancellation or expiry) at any step; what needs
  two of them in one behaviour is not checked. A record of rule files differs in one branch of `Produce` and
  of `StartRefresh` (it has no nodes to share), and was left out of this instance.
* `manager_scheduler`: with two slots the reserve is one; two records make one wait for the other.
  Two units of time are the first delay and its double.
* `conversions`: one line of every sort that `parse` treats in its own way, in two sources, so that what one
  leaves meets the other; three optional fields or parameters are a transport, its options and one
  more; seven symbols hold a pattern, another that begins in it, and a rest.
* Failures, restarts and changes of a cache are unbounded in number; clocks, revisions and rows of
  failures are cut by the constants named `Max...`.

Deadlock is checked in `disk_cache`, `manager_store` and `manager_scheduler`. The other models stop when all
requests are done or the clock is at its bound, so their configurations turn the check off; `NoneStuck`
says what must not stop in `ManagerExport`. Runs with a liveness property use no symmetry.

Fairness. Two properties need it. `RetiredReleased` of `DiskCache` assumes weak fairness of closing a body and of
its cleanup: the handlers close it with `defer`, whether the response is sent or fails, and `net/http` ends a
connection that stands still. `Answered` of `ConvertFlight` assumes weak fairness of each request's own
steps: goroutines run, and a parser returns since downloads have timeouts. A slot needs no more, because each request
takes one once at most. Neither assumes that clients cancel.
Elsewhere progress is stated as safety: `WaitersHaveLeader`, `NoneStuck`,
`NoLostWakeup` and `NobodyStarves` exclude the states in which somebody would wait for ever.

## Disagreements between code and documentation

Shown by a run:

* `UpstreamOnly`: the comment above `recordSourceResult` says that only upstream failures
  cool down. A caller that exceeds its own limit, and a failed rename in the cache, are
  taken for such.
* `ExcludedLeftOut`: the comments and tests of `parse` say that the argument `x` moves a line to the excluded ones. A
  bare line (one without a comma) that it matches becomes an active rule, because its type is put
  before the mark.

Met while modelling, without a run of their own:

* `commitGenerationLocked` is to publish "through one durable pointer" (`manager/backup.go` 343), and README
  437 speaks of an atomic switch of `.active`. A root directory that cannot be opened or synced is not
  looked at (394-397), and the old documents are removed all the same: a crash may then leave the old
  pointer with some of its documents or none. `ResourceMap` states what holds;
* a job that failed keeps its saved time when a restart gives it a shorter interval (`refresh_jobs.go`
  144-151), since `requestHash` (99) leaves the interval out: it may be put off past the expiry of a result,
  which the bound in `config.LoadRefreshJobs` is there to exclude. `RunsWithinInterval` bounds such a job by
  the interval its delay was computed for;
* the minute that is sent as Retry-After when the limiter's table is full (`refresh_limit.go` 64) is unrelated to
  the time when a place in the table is free;
* the comment above `evict` says an original result that waits to be refreshed is not evicted for
  room (`cache.go` 300). The code spares only the key of the workspace that needs the room (312);
* an ordinary request that joined a forced leader gets the leader's error (`handler.go` 453), while README
  123 and 125 say that ordinary conversions still return partial and unstored results;
* a background job that was disabled at one start and enabled at the next has its backoff
  computed again from the start of its attempt (`refresh_jobs.go` 147), against the comment
  in 143. `BackoffKept` is therefore about jobs that stay as they were;
* a forced GET of the management module reads its result after its flight has ended (`manager/handler.go`
  468), where a later ordinary flight may have stored one made from nodes prepared earlier, although the comment at 412
  has forced requests revalidate. In the same way a refresh by POST may overwrite the newer result of a forced GET.
  `ForcedRevalidated` says what does hold;
* a forced `fetch` that waits for an ordinary one takes what is in the cache then. `Revalidated` says
  what does hold;
* the host in a VMess link over gRPC is dropped silently (README 370 says conflicting or unknown values
  are errors); `NoneIgnored` leaves it aside;
* an AnyTLS link with Reality is written and not read; `RoundTrip` leaves it aside;
* a Surge domain set keeps logical rules that contain `DOMAIN,`; and the batch takes every target that ends in "2" for
  a domain-set2;
* `prune` removes the status of a record created after the list of records was read
  (`scheduler.go` 162): it starts as one that has never run, which it nearly is.

## Proofs

`DiskCacheProofs` proves `TypeOK`, `Placement`, `Accounting`, `WithinBudget`,
`ReadersCharged` and `PinnedKept` from the named assumptions on the constants: finite sets
of files and bodies, positive sizes, ids that are not the "none" values. Sums of sizes
are cardinalities of sets of pairs (`Cells`), so that the facts on finite sets of the
library give what a fold would need induction for; the first lemmas say how `Bytes`
changes when a file grows, or some files are emptied. The inductive invariant is

    IInv == TypeOK /\ Placement /\ Accounting /\ used <= maxBytes

None of its parts is inductive alone: that a freed file's bytes are counted once rests on
`Placement` (a file is not both indexed and in a workspace), that `used` does not become
negative on `Accounting`, and the budget on the reservation counted before the write. Each
action has a lemma; `NextInvariant` puts them together, and `PinnedKept` follows from the
candidates of `evict` and from `IInv`.

`RefreshLimiterProofs` proves `TypeOK`, `RateKept`, `CooldownKept`, `LimitsKept`, `NoneTooEarly` and
`MemoryBounded` for all settings. The invariant says what the limiter's memory stands for: the attempts kept
are the newest of all accepted refreshes and those forgotten are a minute old (`AttemptsKept`), a key without
an entry has no accepted refresh within the cooldown (`EntriesKept`), and a refusal for the key or the minute
has a reason that lasts as long as the caller was told (`PromisesKept`; a full table is left aside, see
above). `RateKept` alone is not inductive, since it says nothing about what has been dropped.

`SourceFetchProofs` proves all five properties of the run `source_fetch`, for any number of requests,
sources, versions and times. `Ways` first sorts the steps: a request quits with an error, takes a copy of
the entry, or goes on. On top of `OneFlight` (a key has one flight, whose leader is under way; who waits,
waits for it or for one that is over) stand two invariants. `Forward`: nothing known of a source,
an answer or what somebody had when he asked, is newer than the entry that is there or than what a leader is to store;
that a download is not overtaken while nobody holds a lock is what makes `AnswersForward` true.
`Fresh`: a stamp and a fresh entry are younger than the requests of all leaders before. `FailuresCool`
needs one assumption more, that the table of failures has room for all sources; without it the
oldest failure may be forgotten early.

`ManagerSchedulerProofs` proves all four properties of the run `manager_scheduler`, for any records,
requests, slots and delays. `SlotsLeft` follows from the types and a count: a refresh runs from its launch, which sees
a slot too many, to `Unlist`. `StatusCurrent` is a fact of `Report`, which looks at the record under the
lock it writes under. For `DelaysKept`, `Remembered` says that the status of a record
with a delay still carries it, `Absent` that a record that is gone has none, and `StillDue` that what
is on its way to be launched was due when it was put there. `WakesInTime` needs, for each step of the
goroutine, what is already settled when it sleeps: who was listed is looked at (`Listed`), and who was
looked at is launched, or in `due`, or not before `wakeAt` (`Planned`); every step of others that could make a record due
earlier gives a signal.

`ConversionProofs` is about four components. First, it proves the three properties of the run `convert_flight`, for any
requests, keys and slots.
`Calls` ties calls, leaders and waiters together: a call is in flight exactly while its leader is between the
two critical sections of `doContext`, its counter is the number of its waiters, and who waits, waits for such a
call or for one that is over. `Values` says what a call holds. With them each step changes who is to
close a body in one of four ways: nothing, one more, one less (`RefsMove`), or all waiters at once
(`RefsPublish`). For the order of answers `Order` puts the conversions of a key in a row: what was answered, what
callers are about to answer with, the cached one, and a leader's own, which is newer than all published ones.
That an ordinary leader finds no cached conversion until its end (`Own`) is what makes it safe to publish a
result that could not be stored.

Second, `ReplacementInOrder` proves `ReplacedInOrder` of `ReplaceStream`, for any symbols, texts, replacement,
patterns and ways to cut the text. The assumption `PatternsFit` says that the shorter pattern is not empty and
the other not shorter, which is all that the code's two spellings have to satisfy; the run evaluates it
(`PatternsAssumption`). The invariant `Streamed` says that the text is what was consumed and then `pending`,
and that the text with all addresses replaced is `written` followed by what becomes of the rest from there on
(`Rest`). It is kept because the place that `First` finds in `pending` is the leftmost of the rest of the text
too: a pattern that begins before `Safe` ends inside `pending`, since at least one symbol less than the longer
one is held back. A stretch without a place is copied unchanged; that is shown by a least counterexample
(`Least`) in place of an induction.

Third, `StreamedAsParsed` and `ConversionClosed` prove `SameAsParse` and `NothingLeaked` of `RuleStream`, for
any lines, sources and targets. The invariant `Matching` says that, at each line, the three files hold `Those`
of what was scanned so far, with the same counts (`Counted`), and that what was scanned is what the answers
hold, up to the rest of the last one. The lemmas on `Concat` (`ConcatAppend`, `RowsExist`, `RowsAgree`) say
that what is appended to a row is appended to its fold, again by a least counterexample.

Fourth, `LinksReadBack`, `ExportsDropNothing` and `ParametersShow` prove the three properties of
`NodeFormats`, for any number of fields and parameters and any of the nine protocols, where TLC stops at three
fields. The invariants `DocumentInv` and `LinkInv` say that a document is a node or a link with a legal value
or `None` for everything it may have; the rest is about the functions. The lemmas called `...At` give the rows
of each document (`LinkAt`, `FromURIAt`, `LoonLineAt`, ...).

* For `RoundTrip`, `LinkAccepted` and `VMessAccepted` say that a link that is written is one that `parseURI`
  or `parseVMess` takes (no unknown parameter, at most one packet encoding, options that go with its
  transport), and `LinkSense` and `VMessSense` follow each field of `Sense` through the link and back.
* For `NothingDropped`, a node added to differs in one field. The link needs no second argument: two nodes of one link
  are what is read back from it, so they mean the same. AnyTLS with Reality, which is not read back, has
  its own lemma (`AnytlsSays`). Of a line for Loon or Egern each field's meaning is read off the line: two nodes
  with one line have that meaning in common (`LoonSays`, `EgernSays`). `SameExport` joins the targets.
* For `NoneIgnored`, `QueryShows` and `VMessShows` take the parameters one by one: from two links that give one node, of
  which one has a parameter more, it follows that the parameter is `Needless`.

`RefreshSchedulerProofs` proves the three properties of the run `refresh_scheduler`, for any jobs, intervals
and requests. That `retryDelay` gives a delay between one and its cap is shown by a least counterexample
(`Least`), because the induction theorems of the library are out of reach. `Timely` bounds the times of every
job in memory and in the file by the interval they were computed for (`under`), which after a restart need not
be the present one. `Prompt` says that a job which has not failed has the present interval and comes within it
of its result. `Delayed` says that a delay that is not over is remembered by the file and by the running
process, through a result refreshed in between and a success that was not written. `Queued` counts, for a job
that is due, the others that were attempted as others behind it now.

`ManagerStoreProofs` proves all properties of the run `manager_store`, the refinement of `ResourceMap` among them,
for any clients, documents, directories, downloads and budgets. The invariant is

    Inv == Types /\ Locked /\ Equipped /\ Separate /\ Dated /\ Prepared /\ Saved

`Store.mu` has one holder (`Locked`), who has at hand what his place in the code needs (`Equipped`); no directory
is used for two things (`Separate`); what an upload has unpacked has revisions of its own (`Dated`); `Prepared` says that
the holder is about to make the change he was asked for, and `Saved` that a safety snapshot holds the
documents he is to replace. `Sealed` adds that a revision tells its body: the code compares revisions only,
the map wants the edited body to be the one the client has seen, and only because a revision is
never given twice is that the same.

In the refinement the documents are those that requests see: the active directory, or the old one (`Visible`)
while the pointer is renamed and not yet synced. So `Sync` is the step that performs a restore, confirmed by
the disk or not, `Retire` is a `Remove` of the map, and a crash leaves `Visible`, or what the restore under
way makes of it, or a map of `past`. `AtRisk` says what that needs: a directory which a crash may bring back
is not the active one, not a stage and not about to be filled. `PastStep` is the lemma for the steps that
leave these directories alone. `Status` is read off the place and the request. Each action has a lemma that
maps it to a step of the map or a stutter.

On top of `Inv` stand `Checked` (the checkpoint describes the snapshot it names, for `CheckpointTrue`),
`Rooted` (for `TypeOK`) and `Fits` (for `StorageBounded`), in which sums of sizes are cardinalities of sets of
pairs as in `DiskCacheProofs`; `Spare` bounds the directories that a crash may bring back, which are to fit as
well. `SnapshotsKept` needs the oldest snapshot that rotation takes to be there and not to be the newest.

`ManagerExportProofs` proves four properties of the run `manager_export` and `SomebodyReady`, the part of the
fifth without `ENABLED`, for any requests, outputs, slots and permits and any number of changes, failures and
cancellations (the bounds `Max...` are any numbers). The invariant is

    Inv == TypeOK /\ (\A q \in Requests : Sound(req[q], record, kind)) /\ Leased /\ Led /\ Refreshed

`Sound` is about one request and the record. `Equipped` says at which places it has a slot, a permit, a lease
and a target; `Watched` that a request that was overtaken will find the reason when it looks again: the record
is gone, the token is revoked, or its own revision is behind. That is the strengthening `NoneOvertaken` needs:
a revision that changed while a slot was waited for does not count, since it is loaded with the slot, and one
that changed later shows in the last comparison. `Supplied` follows the nodes of a forced reading from the
leader through `Woken` to those who joined it. `Leased`, `Led` and `Refreshed` tie the three shared tables to
the places of the requests: entries of prepared nodes are counted by `Holders`, flights and refreshes have one
request that works for them. A step that changes none of these tables is `Quiet`: the tables cannot tell the
request's next state from the one before. One lemma (`CalmStep`) keeps the whole invariant for all such steps;
`LeadStep`, `ReadStep`, `PrepareWaitStep`, `FinishStep`, `StartRefreshStep` and `RefreshDoneStep` are the
others, with `LeaseTaken` and `LeaseGivenUp` for the counters, and `Overtaken` is for changes of the record.

For `SomebodyReady`, `ChainEnds` follows who waits for whom. No request that waits has a permit, so permits are
free when all wait; who waits for nodes has a reader, who waits for an output has a leader, who waits for a refresh has a
request that refreshes, and none of these waits for a slot; so slots are free as well. That a request which is `Ready`
has a step (`ENABLED Step(q)`) is left to TLC.

Only model-checked: `Answered` and `RetiredReleased`, which rest on fairness, and of `NoneStuck` the part
about `ENABLED`. That the operators of `NodeFormats` are what the mapped lines do, and that `Sense`, `Hints`,
`Default` and `Needless` say what they should, is for a reader to judge.

Assumptions on constants are named in the modules that declare them, and TLC evaluates them. `TypesAssumption`
of `Conversions` says that the types are protocols of the code, which has no others. `DelayAssumption` of
`ManagerScheduler` (the delays are natural numbers) is one only because the prover has no powers of two.

## Not modelled

* Refresh job configuration, configuration, helpers: validation of one document, without state. The bounds
  of an interval that `RefreshScheduler` relies on are among its assumptions.
* HTTP server and shutdown: `Start` and `Shutdown` are a row of calls into `net/http`, whose behaviour would be
  the whole model.
* Metrics: counters that only their own page reads.
* Management HTTP interface: routes, authentication and encoding around operations that `ManagerStore`,
  `ManagerExport` and `ManagerScheduler` model.
* Rewrite conversion: a translation of text, line by line, between formats, without state between the lines
  but for the output.
* HTTP client and address filter: resolution and connections, which are the library's.
* Front end: not Go.

Left out of parts that are modelled: conversions without a cache key, which share nothing; the formats of
Sub-Store documents and their routes; the spelling of rule lines, policies, extended matching and batches; the YAML
and Base64 around nodes, filters and renaming, and the Clash output; several sources of one record,
previews and the headers of responses.
