# TLA+ verification of AnoHive

AnoHive is a log monitor in one Go process: it tails files and takes entries over
HTTP, stores them in SQLite, looks for anomalies, and streams both to browsers over
WebSockets. These modules model the parts of it whose correctness depends on the
order in which things happen. TLC checks them on small instances; TLAPS proves, for
every value of the constants, the theorems of the `*Proofs` modules.

Run a check with `tlc -config X.cfg M`, a proof with `tlapm M.tla`. `PROJECT.json`
maps every definition to the lines it translates and lists the runs, the mutants
(one plausible bug per property, in the modules under "Fault:" comments) and the
hazards.

## 1. Inventory

| Component (source) | State | Operations | What is hard | What makes it correct |
|---|---|---|---|---|
| Circuit breaker (`internal/runtime/resource.go:132-224`) | state, int32 failure and success counts, time of the last failure | `Execute` = `allowRequest`, the guarded insert, `recordResult` | the lock is not held during the insert: results arrive late and in another state | state and counts agree; half-open is quiet; it recovers without a timer |
| Rate limiter (`internal/api/ratelimit.go`) | count and end of window per address | `Allow`, the cleanup goroutine; replaced by a reload | boundaries of fixed windows; sweeping while in use | a bound on what passes in any minute; nobody starves |
| Collector (`internal/collector/collector.go`) | sources and cancel channels by name, one loop per source, one bounded channel | `AddSource`, `RemoveSource`, `readLoop`, `Close` | loops outlive their map entry; sends block; the channel is closed once | no send after close, loops stoppable, lines in order, `Close` returns |
| Server process (`cmd/server/main.go`) | the consumer's batch, the shutdown sequence | `processCollectorOutput`, `main` | batch against ticker against close; what shutdown waits for | order, no loss while running, acknowledged means stored, termination |
| WebSocket hub (`internal/api/server.go:151-171, 774-841, 885-904`) | client set, broadcast channel, gauge | `handleWebSocket`, `BroadcastLog/Anomaly`, `broadcastLoop`, `Shutdown` | snapshots, checks outside the lock, blocking writes | no gap or repetition in a stream; no client left behind |
| Anomaly detector (`internal/detector/detector.go`) | per source: totals, pattern counts, rate window, time of the last anomaly per key; thresholds | `Process`, `SetThresholds` | times are the senders' and run backwards; thresholds change without the lock | cooldowns kept, each new pattern reported once, the rate window ordered |
| HTTP ingest (`server.go:236-439`) | none of its own | JSON and raw ingest | clients that time out and retry; the breaker; an insert that fails; detector and broadcast run before it | what was posted and acknowledged stays stored; a retry stores each entry once; every sender gets through |
| SQLite store (`internal/storage/sqlite.go`) | logs and anomalies tables | insert or replace by id, queries with limits, retention | equal ids, text timestamps, batches that fail, paging while rows move | nothing goes before it is old; a reader skips nothing |
| Alert manager (`server.go:1024-1102`) | time of the last alert per type | `IsEnabled`, `SendAlert` | asynchronous delivery, cooldown shared by all sources, replaced by a reload | no two alerts of a type within a cooldown |
| Configuration and reload (`internal/config`, `server.go:651-771`) | the configuration, thresholds, limiter | `LoadConfig`, `Validate`, reload, thresholds endpoint | the file read outside the lock, reloads at once, requests that take no lock | what is in force is one configuration; every reload ends |
| Resource monitor and sampler (`resource.go:11-129, 226-301`) | degradation level, sampling counter | periodic check, `ShouldLog` | | inert: the sampling rate is 1.0 and nothing sets it |
| Parser (`internal/parser`) | none | `Parse`: nine formats in order, then a fallback | an earlier format takes a later one's line | the order of the formats and their levels |
| Read-only API, health, metrics | counters | queries | | |
| CLI (`cmd/cli`) | none | ingest, stream, configuration, backup | reconnecting | |
| Dashboard (`web/src`) | log lines, connection | `useWebSocket`, `App` | timers against unmounts, first load against the stream | one connection, no line lost |

The interactions. `main` creates the store, the detector, the collector and the API
server. One goroutine, `processCollectorOutput`, takes parsed lines from the
collector's channel, inserts them in batches and hands each to `Detector.Process`
and to `BroadcastLog`; the HTTP ingest handlers do the same for their entries in the
opposite order, the insert last and, for the JSON endpoint, through the circuit
breaker. `Process` calls back into `main`, which stores the anomaly and broadcasts
it. The broadcast channel has one reader, `broadcastLoop`. A reload replaces the
limiter and sets the detector's thresholds. On a signal `main` stops the HTTP
server, the collector, the API server and the store, in that order.

## 2. The modules

| Module | Models | Checked by |
|---|---|---|
| `Breaker` | abstract: a breaker that trips, stays tripped until quiet, is cleared by a success | `breaker` (refinement) |
| `CircuitBreaker` | `runtime.CircuitBreaker` | `breaker`; `CircuitBreakerProofs` |
| `RateLimiter` | `api.RateLimiter`, its sweep and its replacement | `limiter`; `RateLimiterProofs` |
| `LineFeed` | abstract: a bounded channel closed once and not sent to after | `collector` (refinement), extended by `Pipeline` |
| `Collector` | `collector.Collector`, growing files | `collector`, `collector_tail`; `CollectorProofs` |
| `Pipeline` | `processCollectorOutput`, one-entry ingest handlers, `main`'s shutdown, on top of `LineFeed` | `pipeline`, `pipeline_shutdown`; `PipelineProofs` |
| `Broadcast` | abstract: messages given out one after the other, none begun before every client has the last | `hub` (refinement) |
| `Hub` | the WebSocket side of `api.Server` | `hub`, `hub_limit`; `HubProofs` |
| `Detector` | `detector.Detector` | `detector`, `detector_burst`; `DetectorProofs` |
| `Store` | the logs table, as operators on sets of rows | used by `Ingest` |
| `Ingest`, `MCIngest` | senders, `handleIngest`, `handleRawIngest`, the retention cleanup, a client that pages; composes `Store` and `Breaker` | `ingest`; `IngestProofs` |
| `Control`, `MCControl` | `LoadConfig`, `Validate`, reload and threshold requests, `AlertManager` | `control`; `ControlProofs` |
| the `*Proofs` modules | the theorems | TLAPS |

`Collector` and `Pipeline` compose through `LineFeed`: the collector is shown to
implement it, and the pipeline uses nothing else of the collector, so it need not
carry the collector's loops. In the same way `Ingest` composes with the abstract
`Breaker`, its handlers between `Execute` and the end of the insert being the
breaker's callers in flight; `CircuitBreaker` is proved to implement that, and `Ingest`
to use it as `Breaker` lets it be used.

**CircuitBreaker.** `inflight` is the set of callers between the two critical
sections of `Execute`; `AdmitClosed`, `AdmitProbe` and `Reject` are the outcomes of
`allowRequest`, `RecordSuccess` and `RecordFailure` those of `recordResult`. Time is
`sinceFailure`, what `time.Since(lastFailureTime)` returns, saturated one tick past
the timeout, which is all the code compares. `successCount` is an int32 that wraps
at `MaxInt`: recordResult increments it for successes of a closed breaker too, so it
does wrap in a long-lived server. `failureCount` is bounded by `RecordFailure`'s
guard, which stands for 2^31 failures without a closing in between.

**RateLimiter.** `left` is `resetTime - now`, `Expired` is `now.After(resetTime)`,
which is false in the tick of `resetTime` itself. `known` are the keys of the map;
`Allow`'s three outcomes are `OpenWindow`, `CountRequest` and `Refuse`. `admitted`
is a history: the requests of each of the last spans up to a minute, which is what the
bound on any minute speaks of. `Reload` puts an
empty limiter in place, as `reloadConfig` does.

**Collector.** The k-th goroutine for a name is the loop `<<name, k>>`. A loop moves
through `check` (the non-blocking select), `scan`, `send` (the select on channel and
cancellation) and `pause` (the timer). `cancelChans` is the map of that name, as the
set of loops whose channels it holds. `scanner` is what a `bufio.Scanner` does: having
met the end of its file it never reads again; a line beyond 1 MiB makes it return
false once, then return the part it holds as its last line. A file is a sequence of
whole lines; whether a partial last line is cut is not modelled.

**Pipeline.** A line is its number. `TakeLine`, `Tick` and `SeeClosed` are the arms of
the select, `InsertBatch` and `ProcessLine` are `processBatch`. An insert may fail
at any time and must when the store is closed. A send on the closed broadcast
channel panics: in the consumer it ends the process, in a handler net/http recovers
it. `main` runs through its shutdown from `Signal` on; `HttpShutdown` may happen
with handlers active, since the shutdown context has a deadline. Storing an anomaly
in the callback is left out.

**Hub.** One handler per connection: the limit is checked under RLock, the connection
upgraded and registered under the lock, the gauge set outside it from the count taken
in it. `broadcastLoop` takes a message, takes a snapshot, writes to each client of
it. A write to a peer that does not read blocks: the code sets no deadline. (The
kernel's buffers absorb some writes; leaving them out only makes the stall earlier.)
`Stream` maps it to `Broadcast`: the message being given out is the last one of which a
snapshot was taken, the clients are those registered, open and not gone, and what each
has is the last message in its `inbox`. `broadcastLoop` skips a message that
`json.Marshal` refuses (`server.go:827-830`); entries and anomalies always marshal, so
that `continue` has no step.

**Detector.** `Process` is one action: it runs under the mutex. Entries carry any
time. `RecentMessages` is a ring of which the code asks only how many places hold a
message: `total`, up to `RingSize` (messages are taken to be non-empty). The error
rate, the rate and its baseline are cross-multiplied; `Multipliers` are whole
numbers, as is the default. `SetThresholds` writes three words without the lock, so
each becomes visible on its own; a torn write of one 64-bit word is not modelled, as
64-bit platforms write it whole. `last` holds the time of the
last anomaly by key, the pattern being part of the key of a new error.

**Store.** A row is an entry under an identifier, with the instant it was written, the
text the driver stores for it (the sender's local time) and a rowid. `InsertLogs` is
the transaction of `INSERT OR REPLACE`: of two entries of a batch with one identifier
the later stays, and a replaced row gets a new rowid. `QueryLogs` takes rows by
`ORDER BY timestamp DESC LIMIT ? OFFSET ?`, rows of equal text by the index read
backwards, and turns a limit out of range into the default. `DeleteOldLogs` compares
texts. Filters of a query are left out: they select from the same order.

**Ingest.** A handler goes through `execute` (decoded, entries given what they lack),
`insert` (inside the breaker's callback, or at once for a raw body) and `respond`.
`Identified` is `generateLogID`: the clock, which may or may not move between two
entries, so two entries may have one identifier. A documented body of one entry
decodes as a batch with none (`Decoded`), so that the handler has nothing to insert and
answers 200. `post` is what the senders have to send, whatever becomes of it, and what
`AcknowledgedStays` and `StoredOnce` are measured by; `written` is the history of what
was ever inserted, by entry, identifier and text. `Refuse` is the 503 of an open breaker,
`Fail` the 500 of a rolled back insert, `Commit` and `Respond` the 200. A sender waits
for one answer, gives up (`TimeOut`, the client's ten seconds) while the handler goes
on, and tries again after a refusal, a failure or a loss, until it is acknowledged.
`Crash` kills the process between any two steps and starts it on the table as
committed. Detector and broadcast, which the code calls before the insert, are
`Pipeline`'s. `reader` pages by offset, as the API and `anohive logs` offer it;
`ahead` are the rows it has still to meet.

**Control.** The file takes the contents `Files` one after the other, among them none
and one that is not JSON; `LoadConfig` reads it over the defaults, then the
environment over it. `Load` reads outside the lock, `Lock` takes `s.mu`, `Apply` sets
the six things `reloadConfig` sets one at a time, `Unlock` is its deferred unlock.
`SetThreshold` is one of the three unlocked writes of a threshold request; what the
body does not name is reset to a default. The last thing a reload sets is a new alert
manager: an anomaly that already met the old one (`orphan`) still uses that.
`BroadcastAnomaly` reads whether alerts are enabled and calls `SendAlert`, which takes
its time under its mutex and posts in a goroutine; `Deliver` ends that, well or not.
Ages of alerts saturate at the longest cooldown; a negative cooldown is the same as none.

## 3. The runs

| Run | Instance | What it shows |
|---|---|---|
| `breaker` | 3 callers, both thresholds 2, timeout 1, `MaxInt` 4 | state and failure count agree (`TrippedByCount`), no failure is younger than the timeout in half-open (`HalfOpenIsQuiet`), a healthy database closes the breaker for good (`Recovers`), and it implements `Breaker` |
| `limiter` | 2 addresses, limits 1, 3 and (by default) 2, a minute of 3 ticks | one limiter lets at most twice its limit through in any minute (`AtMostTwiceTheLimit`); who is refused was let through up to the limit in the last one (`RefusedWereServed`); a client that keeps asking gets in again and again (`NoClientIsStarved`) |
| `collector` | 1 name added twice, capacity 1, files of up to 3 lines | `NoSendAfterClose`, `EveryLoopCanBeStopped`, `DeliversInOrder`, `CloseReturns` without a consumer, and `ImplementsFeed` |
| `collector_tail` | 1 loop, 2 lines | *violated*: a line appended after the first end of file is never read |
| `pipeline` | 4 lines, capacity and batch 2, 2 requests | `LinesInOrder`, `AcknowledgedIsStored`, `EveryLineIsProcessed`, `SignalEndsProcess` |
| `pipeline_shutdown` | 2 lines, 1 request | *violated*: the process exits with lines unprocessed, or panics |
| `hub` | 2 connections, limit 1, channel of 1, 2 messages | `RegisteredAreServed`, `StreamsEveryMessage`, `ClosedAreForgotten`, `DrainsUnlessStalled`, and it implements `Broadcast` |
| `hub_limit` | 2 connections, limit 1 | *violated*: both pass the check before either registers |
| `detector` | 1 source, 1 pattern, 5 entries at times 0, 3, 4, 5, 9; a window of 6, cooldowns of 2 to 4; two burst thresholds | `RaisedApart`, `NewErrorOnce`, `RateWindowOrdered` |
| `detector_burst` | the same, one burst threshold | *violated*: a burst is reported for logs that are far apart |
| `ingest` | 2 senders with 2 handlers each, 3 workloads of 2 entries at most, 1 loss, a clock of 3 ticks, pages of 1 | `AcknowledgedStays`, `StoredOnce`, `DeletesOnlyOld`, `PagingSkipsNothing`, `EverySenderGetsThrough` |
| `control` | 2 reloads and 1 threshold request at once, 4 contents of the file, 1 type of anomaly, cooldowns of 1 and 2 | `SettingsAgree`, `AlertsApart`, `ReloadEnds` |

**Why the bounds are enough.** Three callers let one be a straggler from before a trip
while another probes and a third fails; `MaxInt` 4 makes the success count wrap
several times, and both thresholds of 2 make "one more" differ from "enough". Two
addresses suffice where the code treats them apart; limits up to 3 and a window of 3
ticks let two windows meet in one minute. One name added twice is the only way two
loops meet in one map entry, as names do not interact otherwise; capacity 1 makes
the channel full at once; three lines hold a skipped, a plain and an over-long one in
every order. Four lines and batches of two give flushes by size, by ticker and by
close with lines left over. Two connections are a race for one place, and one of
them can stall or go while the other is written to. The detector's constants scale
the code's (10 entries, 50, 100, seconds, minutes) down so that five entries cross
every one of them; the times are spaced so that entries fall within a second, beyond
a cooldown, beyond the window, and run backwards.
In `ingest` two handlers of a sender are an attempt given up and its retry, and one
loss allows one such overlap, by a timeout or by a crash. The workloads hold what
makes entries meet: two of one batch without identifiers, one identifier from two
senders with different times, a sender whose local time is behind, an empty body, a
raw body that the breaker does not guard, and what the command line sends. Three
ticks with a retention of one let rows become old while they are paged. In `control`
two reloads at once are a race for the lock with a third waiting to be asked for; the
contents of the file are none, a valid one, one that is not JSON, and one that
`Validate` would refuse, so that a restart and a reload differ.

Deadlock is checked in `breaker` and `limiter`, where the clock or a client can
always move. The other systems may stop: a closed collector, an exited process, peers
that are gone, a detector at its bound of entries, senders that are all acknowledged
when the clock is at its bound, a server whose file `main` refuses.

**Fairness.** Weak fairness of the goroutines' steps (the Go scheduler runs a
goroutine that can run) and of the clock. Beyond that: `breaker` assumes that
clients retry (the 503 tells them to; the breaker has no timer and moves only on a
request) and that guarded calls return; `limiter` that a client keeps asking, which
is what `NoClientIsStarved` is about; `ingest` that a refused sender tries
again, as the answer asks, and that the breaker's clock goes on; `control` that a
reload's goroutine runs, and takes a mutex that is free again and again (Go's mutexes
do not starve a waiter for ever); `pipeline` that the ticker ticks and that
main's steps after the signal are taken. No fairness is assumed for writers of
files, for the collector's consumer (`CloseReturns` holds without it; only
`collector_tail` assumes it, so that the counterexample is not a full channel), for
peers, for arrivals, for the signal, for a database that heals (a premise of what is
said of it), for the cleanup, for readers, or for threshold requests. In `hub` the new
connection's check is not fair either: no connection need come.

**The violations** state what a document or comment says; each is a finding in
`PROJECT.json` with the line it quotes.

- `collector_tail`: the "tailing" collector stops at the first end of file.
- `hub_limit`: the maximum of connections is checked and used under different locks.
- `pipeline_shutdown`: the graceful shutdown does not wait for the consumer.
- `detector_burst`: the time condition of a log burst compares the entry with itself.

One finding more is shown by the passing run `ingest`: the body of one entry that
`API.md:115-130` documents, with the answer `"ingested": 1`, decodes as a `LogBatch`
without entries. The sender that posts it is answered 200 (`EverySenderGetsThrough`), and
`StoredOnce` holds with no row at all allowed for its entry, in every interleaving.
`AcknowledgedStays`, which says that what was posted and acknowledged is in the table,
therefore speaks of the other bodies.

## 4. The proofs

`CircuitBreakerProofs`, for any callers, thresholds in `1..MaxInt`, timeout
(`ThresholdAssumption`):

- `IInv == TypeOK /\ TrippedByCount /\ HalfOpenIsQuiet` is inductive. Neither
  invariant is alone: a failure recorded in half-open must reopen the breaker, which
  it does because the count is at the threshold already (TrippedByCount); and the
  counts are compared as numbers only because they have their types.
- `TypeCorrect`, `TrippedByCountHolds`, `HalfOpenIsQuietHolds` follow, and
  `Refinement`: every step of the counting breaker is a step of `Breaker` or a
  stutter. The late success of a call admitted before the trip is the case that needs
  `HalfOpenIsQuiet`: it may clear the breaker only when quiet.
  Its other half is `IngestProofs!HandlersUseBreaker`, below.

`CollectorProofs`, for any set of names, number of loops, capacity and file length
(`CollectorAssumption`):

- `IInv == TypeOK /\ ScansItsFile /\ NoSendAfterClose /\ EveryLoopCanBeStopped` is
  inductive. `ScansItsFile` bounds the scanner (a loop that sends holds a line; a
  choked scanner has not consumed its line) so that what is sent is an entry.
  `EveryLoopCanBeStopped` is stated with the two facts its induction needs: a name
  holds one cancel channel, and a name that holds one is listed in `sources`, so that
  adding a name never overwrites the channel of a loop that still runs.
- `DeliversInOrderHolds`, on a second invariant, `HandsOn`: what a loop delivered is what
  it scanned and did not skip, but for the line in its hand while it sends, which a
  cancelled loop gives up. That its lines are in the order of its file follows because
  each line it sends is beyond all it sent before; the consumer's `Receive` only moves
  the boundary between `received` and `output`.
- `NoSendAfterCloseHolds` rests on `Close` waiting for every loop, and on nobody
  being added after it; `Refinement` to `LineFeed` on `NoSendAfterClose`.

`PipelineProofs`, for any number of lines, requests, capacity and batch size
(`PipelineAssumption`):

- `IInv == TypeOK /\ BatchInHand /\ LinesInOrder /\ AcknowledgedIsStored` is
  inductive. `BatchInHand` says that a batch under work is not empty (so that its
  head may be handed on) and that one that waits has room (so that a taken line
  leaves it within its size).
- `LinesInOrderHolds` rests on three lemmas about sequences: taking the head of one
  sequence to the end of the one before leaves their concatenation as it was
  (`MoveHead`), appending to the last appends to all (`AppendLast`), and the lines up
  to n + 1 are those up to n and the next (`UptoNext`). There is one lemma per step;
  `main`'s steps are one, since they move neither lines nor requests.
- `AcknowledgedIsStoredHolds` covers handlers that outlive the shutdown's deadline:
  an insert that meets the closed store fails, and only an insert answers 200.
- `LossIsBoundedHolds` is what is left of the graceful shutdown that `pipeline_shutdown`
  refutes: every line sent is processed, in the batch or in the channel
  (`LinesInOrder`), and the last two are bounded (`TypeOK`).

`HubProofs`, for any connections, limit, capacity of the channel and number of messages
(`HubAssumption`):

- `IInv == TypeOK /\ Numbered /\ TargetsJoined /\ RegisteredAreServed /\
  StreamsEveryMessage`. `Numbered` says which messages are where: those of which a
  snapshot was taken, the one in hand, those in the queue. `TargetsJoined` says that
  only connections registered before the snapshot are written to.
- `StreamsEveryMessageHolds` treats what a client was sent as a run of consecutive
  numbers: the next number makes it longer (`AppendRun`), reading takes its first
  (`TailRun`). `RegisteredAreServedHolds` needs both of unregistering's two ways.
- `Refinement`: the hub implements `Broadcast`. The invariant says where each live client
  is (`LastInHand`): at the last message, or one behind if it is still to be written
  to. So a snapshot, taken with nobody left to write to, begins a message that nobody is
  behind for; a write gives the next one; a registration joins, unless the peer has gone
  meanwhile; a failed write, an unregistration or a closing of the whole set is somebody
  leaving, or nobody's business.
- `LimitHoldsOneByOne` is what is left of the limit that `hub_limit` refutes: as long as no
  connection passes the check before the one before it is registered, there are never
  more than `MaxClients`. It counts those that passed the check as registered
  (`PlaceLeft`).

`RateLimiterProofs`, for any clients, limits and length of the minute
(`LimiterAssumption`):

- `IInv == TypeOK /\ OpenWindows /\ ExpiredWindows /\ Cumulative`. The bound alone is not
  inductive: nothing in it keeps a third window out. `OpenWindows` splits a minute at
  the opening of the window: what came since is what it counted, what came before is
  one limit at most. It is stated with equality (`admitted[ip][Age(ip)] = count[ip]`), so that
  `RefusedWereServedHolds` follows too: who is refused has had the limit within its
  window, which is within the minute. `ExpiredWindows` is what an opening starts from: the minute holds
  one window only and nothing of this tick, as `now.After(resetTime)` is strict.

`DetectorProofs`, for any sources, patterns, times and thresholds
(`DetectorAssumption`):

- `RaisedApartHolds`: for every anomaly ever raised, `LastAnomalyTime` of its source and
  key holds a time no earlier (`LastIsLatest`), so a test against that one time is a
  test against all. The four detectors of one entry have different keys (`AddFound`),
  so an entry cannot come too close to itself.
- `NewErrorOnceHolds` needs that a pattern not counted yet is not in `LastAnomalyTime`
  (`Counted`), or a cooldown could swallow its only report, and that the four
  detectors miss nothing that is raised (the second part of `FoundOf`).
- `RateWindowOrderedHolds`: what is inductive is that every two samples, not only
  neighbours, are a second apart (`Ordered`); the trim cuts at the first young one
  (`TrimOrders`), and an entry joins the last sample or starts a later one.
- `TypeCorrect` rests on `AtMostTotal`: whatever is counted of a source, in patterns,
  samples or arrivals, is at most the entries it has sent, which the bound is on.
- `NoBurstBeyondRing`: with thresholds of which half is more than the ring holds, no burst is
  ever raised (from 202 on, with the code's ring of 100 and its integer division).

`IngestProofs`, for any senders, handlers, workloads, retention and skew
(`IngestAssumption`, `StoreAssumption`, `LoadsAssumption`):

- `IInv`'s main part is `WrittenStays`: whatever was written is there under its
  identifier, or was once under one that is old. It has to speak of everything
  written, acknowledged or not, since rows are replaced and deleted by identifier
  whoever was told of them. `AcknowledgedStaysHolds` follows with
  `AcknowledgedAreWritten`, which takes an entry from the sender to the table: a handler
  at work holds every entry that was posted (`HoldsPosted`), what it will acknowledge was
  written, and so was every decoded entry of a sender that is done.
  The lemma under it is `InsertKeepsIds`: `INSERT OR REPLACE` keeps every identifier
  and adds the batch's.
- `StoredOnceHolds`: "a row for each lost answer, and one" is not inductive, as an attempt
  that was given up may still insert. `Credit` counts a sender's lost answers, plus one if
  its current attempt has inserted, less those given up that may still insert;
  `RowsAreCounted` bounds the rows of each of its entries by that. No step lowers
  the credit, and a commit, the one step that adds a row, raises it. `EntriesAreOwn` keeps
  the entries of different senders apart, those with an identifier to one row, and those
  of a documented single body out of the table.
- `PagingSkipsNothingHolds`, on `Paged`: every row the reader has still to meet ranks at its
  offset or beyond. Ranks have no gaps, so a page of n rows moves the reader past n ranks
  and no more; an insert only raises the rank of what stays, and the cleanup, which
  takes rows from the end, keeps it. `PagesAreDisjoint` is the converse for a table that
  does not change: no row is met twice.
- `RetryReplaces`: a batch that is inserted twice under its identifiers leaves as many rows,
  and the same identifiers, as inserted once.
- `TypeCorrect` includes that no two rows share an identifier or a rowid.
- `HandlersUseBreaker`: between crashes every step is a step of `Breaker`, with the
  handlers between `Execute` and the end of the insert as its callers, or leaves it
  alone. So what `CircuitBreakerProofs!Refinement` says of the counting breaker is what
  the handlers rely on.
- `DeletesOnlyOldHolds` rests on every row's text being behind its instant by `Skew` at
  most.

`ControlProofs`, for any number of reloads and requests and any contents of the file
(`ControlAssumption`):

- `IInv == TypeOK /\ RaisingIsRecord /\ HoldsLock /\ AppliedSoFar /\ DownIsIdle /\
  SettingsAgree`. `SettingsAgree` speaks of the moments when the lock is free;
  `AppliedSoFar` carries through a reload that the settings made so far are its
  configuration's, which at its end is all of them.
- `AlertsApartHolds`, on a second invariant: `lastAlert` of a type is no older than any
  of its alerts (`LastIsYoungest`), and a server that is down has sent none. Two steps
  matter: a send, after which everything sent before is a cooldown old, and a reload,
  which forgets it all with the manager.

Only model-checked: liveness (`Recovers`, `NoClientIsStarved`, `CloseReturns`,
`ClosedAreForgotten`, `DrainsUnlessStalled`, `EveryLineIsProcessed`, `SignalEndsProcess`,
`EverySenderGetsThrough`, `ReloadEnds`), which with ENABLED is out of the prover's
reach. Every other property of a passing run is proved.

## 5. What was seen and is not a run

- Half-open admits every request, though the comment at `resource.go:184` says a
  limited number; no limit is configured that a property could name.
- `successCount` counts successes of the closed breaker too, so half-open usually
  closes after one success rather than three.
- The fixed window lets a client send twice its limit in a minute, and a reload
  gives everyone a new allowance.
- The client gauge can stay wrong: handlers set it in any order and `broadcastLoop`
  drops clients without setting it.
- One client that stops reading stalls the broadcast to all: `DrainsUnlessStalled`
  says exactly that much.
- A source that logs less than once in five minutes keeps its whole rate window.
- One entry dated in the future silences its anomaly type for its source until then.
- The severities of alerts are `critical` and `high` by default (`config.go:112`) and in
  `RUNBOOK.md:136`; anomalies carry `CRITICAL` and `HIGH` (`models/log.go:52-55`), and
  `SendAlert` compares them to the letter: with the default no alert is ever sent. The
  instance of `control` names them as the detector does.
- Of two reloads at once the one that read the older file may be applied last and stay.
- A reload validates nothing (only `main` does) and leaves the retention, the maximum
  of clients and the allowed origins as they were.
- A threshold request sets what it does not name to defaults, the command line's too,
  which names one; `retention_hours` in such a request (`RUNBOOK.md:270-275`) is
  ignored and resets all three. The retention `7d` cannot be parsed as a duration; the
  fallback is seven days whatever it says. `max_logs` is only logged.
- The success of an empty insert (a documented body of one entry) counts for the breaker
  while the database is down.
- Two entries that are given one identifier are one row, though both are acknowledged:
  `AcknowledgedStays` takes the row of either for both.
- A refused or failed request has been to the detector and the dashboards, and its retry
  goes there again: nothing in the code promises otherwise, and no property says it.
- A reload and a threshold request that write at once may leave a mix of both in force:
  `SettingsAgree` excepts the thresholds once a request has written.
- `PROJECT_SUMMARY.md:121` has an anomaly type fire once per window; the cooldowns are
  per source and, for new errors, per pattern. `RaisedApart` says what the code does.
- A raw body is inserted past the breaker.
- The limit of a query is echoed as asked, not as applied; the export asks for 10000
  rows and gets 100; `API.md:69` gives 50 as the default, the code has 100.
- An entry replaced by one with an earlier time moves back in the order of the pages,
  and a reader may then skip another row: `PagingSkipsNothing` leaves such a reading out.
- Times written in different zones are compared as text, so a row may go early or late
  by their difference: `DeletesOnlyOld` allows for `Skew`.
- Levels in JSON entries are not normalised; `anohive stream` polls for the ten newest
  and misses the rest; a restore overwrites the database file and leaves its `-wal`
  file beside it; documents speak of `PULSE_*` variables, the code reads `ANOHIVE_*`.
- The dashboard overwrites lines streamed before its first load has been answered, may
  open a second connection when an unmount's close is reported after a remount, and
  stops reconnecting after ten attempts.

## 6. Not modelled

- `AddTCPSource` is a placeholder in the code; `ParseAndClassify` and
  `ExtractKeyValuePairs` of the collector are unused by the server.
- Flags, routes, CORS, static files, encoding, wording of messages, and the
  severity of an anomaly: nothing in them depends on order.
- Dashboard components that only render.
- The sampler and the resource monitor: `NewServer` makes the sampler with rate 1.0, no
  code calls `SetRate`, so every batch is kept; the monitor only reports.
- The parser: a chain of regular expressions without state. Its results reach the
  models as entries; a model of which expression matches first would repeat it.
- The anomalies table, statistics, backup, restore and vacuum: single statements or
  file copies that no other modelled step reads.
- Settings that are read only at the start, and filters of queries.
- The dashboard: browser code with callbacks and timers of its own; two hazards are
  listed for it.
- Goroutines leaked by a reload (the old limiter's sweep): they hold no shared state.
- What section 7 plans.

## 7. Plan

Done, in the order in which a failure would hurt: the breaker in front of the
database, the collector, the process around it, the hub, the limiter, the detector;
then the table with the handlers and senders before it, and the settings with the
alerts.

Next:

1. `Dashboard`: the WebSocket hook with its timers and unmounts, and the first load
   that overwrites the stream.
2. Theorems: what a restart and a reload have in common (`Control`), and the safety half of
   the liveness properties: which step is always possible while one is pending.
