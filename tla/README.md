# mcpglass in TLA+

mcpglass sits between an MCP client and an MCP server. It relays their JSON-RPC
frames, records them in SQLite, refuses the calls its policy forbids and raises
an alert when a server changes the definition of a tool. This directory holds
models of the parts where that is hard to get right, the TLC configurations that
check them, and proofs of their central invariants.

    tlc -config StdioWrap_faults.cfg MCStdioWrap   # one run, up to three minutes
    tlapm StdioWrapProofs.tla                      # the proofs of one module

`PROJECT.json` names, for each run, its module, configuration and properties; for
each definition, the lines of the source it translates; and for each property,
mutants: plausible bugs put into a definition that the property catches. The
mutated forms are the operators named `<Definition>_<Bug>` in the modules. Paths
below are relative to `src/`.

## 1. Inventory

| Component | Source | State | Operations | Modelled in |
|---|---|---|---|---|
| stdio wrap | `crates/cli/src/main.rs` | two pumps, server stdin, shared stdout and its lock, drop latches, bounded tap channel, shutdown phase | read a chunk, decide, inject, forward, refuse, tap, report an event, end of stream, cancel, join, exit | `StdioWrap`, `GatedWire`, `WrapRefinement` |
| newline framing | `crates/cli/src/security.rs`, `crates/proxy-core/src/lib.rs` | buffer, "inside an oversized line" flag | push a read, finish | `FramedStream`, `ReadPieces` |
| storage loop | `crates/cli/src/tap.rs` | pending tools/list ids, pending initialize ids, protocol version and its source | handle a tap, a protocol hint, an event | `StorageLoop` |
| recording order, stdio | `crates/cli/src/main.rs` | what each pump has forwarded and not yet tapped | forward, tap | `StdioRecording` |
| gateway | `crates/cli/src/gateway.rs`, `gateway_config.rs` | a session per upstream, hint latch, handlers in flight | POST, GET, DELETE, hint, limits, gate, faults, relay, SSE stream, hang-up | `Gateway`, with `PolicyGate` and `Injector` |
| tool pinning | `crates/storage/src/lib.rs` (`record_fingerprint`), `tap.rs` | rows of `tool_fingerprints` over three hash generations | re-key, compare, re-pin, insert, alert | `FingerprintStore` |
| fingerprints and identities | `crates/policy/src/lib.rs` | none (functions of a definition, of a command line or a url) | canonical text, the subset of each version, the identity of a server | `CanonicalJson`, `ToolDefinition`, `ServerIdentity` |
| database open and upgrade | `crates/storage/src/lib.rs` | files at the path and its backup, tables, columns, `user_version` | probe, rename, ALTER, create, stamp | `StoreOpen` |
| start-up | `crates/cli/src/main.rs`, `gateway.rs`, `tap.rs`, `crates/dashboard/src/lib.rs` | the proxy's phase, the dashboard's store handle | load configuration, open first, spawn threads, begin sessions, choose a handle, serve | `StartUp` |
| session lifecycle | `crates/storage/src/lib.rs`, `crates/cli/src/prune.rs`, `crates/dashboard/src/lib.rs` | sessions, messages, events, pins, the write lock | begin, insert, end, delete, prune by age, prune by size, dry run | `SessionLifecycle` |
| policy evaluation | `crates/policy/src/lib.rs` | none (a function of policy and frame) | evaluate_request, secret scan | `PolicyGate` (rule matching and the scan's patterns are data) |
| fault injector | `crates/policy/src/inject.rs` | rule counters, random stream | validate, decide | `Injector`, in the gateway; `SeededRuns` for the stream and its seed; `StdioWrap` has a set of possible faults instead |
| SSE splitter | `crates/proxy-core/src/sse.rs` | line and event buffers, skip flags | push | `SseSplitter` |
| replay | `crates/cli/src/replay.rs`, `crates/dashboard/src/lib.rs` | child or HTTP session, what has been read | check the message, spawn, handshake, send, match, time out, tear down | `Replay` |
| attach / detach | `crates/cli/src/clients.rs`, `gateway_config.rs` | `gateway.toml`, client config files, backups | attach, detach, load the table | `AttachDetach`, `ClientEntry` |
| dashboard API | `crates/dashboard/src/lib.rs`, `export.rs`, `crates/storage/src/lib.rs` | none of its own | pages of messages and events, export, latencies, the tool catalog; its deletes are jobs of `SessionLifecycle` | `SessionReads` |
| dashboard frontend | `crates/dashboard/frontend` | hash route, selection, two polled requests | tick, select, delete, heal the selection | `Viewer` |
| export, bloat report, launcher | `crates/cli/src/{export,bloat,dash}.rs` | none | read-only reports; the launcher is an opener of `StartUp` | the launcher only |

How they interact:

- `run_wrap` starts the server process, two pump tasks and one storage thread. The
  pumps share our stdout (a lock) because `pump_c2s` answers refused calls on it,
  and both send to the storage thread through one bounded channel with `try_send`,
  which drops rather than waits.
- The gateway has a handler per HTTP request and one channel and storage thread
  per upstream, shared by every client of it.
- The storage thread owns one SQLite connection. Other processes (other wraps,
  the gateway, the dashboard, `prune`) have theirs to the same file.
- `attach` writes `gateway.toml`, then points clients at routes of it; the gateway
  reads the table once, when it starts.
- The dashboard reads what a storage thread is still writing, and a browser polls
  the dashboard; its replay button starts a server of its own.

What is hard:

- **Concurrency.** The pumps forward first and tap afterwards, as independent
  tasks, so the recording may show an order the wire did not have. Handlers share
  ids, trackers and latches. Processes race over a file and over table rows. A
  page, an export or a browser's selection is made of several reads of what changes.
- **Failure.** A partial write, a full channel, a client that leaves, an insert
  that fails, a process that is killed between two commits.
- **Sequences.** Oversized frames arrive in segments that a latch must tie
  together; a tool definition may go A, B, A under rows of three hash
  generations; handshakes and header hints come in any order.
- **Termination.** A server exits while a pump is blocked on a stdin that nobody
  closes; a replayed server never answers, or never reads.

What makes each component correct, and where it is stated:

| Component | Promise | Property |
|---|---|---|
| wrap | nothing refused reaches the server, segments of an oversized frame included | `GateHolds` |
| wrap | what passes the gate crosses, in order, once; a call is forwarded or answered, never both | `NoTrafficLost`, `ForwardedInOrder`, `OneOutcome` |
| wrap | no synthesized line lands inside a frame | `FramesAtomic` |
| wrap | the recording follows the wire, keeps its order, and a gap in it is announced | `WireBeforeTap`, `TapsInOrder`, `GapsAreLogged`, `OversizedReportedOnce` |
| wrap | a stalled recorder never stalls the wire; the program ends after its server, leaving nothing behind | `WireNeverStalls`, `ExitFollowsServer`, `ExitIsClean` |
| wrap | the whole is a gated two-way wire | `ImplementsGatedWire` |
| SSE splitter | what is tapped is the events of the stream, an oversized one skipped alone | `EventsAsSent` |
| framing | no byte lost, bounded memory, only oversized lines go unexamined | `Lossless`, `ChunksFollow`, `OnlyOversizedRaw`, `Mirrors`, `Bounded` |
| gateway | nothing forbidden or uninspected reaches the upstream; a rule fires at most as often as it may; an exchange whose client stays is on record whole | `NothingForbiddenReaches`, `TriggersBounded`, `ExchangesAccountedFor` |
| storage loop | only tool advertisements are fingerprinted, and every one that was asked for in time; requests are recorded before their responses | `OnlyAdvertisementsPinned`, `AdvertisementsPinned`, `RequestsDrainedFirst` (gateway), `RequestsComeFirst` (stdio) |
| storage loop | the session row shows one handshake, never replaced by a header | `VersionsPaired`, `ProtocolOnlyImproves` |
| pinning | a verdict compares with the latest definition; a baseline survives upgrades; no observation is rejected; a change is alerted | `VerdictsAreTrue`, `BaselineKept`, `OneMatch`, `NeverRejected`, `AlertsAccountedFor` |
| open | whoever opens has the whole schema; a crash half way stops nobody; no file of ours ever looks like a Phase-0 one, and one is taken for it only by a probe in the middle of which it was created | `OpenMeansCurrent`, `FailsOnlyInARace`, `OursNeverLooksLegacy`, `MistakenOnlyInARace` |
| start-up | the threads of one gateway neither fail one another nor swap the database; the Phase-0 file is kept and a dashboard finds what is recorded after it started, unless a probe was overtaken | `ThreadsNeverCompete`, `ThreadsNeverSwap`, `Phase0Kept`, `CatchesUp` |
| lifecycle | no row outlives its session; no row is counted twice; a job that ends has told all it removed; a dry run counts a session once | `NoOrphans`, `EveryRowAccountedFor`, `EndMeansTold`, `DryRunCountsOnce` |
| fingerprints | key order and unknown fields do not count, every change of a covered field does; a newer version covers what an older one does | `NothingElseCounts`, `EveryChangeShows`, `HashAssumptionHolds` |
| identities | two servers have the same identity only if they are the same | `IdentitiesApart` |
| injector | a seed gives the same faults again; every decision is one the proxies' models allow | `SameFaults`, `DecisionsAreAllowed` |
| reads | a walk through pages neither repeats nor loses a row; a latency is that of the answer; the catalog is the latest advertisement on record | `ReadsArePrefixes`, `NothingMissed`, `LatencyIsOfTheAnswer`, `CatalogIsTheLatest` |
| replay | the answer returned is the server's to that request, after a handshake, and is kept; the child is reaped; every replay ends | `AnswerIsOurs`, `HandshakeFirst`, `AnswerIsKept`, `ChildReaped`, `ReplayEnds` |
| attach / detach | detach can give back what the user wrote, or a backup can; no client is sent to another server; exit code 0 means done | `Restorable`, `Recoverable`, `ForwardsHome`, `RoutesKept`, `OneRoutePerUpstream`, `ExitMeansDone` |
| frontend | rows of another session stay only while the answer for the selected one is awaited or its failure told; a choice is kept; a deleted selection moves on | `StaleRowsPass`, `ChoiceKept`, `SelectionHeals` |

Parts of one promise are definitions of their own, with a comment each, and a run
checks their conjunction:

| Checked | Conjunction of | Defined in |
|---|---|---|
| `DeliveredOnce` | `ForwardedInOrder`, `OneOutcome` | `StdioWrap` |
| `TapsFollowWire` | `WireBeforeTap`, `TapsInOrder` | `StdioWrap` |
| `NothingSilentlyLost` | `NoTrafficLost`, `GapsAreLogged`, `OversizedReportedOnce` | `StdioWrap` |
| `StreamKept`; `CapHolds` | `Lossless`, `ChunksFollow`, `Mirrors`; `OnlyOversizedRaw`, `Bounded` | `FramedStream` |
| `ExchangesRecorded` | `ExchangesAccountedFor`, `RequestsDrainedFirst` | `Gateway` |
| `PinsAreAdvertisements` | `OnlyAdvertisementsPinned`, `AdvertisementsPinned` | `StorageLoop` |
| `AlertsAreTrue` | `VerdictsAreTrue`, `AlertsAccountedFor` | `FingerprintStore` |
| `KeysTellApart` | `NothingElseCounts`, `EveryChangeShows`, `HashAssumptionHolds`, `IdentitiesApart` | `MCPinning`, `ToolDefinition` |
| `CrashesAreHarmless` | `FailsOnlyInARace`, `OursNeverLooksLegacy`, `MistakenOnlyInARace` | `StoreOpen` |
| `ThreadsAreSafe` | `ThreadsNeverCompete`, `ThreadsNeverSwap`, `Phase0Kept` | `StartUp` |
| `TotalsAreTrue` | `EveryRowAccountedFor`, `EndMeansTold`, `DryRunCountsOnce` | `SessionLifecycle` |
| `SeedsReproduce` | `SameFaults`, `DecisionsAreAllowed` | `SeededRuns` |
| `PagesTileTheSession`; `AnswersAreMatched` | `ReadsArePrefixes`, `NothingMissed`; `LatencyIsOfTheAnswer`, `CatalogIsTheLatest` | `SessionReads` |
| `ReplayIsOrderly` | `AnswerIsOurs`, `HandshakeFirst`, `ChildReaped` | `Replay` |
| `KeepsItsWord` (one command at a time) | `Restorable`, `ForwardsHome`, `ExitMeansDone` | `MCAttachDetach` |
| `RoutesStable` | `OneRoutePerUpstream`; `RoutesKept`, with one command at a time | `MCAttachDetach` |
| `ShownIsChosen` | `StaleRowsPass`, `ChoiceKept` | `Viewer` |

Each part has a mutant that breaks it.

## 2. The modules

### StdioWrap, with GatedWire and WrapRefinement

A stream is the sequence of chunks `FramedStream` cuts it into: a frame, a `raw`
segment of an oversized line, the segment with its newline (`end`), or what is
left at end of stream (`rem`). A chunk carries what the pumps look at: its shape,
how many security events `evaluate_request` raises on it, whether it has an id.

| Model | Code |
|---|---|
| `sent`, `emitted`, `rd` | the two input pipes and each pump's place in them |
| `toServer`, `stdout`, `lock` | `child_stdin`, `SharedStdout`; every entry is one write |
| `pc`, `fault`, `left` | where a pump is between two awaits, the fault it applies, the events it still has to report |
| `dropping` | `dropping_oversized`, the latch of the `Chunk::Raw` arm |
| `logged`, `chan`, `drained` | the "queue full" latches, the bounded channel, what the storage thread has taken |
| `main`, `storage`, `child` | the place of `run_wrap` in its shutdown, the thread, the process |
| `C2sDecide` | `decide_c2s_frame` and the injector, up to the first await |
| `C2sDropRaw`, `C2sForwardRaw` | the two outcomes of the `Chunk::Raw` arm |
| `C2sWake` … `C2sInject` | the arms of `apply_c2s_fault` and the forward or refusal that follows |
| `C2sTap`, `C2sEvent` | the tap and the `Security` messages, by `try_send` |
| `S2cRead` … `S2cTap` | `pump_s2c`, with `write_frame`'s two writes under the lock |
| `MainReap`, `MainAbort`, `C2sCancel`, `MainJoin`, `MainExit` | `run_wrap` after `child.wait()`: abort `pump_c2s`, join `pump_s2c`, close the channel, join the thread |

Every await is a step boundary, so every interleaving of the two pumps, the
storage thread, shutdown, a disconnecting client and a dying server is explored.

`GatedWire` states the same service with no pump, lock or write in it: two
streams of lines, some client lines refused, a refusal being a line of its own.
`WrapRefinement` maps the pumps onto it: the lines shown are the entries of stdout that
end one (`LineEnds`), in order, and a newline that does not follow its own body ends a garbled
line no abstract step can produce. An oversized line of the client's counts as one
refused line under enforce. The refinement is stated without faults, which break
the promise on purpose, and without oversized lines of the server's, for which the
code does not keep it (`ResponseNeverMidFrame`, section 5).

### FramedStream

Both splitters over one stream of bytes, a read being any piece of it. The action
`Read` is one `push`, `Eof` is `finish`. The loop of `push` over the newlines of the read is
a recursive function of the position (`Passed`, `SplitPassed`), and the bytes after the last
newline follow it. The
cap is compared only with what a read leaves unterminated, as in the code.

### SseSplitter

The splitter that taps a `text/event-stream` body from a copy of the relayed
chunks. `Chunk` is one `push`: the pieces of the chunk go through `EndLine`, what is
left of it through `BufferLine`. `EventsAsSent` compares the payloads with the
events of the whole stream by the rules of the format: a line is named by the position of
its newline, an event by that of its blank line. The
symbol `"data"` stands for the four bytes of that name and counts as one; a cap in the
model is a number of symbols. `ReadPieces` is how both kinds of splitter see a
read. `MCFramedStream` holds both and feeds one of them.

### StorageLoop, StdioRecording

`StorageLoop` is the consumer: `HandleTap` is the whole treatment of one drained
frame by `storage_loop` (both trackers with id reuse and eviction, the recorded
protocol version), `HandleHint` that of a protocol hint. It sees frames only in
the order of the channel. `StdioRecording` and `Gateway` extend it and supply that
order. In `StdioRecording` each pump forwards and then taps; the server may
answer, and send requests of its own, in between.

### Gateway, with PolicyGate and Injector

The handlers of one upstream, its channel and its storage loop. A handler is a
record whose `stage` names the await it stands at:

| Model | Code |
|---|---|
| `Post`, `OfferHint` | `handle_post` up to reading the body; `hint_protocol_version` and its latch |
| `RejectLarge`, `PassUninspected` | the two ends of `read_limit`: 413, or forwarded undecided in monitor mode |
| `Refuse`, `Admit`, `Wake` | `decide_c2s_frame`, the injector, `inject_c2s_gateway` and its sleep |
| `Reach`, `Unreachable`, `Answered` | `send_upstream`; the 502 path; the request tapped once the response has begun |
| `RelayBuffered`, `Deliver`, `RelayUntapped` | `relay_response` of a whole body, `inject_s2c_gateway` and its sleep, a body over the limit or unreadable |
| `RelayStream`, `StreamEvent`, `StreamEnd` | the event stream, which outlives the handler's function |
| `Open` | `handle_get`, `handle_delete` |
| `HangUp` | the client disconnects: the future is dropped at its await, with what it has not yet done |
| `out`, `Enqueue` | messages sent by `try_send` with no await between them, one at a time, as the storage thread drains meanwhile |
| `HandleEvent`, `Drain` | the storage thread |

`PolicyGate` is `evaluate_request` and `decide_c2s_frame` as operators; `Forbidden` is
the policy in the words of `docs/security-model.md`, against which
`NothingForbiddenReaches` checks what was sent. `Injector` is `decide` and its
counters; the random stream is replaced by the set of decisions it can lead to. A `setup`
is a policy, the rules, the record mode, and what clients then send.

### FingerprintStore

The table as a set of rows. `Record` is `record_fingerprint` for one tool, a
transaction: the lazy re-key from the pre-v7 scope, the comparison of each row on
the hash of its own version, the recency rule, the re-pin to the current version,
the insert. `Observe` stamps a response as a pump does; `Alert` is the separate
insert of the event; `Fail` and `Crash` interrupt the thread anywhere. Canonical
JSON and SHA-256 are the constant `Hash`, of which two things are assumed: a
newer version covers whatever an older one does, and versions never collide with each
other. In particular two definitions may have equal v1 or v2 hashes,
the case the versions exist for.

### CanonicalJson, ToolDefinition, ServerIdentity

What the table takes for granted. `CanonicalJson` is `write_canonical` and
`hash_subset` over JSON values; a text is a sequence of tokens and stands for its
SHA-256, which is taken to be free of collisions. `ToolDefinition` has the subset
each version hashes, and checks the two assumptions `FingerprintStore` makes of `Hash`
(`HashAssumptionHolds`); `ServerIdentity` has the identity of a command line
or a url. Both are one step from any value to any other, so that every pair is
compared. `MCPinning` holds them and the table, and assumes (TLC evaluates it) that
the instance's `PrefixHash` equals the hashes of real definitions.

### StoreOpen, StartUp

`StoreOpen` has processes that run `open_with_log` or `open` one statement at a time,
each of which SQLite commits by itself, the final creating batch excepted, and which
may be killed between any two. The Phase-0 probe is such statements too: `Exists`,
`ReadVersion`, `ReadTables` are `is_legacy_v0`'s look for a file, its `user_version` and its
tables, with anything in between. A database is what the openers look at: its tables,
its later-added columns, its version. Four columns stand for all of them, so that
a file can lie between two columns of one table and between two tables.

`StartUp` gives the openers their roles: the gateway's open before its threads, the
storage threads (one of them serves a wrap), the dashboard's cached connection and the
connections of its requests. `Configure` and `ConfigureWrap` are what may stop a
proxy before it opens anything; `Spawn`, `BeginSession`, `End` and `Restart` follow
`serve` and `storage_loop`; the reader `Chooser` is the probe of the dashboard's `serve`, on whose
verdict it keeps one connection (`Cached`) or opens one for each request; `Ask` and `Answer`
are `run_blocking`. The history `misled` has who took a file of ours for a Phase-0 one.

### SessionLifecycle

Storage threads that begin sessions and append to them, and deleters with one job
each: delete a session (dashboard), prune by cutoff, by size, by both, dry or
not. A delete is `BEGIN IMMEDIATE`, the rows, the session, commit; the database
has one write lock; a row that references a missing session is refused. `Measure` and
`PickOldest` are the two reads before each delete of `prune_to_max_size`. A session
row, a message and an event each use one unit of space.

What a job has counted is in `stats` until it tells its user (`Report`): `mcpglass prune`
after each condition, the dashboard in its one response. `Fail` may come at any statement, and
drops what was not told yet (`lost`), as the `?` of `prune_to_max_size` and of the handler and the
error arms of `prune.rs` do.

### SessionReads

Extends `StdioRecording`: its storage thread's frames become rows, in the order they
are drained, and a reader looks at them meanwhile. A list is `COUNT` and then
a page, each a statement (`CountRows`, `ReadPage`), and the client asks for the next page as
`Pagination` allows; an export reads the session row, the messages and the two
event tables one after the other; another process may delete the session between
any two statements. `Paired` is the pairing of `stats`, `Catalog` that of
`latest_tools_list_raw`, and they are compared with who answered what on the wire.

### SeededRuns

Two runs of a proxy with one inject file and one seed. A random stream is a sequence of
draws, the same in both runs; the pumps come to the injector in any order. `Valid` is
what `from_toml_str` accepts. `DecisionsAreAllowed` ties it to `Injector`, the
operators `Gateway` uses.

### Replay

The exchange of `replay.rs`, `phase` being the await it stands at, against a server
that is modelled by what it can do: read or not, answer late or never, speak unasked,
exit, keep a session, stream. `LookUp` is every check on the recorded message;
`Spawn` … `ReadAnswer` are `stdio_exchange`, with pipes that fill up; `GotInit` … `SseEnds`
are `http_exchange`; `Timeout` is the timer around each; `Teardown` and `Delete` are
what runs outside of it; `Leave` is the dashboard client that hangs up.

### AttachDetach, ClientEntry

`ClientEntry` has the pure transforms of one server entry and the allocation of a route;
`AttachDetach` the commands: read each file and plan (`ReadFile`, `AttachStdioEntry`,
`AttachUrlEntry`, `DetachEntry`, `SkipEntry`), save the table (`Save`), replace each
changed file (`CommitFile`), with a failure at each write and a kill anywhere. The user
edits entries while no command runs, `gateway.toml` may become unreadable, a
gateway loads the table when it starts. `mine` is what the user last wrote: what a
detach has to give back.

### Viewer

The browser: the list and the page, each with a request in flight that a new tick
or selection aborts, the hash and the route rendered from it, the effect that moves
a selection that is not listed. A hook whose deps change keeps the data it has (`Loading`), and
the table shows its skeleton only without rows: what `page` has is what is drawn. `browser` says whether a changed hash is rendered
before anything else happens, and whether the user follows links to any session.

`MCDashboard` has both parts of the dashboard, `Replay` and `Viewer`, in worlds of their own.

## 3. The runs

CHECK_DEADLOCK is FALSE in each configuration because each of these systems may
really stop: the client has closed, the program has exited, every process is
through, the caller has gone, or the bound on inputs is reached. That the program does
not stop *before* its work is done is `ExitFollowsServer`, `WireNeverStalls`, `ReplayEnds` and
`SelectionHeals`.

Some runs have *worlds*: a variable `world`, fixed in the initial state, says which
of several parts of one MC module takes steps, or under which bounds; the other parts
keep one value. The properties are checked in every world, or name the one they are
about.

| Run | Configuration | Bounds and worlds | Shows |
|---|---|---|---|
| `wrap_duplex` | `WrapRefinement_duplex` | enforce; channel of 1; 2 client lines of two kinds (passed, refused, unanswerable) beside 1 server line, or the client alone: 3 lines of calls and segments, or 4 segments | the pumps implement `GatedWire`; no refused byte reaches the server; each oversized frame raises its event once, two in a row included; nothing lost, frames atomic, wire before recording, recording in order, gaps announced, a clean exit |
| `wrap_faults` | `StdioWrap_faults` | monitor, `--record off`; all four faults; one chunk of every kind and a remainder each way; channel of 1 | what does not cross has its fault on record; order kept; one outcome per frame; the wire never waits for the recorder; the program exits after its server, with a client that never closes |
| `framing` | `FramedStream` | all streams of 8 bytes (two letters and newline), reads of up to 4, cap 2; all event streams of 7 symbols, chunks of up to 2, caps 1 and 3 | nothing lost, the chunk grammar `StdioWrap` assumes, agreement of the two splitters; and the event splitter |
| `stdio_recording` | `SessionReads_recorded` | 3 ids, each used once by the client; channel and trackers of 2; 4 frames; a reader with one of 5 jobs, pages of 1 row, 2 events of a table. `MCReading`: a job is at work, or the session gone, only with up to 3 frames. Symmetry: the ids | what is fingerprinted is an advertisement, one drained after its request is fingerprinted; latencies and the catalog; pages and exports |
| `stdio_overtaken` | `StdioRecording_overtaken` | 2 ids, nothing full | *violation*, section 5 |
| `gateway` | `Gateway_worlds` | world "gateway": 1 client, ids 1 and 2, 2 handlers; channel and trackers of 2; 3 frames; three setups: observing (monitor, no faults, GETs), refusing (enforce, `--record off`, oversized bodies, calls with and without name and id), faulty (monitor, rules in both directions). World "seeded": 2 or 3 rules with the probabilities 0, a half, 1 and one out of range, 2 frames each way, every stream | nothing forbidden sent; faults bounded; exchanges on record; requests drained before responses; a header never replaces a handshake; one handshake on the row; a seed repeats its faults where the rules that draw are of one direction; the decisions are those of `Injector` |
| `pins` | `FingerprintStore_pins` | world "table": 2 servers wrapped at once, 2 tools, 4 definitions that differ in the fields v1, v2 and v3 cover, v1 and v2 rows to start from, 4 responses, 1 mishap. World "tools": every pair of some hundred definitions, schemas nested twice. World "servers": every pair of command lines of up to 3 tokens of up to 2 words, and urls | baselines survive an upgrade; verdicts are about the latest definition of that server; no constraint error; an alert is missing only after a mishap; hashes change when, and only when, they should; identities are apart |
| `open_upgrade` | `StoreOpen_worlds` | absent, Phase-0 or old file; 4 columns. World "alone": 2 writers and a reader, 2 kills, renames that fail. World "started": a wrap or a gateway of 2 upstreams, one restart, a dashboard and a request of it, every configuration, renames that work | whoever opens has the schema; a failure, and a mistaken probe, need a second process at work; what a kill leaves never looks like a Phase-0 file; the threads of one gateway do not fail one another and swap nothing; the dashboard catches up unless a probe was overtaken |
| `store_probe` | `StoreOpen_probe` | absent file, no kill, no failing rename | *violation*, section 5 |
| `lifecycle` | `SessionLifecycle_jobs` | 2 sessions of up to 1 message and 1 event; a request of the dashboard and `mcpglass prune` with one of 9 pairs of jobs (`Pairs`): deletes and prunes that want the same sessions, each kind of dry run beside one that removes; any statement fails | no orphan row; every row in the store or counted by one job; a job that ends has told all it removed; a dry run with one condition counts a session once |
| `attach` | `AttachDetach_worlds` | 2 names of one route, 2 upstreams, 2 ports, 2 routes each. World "alone": one command at a time over two files, entries of 6 shapes and missing or garbled files. World "rough": two commands at once over one file, an entry in one of two scopes, `gateway.toml` that may become unreadable | detach gives back what the user wrote at every moment; no client reaches another server; exit code 0 means done; what detach cannot restore is in a backup; one route per upstream |
| `dashboard` | `Dashboard_worlds` | World "replay": 10 kinds of recorded message, both transports; pipes of 1 frame; 3 frames unasked; 2 stream events; a server that keeps quiet until it has answered initialize, whose own ids are not the replayed one. World "viewer": 2 sessions, 2 requests of a hook in flight, any of them lost or late; a prompt browser without links, and one with neither | the right answer, after a handshake, kept; the child reaped; every replay ends. Rows of another session pass; a choice is kept; a selection whose session is gone moves on |

Why the bounds are enough. The pumps keep no memory of earlier chunks other than
the oversized latch and the drop latches, so two chunks in a direction show every
pair of neighbours, and four segments give two oversized frames in a row.
Faults act on one frame at a time. A channel of one slot makes "full" the common
case. A frame meets the cap in `framing` within two reads, and eight bytes hold an
oversized line between ordinary ones. Seven
symbols hold two events of a data line each, and with a cap of one or three an
oversized line or event beside one that fits. Handlers meet only in the channel,
the counters, the latch and the trackers: two in flight show every race over
them, and a rule limited to one trigger is used up by the first. Two of the three
frames can be requests, which meet in flight, or one can be a request and two the
messages of its stream. The trackers of two entries evict at the
third id. Two rows drained against their time stamps are the smallest disorder a
page can show, and with a page of one row every row is at a boundary. A tool history
needs three rows for A, B, A and a fourth response to
return to one of them. Races over a file or a row are between two processes; a
third is added where it only reads, and two threads beside the first open are what a
gateway's threads race with. Two sessions tell "oldest" from "next". Two upstreams and two names of
one route give every collision of routes; two commands every overlap, and each is
killed or fails at any of its writes. A replay has one exchange; three frames
unasked put one before, between and after the two answers. A browser compares one
list with one route: the session selected, and another to move to.

**Fairness.** `wrap_faults` and `dashboard` use it.
`WireSpec` has weak fairness of each pump and of `run_wrap`: they are tasks on a
multi-threaded tokio runtime, polled again whenever they can move. Nothing is
assumed of the client, of the
server or of the storage thread, so the run covers a recorder that stalls for ever.
`ExitFollowsServer` alone is conditional on weak fairness of the storage thread, an
operating-system thread that `run_wrap` joins before it returns. `Replay` has weak
fairness of replay's own steps and of its timers, which tokio fires; the server owes
nothing. `Viewer` has weak fairness of the interval timer and of `hashchange`, events the
browser delivers; the timer runs only while auto-refresh is on (`App.tsx:90`) and the
tab is visible (103-104), so `SelectionHeals` is about such a page. It has strong fairness of the
list's being served and arriving: each tick aborts what is in flight, so it is needed, and it says that now
and then an answer takes less than an interval. No run of the wrap has a full pipe: a
peer that reads nothing can stop its own direction in the code, by design; `Replay` has
full pipes.

## 4. Proofs

Eight modules hold the theorems; each holds for every value of the constants that
the module's ASSUMEs admit: any streams, any mode, channel capacity and fault set;
any servers, tools, definitions, sessions and starting rows; any policy, rules,
clients and handlers; any names, routes and client files; any recorded message, server and pipe; any number of openers,
columns, upstreams, restarts and deleters. A hypothesis beyond those is in the
statement of the theorem, and below; where a run meets it the MC module assumes it by
name, so that TLC evaluates it, and where the code breaks it section 5 has the counterexample.

**StdioWrapProofs**, of the wire. `TypeCorrect`: cursors stay inside their streams only because a
pump that is at work has a current chunk, so the invariant is `TypeInv`, `TypeOK` with
`BusyInv`. Every other wrap proof uses it.
- `GateAlwaysHolds`: `GateHolds` says nothing of a frame that has been decided and
  not yet written. `GateInv` adds that a pump that has cleared the gate holds a
  chunk that may pass, and that what was forwarded is at most the cursor.
- `ForwardingKeepsOrder`, `OutcomeIsUnique`, and `EachDeliveredOnce` of both: `OutcomeInv` adds that the current
  chunk is in neither output until its wire action is over, and that no answer is
  about a chunk the pump has not reached.
- `FramesStayWhole`: `FramesAtomic` is not inductive without knowing who holds the
  lock. `LockInv` ties the lock to the places of the two pumps and says that stdout
  ends in a body without its newline only while `pump_s2c` is about to write it, or
  has given up because the client is gone.

Of what the database says of the wire:
- `RecordFollowsWire`: `RecordInv` says of each message reported (recorded or in the
  channel) what its pump has done by now, as `PlaceInv` says where each line of the
  two outputs stands; order follows because a pump reports only of its current chunk.
- `NothingLostInSilence`: `SettledInv` strengthens `NoTrafficLost` by the answers that
  are due; `CountInv` says how many of the current frame's messages are out, still
  owed, or were dropped after the latch was set; `OverInv` ties the count of oversized
  events to the chunks that open or close an oversized frame, which needs the chunk grammar
  (`StreamInv`, what `FramedStream` promises of its streams).
- `ExitAlwaysClean`: `ExitInv`, the order of the teardown.

**StdioWrapProofs**, of the refinement. `PumpsImplementWire`: `Spec => Wire!Spec` under the mapping of
`WrapRefinement`, by step simulation. The hypotheses are those of the refinement: no
fault injection, and server lines under the frame cap. What the abstract wire shows is
the lines of stdout in order of their newlines; `RankInv` says that they are numbered
without a gap, so that a write adds the next one; `AddressedInv` that only a frame with an
id is answered. `GateInv`, `AtomicInv` and `PlaceInv` do the rest.

**FingerprintProofs.** `TableTypeCorrect`, `OneRowClaims`, `NothingIsRejected`: the
invariant `TableInv` says of the table that it is `Sound`: rows are shaped, ids are
used once, two rows of one scope and tool never match one definition (`Distinct`),
and a server and its legacy key never both hold rows of one tool (`Apart`). `Apart`
is what makes the re-key safe against the UNIQUE index, and `HashAssumption` is
what makes the re-pin safe: rows that are told apart by an old hash are told apart
by a new one. `LegacyRowsAssumption` says that the release that left the rows kept
them by the same rules, which the runs' `OldRows` satisfy.
- `UpgradeKeepsBaselines`: `FirstInv` says that until a tool of a server is observed, its history
  is the legacy one, re-keyed or not, row for row. Under `OwnLegacyKey`: the table cannot
  tell two servers apart that had one key before schema v7.
- `AlertsTellTheTruth`: `LogInv` ties the log to the table: the row that leads a tool's
  history is the one its last observation matches, and its time stamp is that of the
  observation. `OwedInv` counts the changes: alerts made, owed, or lost to a mishap.
  The three hypotheses are needed: `OneProxyEach`, as two proxies of one server stamp out of
  order; `NamedOnce`, as the rows of one response carry one time stamp, and a tie
  is broken by row id, not by order of observation; `HashCovers`, as what version 3
  does not cover is not seen to change.

**GatewayProofs**
- `GatewayForbids`: `NothingForbiddenReaches` says nothing of a handler that has
  been admitted and waits, to send or for its fault's delay. `GateInv` says of every stage
  that comes after the decision that the handler's request is one the policy allows,
  inspected where the mode is enforce, and of those before it that the request is
  as it was posted.
- `GatewayProtocolImproves`: `SourceInv` bounds what a drained frame or hint can
  make of the source of the protocol version.
- `TriggersStayBounded`: the events of a rule on record, on the way, and still owed by a
  handler (its fault is decided and not yet reported) are `MarksOf` the rule. `CountInv` says that they are
  finitely many, at most as many as the rule's counter, which stays within the rule's
  maximum. `StampInv`, as everywhere below, tells two frames apart by their time stamps.
- `ExchangesStayRecorded`: `ToldInv` says, stage by stage, what a handler that has gone so
  far has handed over or holds ready; `OrderInv` that no answer is anywhere while its request waits
  to be recorded, and that the two have their places in channel and record.
- `HandshakesStayPaired`: while an id is in flight or tracked it names one request
  (`NameInv`), the proposal kept under it included. Under `OneClient`: handlers of several
  clients share the trackers, and the ids of two clients meet (section 5).

- `SeedsAlwaysReproduce`, of the injector itself: `SeedInv` says of each direction that its faults
  so far are what follows from its frames (`Follows`: a fault is determined by those before it, as the
  counters and the draws used are numbers of them), of the counters and of the stream that they are where these faults
  put them. Two lists that follow from the same frames are one (`OneCourse`). Under
  `OneDirectionDraws`, as in the run (section 5 has the other case).

Every step of a handler is first shown to be a `Turn` (what it does to its record, the
channel, the counters and the clock), and the invariants are carried over turns.

**StoreOpenProofs.** `OpenerSeesSchema`, `KilledOpenersHarmless`, and both again of the
composition with a proxy's life, `StartedStoreIsSound`. `StoreInv` says of every file (`FileInv`)
that the stamp of the current version means the whole schema, and that a file of ours without
a stamp has no table yet; and of every opener (`OpenerInv`) that no column before the one it is
at is missing, however many others have altered the file since, and that what it has read of its
file, for the probe or for an ALTER, is still so, or it has `raced`.
- `ThreadsNeverHarmEachOther`, `RequestsCatchUp`: `ProxyInv` has the phases of a proxy and of the
  dashboard, `FirstInv` what the first open leaves for the threads. `UntouchedInv` says that nobody works
  on a Phase-0 file that is still at the path, and `SwapInv` that the gateway's first connection
  stays on the file at the path, so that no thread finds anything to swap. `MisledInv` ties the
  history to the verdicts; `PlaceInv` and `SessionInv` say which of the files made is at the path, in
  the backup, or open, while no one was misled. Under `[][Moved]_startVars`, no rename fails, as in
  the run: a Phase-0 file that stays where it is is opened by no one. That an overtaken
  probe really has the consequences `misled` admits is in section 5.

**SessionLifecycleProofs** — `NeverOrphans`. A delete removes the rows and the
session in steps of its own, so the committed tables alone are not inductive: `TxInv`
says what a transaction in progress has removed so far, `LockInv` that there is one.
`TotalsStayTrue`: `BookInv` balances, field by field, what was accepted with what is held and
what is gone (`Removals` of each job: counted, told, or lost by its failure), and only a commit
moves rows from one to the other (`CommitStep`, from `RemovalCounts`); telling and failing move them
among the three. `JobInv` says what a deleter is about to remove, that nothing is lost before it
fails nor kept back once it is done, and that a dry run is
never in a transaction and previews once. The sums are `MapThenSumSet`: that one may be
taken apart in any order (`TotalTakes`, `TotalSplits`) is an induction over the subsets of a
finite set (`SubsetInduction`). It is under `OneCondition`, as in the run: a dry
run with both conditions is in section 5.

**SessionReadsProofs.** `WireInv` is what holds of the frames there are, on the wire, owed
by a pump, in the channel or drained: their stamps tell them apart, each answers one older
frame of the other side, an id of the client's names one request, and each pump's frames
are in order. The first three are under `FreshIds`, as in the run: a client that uses an id again
is in section 5.
- `AdvertisementsArePinned`, `ReadAdvertisementsArePinned`: `TrackInv` says that an entry of
  the tracker is a request that was drained, `HeldInv` that a request drained and not
  answered is in the tracker unless as many others have come since as it holds: whoever is evicted is
  the oldest, so all that were spared came later (`PushedOut`).
- `ReadsMatchAnswers`: with `RowsInv`, the rows are what was drained, the two reads search the
  same set of rows as the one that holds the answer, and it has one member at most.
- `PagesTile`, for any ids: `ReaderInv` says that a reader about to fetch has all rows before his
  offset, and that the total he was told covers what was there when he began. That one
  more row of a session adds one row to a list at the end, or none (`MatchingGrows`), is an
  induction over the rows, done with sets: a set of numbers that has 0, and with each number the next,
  has all of them (`ByInduction`, from the well-foundedness of `<`).

**CommandProofs**, of the commands around the proxy. First attach and detach. Of one entry: detach
undoes each transform, with the table of routes attach left (`WrapRestored` of a command line, `RoutedIs` of a url) and with
any later one (`RestoredLater`), because a table only grows while commands do not overlap (`Keeps`).
- `AlwaysRecoverable`, `WorldsRecoverable`: whatever overlaps, `SharedInv` is the types, `SafeInv` (what is at a
  place is what the user wrote, or a backup has that), and `RoutesInv`: every table, on disk or in a
  command's memory, is `Tidy`, without a gap among the routes of a name and without two for one
  upstream. A new route takes the first free number, so `Tidy` is what makes it a new one.
- `OneAtATimeKeepsItsWord`, and `AlwaysKeepsItsWord` of the run's worlds: `AloneInv` holds where one command runs at a time over a table that
  stays readable. `FilesInv` says that detach would restore every place as it is now.
  `BusyInv` says it, entry by entry, of what a command plans to write, with the table it has in
  memory: so a kill between two files is harmless. It says too that what is in memory is the
  table until a route is added and again once it is saved, and that a file not to be written has
  nothing planned, which is why exit code 0 means done.
- `RoutesStayStable`: no upstream gets a second route of one name, and none that is there is changed.

The constants are any names, upstreams, ports, places and entries; that no server is named `--`
and that no entry has an empty `args` is assumed, and section 5 says what happens otherwise.

Then a replay, whatever the message, the server and the pipes.
- `ChildAlwaysReaped`: `ChildInv` says which phases have a child, and which way out passes
  `Teardown`. `AnswerSticks`: `KeptInv`, the phases after an outcome.
- `HandshakeAlwaysFirst`, for servers that are quiet first: `HandshakeInv` has what is in the pipes,
  and who has read what. `AnswerAlwaysOurs`, where no server uses the replayed id: `ResultInv` says
  of every frame on the stream that one with the replayed id is the answer. `AlwaysOrderly` of
  the three. The two conditions are the ones without which TLC refutes the properties (section 5).

Last, the page of the dashboard: `ShownStaysChosen`. `PageInv` says that whatever request a hook
still listens to is for the session rendered, and that one is on its way wherever the rows are
another session's and no failure is told, so a late answer to an earlier one changes nothing. Of
the choice, `ListInv` says that one list is waited for and that its answer, once served, has every
session that is shown and still exists: ids are never given out again, and the
requests before it were aborted. So the effect that heals the selection finds the one
that was chosen (`ChoiceInv`). Neither needs the fairness in `ViewerSpec`.

**FramedStreamProofs**, of the three splitters, for any stream, any cap and any way of cutting the
stream into reads. What a loop over the newlines of a read makes of the bytes it has passed is a recursive
function; that it exists and takes the steps it should (`FitsChosen`, `FitsIs`) is an induction over the
position, done with sets, and every invariant below is shown at every position of the loop.
- `StreamIsKept`, `TheCapHolds`: `Framing` says of the framer after any part of a stream that its
  chunks and its buffer are that part, that the chunks have their shape, that the buffer has no newline and is
  within the cap, and that the flag is set just in the middle of a line already started. `Twin` says that the tap-only
  splitter has the same buffer and flag, and the frames among the chunks. `FramedInv` adds the end of the stream.
- `EventsComeAsSent`: `Right` says of the event splitter what it has after any part of a stream: the
  line without its newline, unless it is too long, the data lines of the event so far, joined, unless the event is
  to be skipped, and the payloads of the events before. The reference looks at the whole stream, so what
  it says of a position must not change as the stream grows: lemmas about the first part
  of a longer stream say so of its lines, its blank lines, the joined data and the payloads.

Only model-checked, with the bounds above:
- the liveness properties (`WireNeverStalls`, `ExitFollowsServer`, `ReplayEnds`,
  `SelectionHeals`): fairness and ENABLED are outside what these provers do;
- `KeysTellApart`: `Canonical` and `Same` are RECURSIVE, over values nested to any depth;
- `RequestsComeFirst` and `ProbeIsRight`, which TLC refutes (section 5).

`OneMatch` and the type invariants are proved and not in a run.

## 5. Where the code and its texts disagree

Two are regular runs whose property TLC refutes. `stdio_overtaken`: a tools/list
response can be tapped before its request and is then never fingerprinted; the
comment says that it cannot (`crates/cli/src/tap.rs:222-225`). The proxied traffic is unaffected.

`store_probe`: `is_legacy_v0` reads the version, then the tables
(`crates/storage/src/lib.rs:1963-1973`). Where another process creates the database in between, the
probe answers that a fresh file of ours is a Phase-0 one; the comment at 500-503 says that it
never does, because the creation is one transaction. The creation is, the probe is not. A writer that was
so misled renames the file, over the only backup of a Phase-0 file if there is one
(`Phase0Kept` without its second half); a dashboard keeps an empty store in memory, or stays
on the file that was renamed away (`CatchesUp` without its second half).

The others are found by a change to a regular configuration. Take the file named,
make the changes, check the property in place of the file's own, and TLC shows the
behaviour, mostly within seconds. ("Without" names an assumption of the MC module that the
change breaks, and that has to be commented out: the hypothesis of a theorem.)

| Configuration | Change | Property | Behaviour |
|---|---|---|---|
| `StdioWrap_faults` | `Mode = "enforce"`, `Faults = {}`, `ClientChunks <- RefusedClient`, `ServerChunks <- OversizedServer`, `MaxServer = 2` | `ResponseNeverMidFrame` | A refusal lands between two segments of an oversized server line: the lock is taken per segment (`cli/src/main.rs:1020`; its comment at 1014 knows; the one at 395 does not). |
| `StdioRecording_overtaken` | `FreshIds = FALSE` | `OnlyAdvertisementsPinned` | A client that uses an id again at once: an ordinary response is fingerprinted as an advertisement (`cli/src/tap.rs:353`, against `tap.rs:13-17`). |
| `Gateway_worlds` | `Ids = {1}`, `Clients = {1, 2}`, `Setups <- OnlyPlain`, `MaxFrames`, `ChannelCap` and `TrackCap` 4, without `HandshakesApply` | `OnlyAdvertisementsPinned` | The same between two clients of one gateway upstream that share an id (`cli/src/gateway.rs:348`). |
| `Gateway_worlds` | `Ids = {1}`, `Clients = {1, 2}`, `MaxFrames = 4`, without `HandshakesApply` | `VersionsPaired` | The session row pairs the proposal of one client's handshake with the selection of another's (`cli/src/gateway.rs:348`). |
| `StdioRecording_overtaken` | `Recording = FALSE` | `AdvertisementsCompared` (PROPERTY) | `--record off` enqueues no tap, so no `fingerprint_change` is ever raised (`cli/src/main.rs:1077`); the option's comment (118-121) has security events "always recorded regardless". |
| `Gateway_worlds` | — | `FlaggedCallsRecorded` (PROPERTY) | A client hangs up while the call it was flagged for is at the upstream: the handler is dropped before it records the call or its events (`cli/src/gateway.rs:345`, `docs/security-model.md:119`). |
| `Gateway_worlds` | `Files <- BothDraw`, without `SeedsApply` | `SameFaults` | Rules of both directions draw from one stream in the order the pumps come to the lock: the same seed gives other faults (`policy/src/inject.rs:239`; line 25 and `docs/configuration.md:74` promise reproducible runs). |
| `FingerprintStore_pins` | `LegacyKey <- SharedKey`, `LegacyRows <- SharedRows`, without `TheoremsApply` | `BaselineKept` | Of two servers that shared one legacy key, one inherits the whole baseline and the other starts afresh (`storage/src/lib.rs:1229`, against `tap.rs:195-198`). |
| `FingerprintStore_pins` | `ServerOf <- TwoSessions`, without `TheoremsApply` | `VerdictsAreTrue` | Two sessions of one server: the one that lags sets `last_seen` back, and the other's verdict is about the wrong row (`storage/src/lib.rs:1360`). |
| `FingerprintStore_pins` | — | `ChangesAreAlerted` | A crash or a failed insert between the transaction and the alert loses the alert for ever (`cli/src/tap.rs:457`). |
| `StoreOpen_worlds` | — | `EveryOpenerSucceeds` | Two wraps started together on a new or old database: one may fail to open and records nothing (`storage/src/lib.rs:470-477`). |
| `StoreOpen_worlds` | — | `OnlyPhase0Discarded` | Two wraps started together on a Phase-0 database: the second renames the first one's new file over the backup; and a sidecar of a file a dashboard has just made may be removed (`storage/src/lib.rs:1994`, against 1982-1985). |
| `StoreOpen_worlds` | — | `FallsOpen` | A Phase-0 file that cannot be renamed: the creating batch has an index on a column it lacks, so the opener fails (`storage/src/lib.rs:540`; 2007-2008 says "a hard failure is not" acceptable). |
| `SessionLifecycle_jobs` | `SPECIFICATION Spec`, `Jobs <- MCBothJobs`, without `TotalsApply` | `DryRunCountsOnce` | A dry run with both conditions counts sessions twice (`cli/src/prune.rs:104`, `docs/cli.md:210`). |
| `SessionLifecycle_jobs` | — | `EventsAlwaysRecorded` | Deleting a running session ends the recording of its events (`storage/src/lib.rs:1089`, `docs/security-model.md:117`); `docs/cli.md:225` expects orphaned rows instead, which `NoOrphans` excludes. |
| `SessionLifecycle_jobs` | — | `FailuresTellToo` | A prune fails after it has removed sessions: its totals are dropped with the error, and those rows are in no report (`storage/src/lib.rs:1634-1646`, `cli/src/prune.rs:119-122`, `dashboard/src/lib.rs:400`; "returning the row counts removed", 1627). |
| `SessionReads_recorded` | — | `BundleIsFull` | An export whose session is deleted between two of its statements answers 200 with a message count and no messages (`dashboard/src/export.rs:40`, `dashboard/src/lib.rs:435`: "the full session"). |
| `SessionReads_recorded` | — | `OnePairingRule` | A server's own request carries the id in flight: `stats` takes it for the response, `latest_tools_list_raw` does not (`storage/src/lib.rs:1074`; 1056-1057 has them use one rule). |
| `Dashboard_worlds` | `Chatty = TRUE` | `HandshakeFirst` | A server that speaks first gets the replayed request before its handshake is answered: the first frame is taken for the initialize response (`cli/src/replay.rs:389`). |
| `Dashboard_worlds` | `OwnIds = {1}` | `AnswerIsOurs` | A request of the server's with the replayed id is returned as the answer (`cli/src/replay.rs:410`). |
| `Dashboard_worlds` | — | `AlwaysKilled` | The dashboard client hangs up during a replay: the exchange is dropped, and the teardown with it (`cli/src/replay.rs:364`, "the child is always killed on the way out"). |
| `AttachDetach_worlds` | — (overlap alone: `CanDamage = FALSE`) | `Restorable` | Two commands that overlap, or an attach after `gateway.toml` became unreadable, save a table without the other routes: detach cannot restore those urls (`cli/src/clients.rs:98`, `gateway_config.rs:40`). The backup has them (`Recoverable`). |
| `AttachDetach_worlds` | `Stdio(<<>>)` among `MCShapes`, or a name `"--"` | `KeepsItsWord` | An empty `args` array comes back as no key (`cli/src/clients.rs:591`); for a server named `--` detach takes the name for the separator (577). |
| `Dashboard_worlds` | — | `KeptChoice` | A link to a session the list does not have yet is taken for a deleted one (`frontend/src/App.tsx:187`); a list that arrives between the write of the hash and its `hashchange` undoes the choice (186). |

One more is in the model as the code has it, and no document speaks of it: after another session is
selected, the rows of the one before stay on the page, without a sign that they are old, until
the answer comes (`useApi.ts:50-52`, `MessageTable.tsx:10-11,42-43`). `StaleRowsPass` says how long.

## 6. What is left out

- In the modelled parts: spawning and exit codes, read errors (they take the
  end-of-stream path), a panicking decision or poisoned lock (both fall back to
  forwarding), pipes of the wrap that fill up, the stderr copy, file permissions, VACUUM, SQL
  text, number and date parsing.
- Of `StoreOpen`: a connection or a probe that SQLite refuses. Of `SessionLifecycle`: a preview reads in
  one step what the code reads in several statements; VACUUM is a step that may fail and no more; the
  command's line on `--max-size` and its closing one name no events, and count as telling them.
- A composition of the recording with the pins: `SessionReads` says which frames are
  taken for advertisements, `FingerprintStore` what becomes of one, and no module
  carries a frame through both.
- Of the gateway: Origin and Host checks, header filters, a decision that panics, and
  a second upstream, with which it would share the injector's counters. An event the splitter skips is handed on
  untapped, which `SseSplitter` covers and `Gateway` does not repeat.
- The xorshift function: a seed is a stream of draws. In `StdioWrap` the injector's rules: any
  fault of a set may hit any frame there.
- Of `StartUp`: two proxies that start at the same time (that is `StoreOpen`'s other
  world), and a Phase-0 file that cannot be moved under a gateway.
- Of `AttachDetach`: what a client writes to its own file while a command runs, two
  backups within one millisecond, an entry of the user's that already points at the gateway or
  is a wrap, the paths per platform, the report.
- Of `Viewer`: an event, its render and the effects are one step; filters, tabs and
  everything that is only drawn. Of `SessionReads`: a clock that is set back; the
  loopback guard and the JSON of the answers.
- Regular expressions, masking and the SHA-256 function (taken to be without collisions).
- Read-only reports keep no state that the rest depends on.

## 7. Plan

What could come next, in order of worth.

| Module or theorem | Composes | Questions |
|---|---|---|
| `RecordedPins` | `StdioRecording`, `FingerprintStore` | from tap to alert |
| `GatedService` | refined by `Gateway` | a gated request/response service: an exchange is refused, answered or failed, once |
| `Injector` in `StdioWrap` | the two pumps | rule order and counters shared by two directions |
