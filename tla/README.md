# A TLA+ model of mcp-vcr

mcp-vcr records, replays, compares, audits and fuzzes sessions of the Model
Context Protocol. This directory holds TLA+ modules for the parts of it where
order, failure and concurrency matter, TLC configurations that check them on
small instances, and TLAPS proofs of the results that matter most. Every
definition is translated from the code; `PROJECT.json` ("map") names the lines.

## The system

| component | source (`mcp_vcr/`) | state it keeps | operations | module |
|---|---|---|---|---|
| pumps and shutdown | `transports/__init__.py` | two tasks, `shutdown_event` | read, observe, forward; choose a shutdown; cancel; flush | `Proxy`, `SseProxy` |
| stdio transport | `transports/stdio.py` | subprocess, its pipes, asyncio's write buffer | start, read, write with back-pressure, shutdown with timeouts and kill | `Proxy` |
| interceptor | `interceptor.py` | observed messages, pending write tasks | `observe`, `flush` | `Proxy`, `Journal` |
| recorder | `recorder.py` | the transcript file, lazy metadata | `start_session`, `write`, `close` with backfill | `TranscriptFile` |
| SSE transport | `transports/sse.py` | HTTP session, reader task, bounded queue | POST, parse the event stream, sentinel, shutdown | `SseProxy` |
| fuzzer | `fuzzer.py` | transport, restart budget, verdicts | start or restart, run a case, judge | `Fuzzer` |
| generator | `generator.py` | transport, pages, cursors, results | discover, call the tools, write the snapshot | `Generate`, `Exchange` |
| active auditor | `active_auditor.py` | transport, restart budget, findings | start or restart, send a canary, judge | `ActiveAudit`, `Exchange` |
| replay | `replay.py` | what is left to send, responses | send, await the response | `Replay` |
| snapshots, `check`, `replay --strict` | `snapshot.py`, `cli.py` | sessions, replays, golden file | snapshot, verify, update, check | `Regression` |
| normalizer, diff | `normalizer.py`, `diff.py` | ids and UUIDs seen | pure | `Normalizer` |
| suites | `suite.py` | counters, verdicts, replay files | find suites, run them, report | `Suite` |
| pytest plugin | `plugins/pytest-mcp-vcr/` | consumed messages, pairings, cursor | write, read | `Cassette` |
| mutators, redactor, passive audit, formats and validation, config, reports, CLI output | the rest | none that interacts | pure or I/O | not modelled |

The components meet in three places. `mcp-vcr record` opens the recorder, runs
`run_proxy_with_transport`, and closes the recorder: the pumps call the transport
to read and write lines and the interceptor to observe them; the interceptor
creates one asyncio task per record, which calls the recorder; shutdown waits for
the subprocess (or stops the reader of the event stream), cancels the pumps and
gathers those tasks. The commands that drive a server themselves (`generate`,
`audit --active`, `fuzz`, and everything that replays) each are one task that
writes a request and reads lines until one carries its id, against a process
that answers late, twice, never, or dies. And the commands over recordings meet
in files: what one of them leaves is what another one finds.

What is hard there: tasks and the kernel interleave; lines may be malformed or
oversized; either end may stop reading, exit or hang at any time; signals come at
any time and timeouts race the server's exit; records fail to be redacted,
serialised or flushed; the process may die while it rewrites a file; an answer
that comes late may be taken for the answer to something else; a server is
thrown away and replaced within a budget; files are merged, left behind and
found again. `PROJECT.json` ("hazards") lists each of these at its line, with the
properties that would catch it.

What makes each component correct:

- the proxy is transparent, its transcript and its streams agree, it ends when
  it should, it never leaves its server behind;
- the recorder repeats and reorders nothing, whatever fails, and loses nothing it
  still had room for;
- the SSE transport delivers in order, through a bounded queue, all it has read;
- fuzz and audit judge every case once and on its own answer, are right when they
  report success, keep to a budget, end, and leave no server;
- generate pairs each request with its own answer, and replaces a snapshot only by
  a complete one;
- a cassette is played with the recorded causality, each answer to its request;
- a verify that passes is true, an update settles, a golden file stays replayable;
- a test run that exits 0 has replayed everything it found.

## The modules

```
Journal          <- Proxy (refines it)
LineServer       <- Exchange <- Generate, ActiveAudit
                 <- Replay   <- Regression -> Normalizer
TranscriptFile, SseProxy, Fuzzer, Cassette, Suite      on their own
SequenceLemmas, *Proofs                                lemmas and theorems
```

The `MC` modules instantiate these for TLC. In a module, a definition whose name
begins with `Bug` is a plausible mistake in the definition after it, used to
show that a property can fail; it is no part of the model.

### Recording

**`Journal`** is the abstract specification of recording, whatever the
transport: messages are observed, each is stored at most once and in order, or
lost with a reason, and the transcript is sealed only when every message is one
of the two.

**`Proxy`** is `record` over stdio. asyncio is cooperative, so what runs
between two suspension points is one action, and the actions of different
tasks interleave freely:

| code | actions |
|---|---|
| `pump_c2s`: `readline`, `observe`, `stdin.write` without a suspension, then `drain()` | `C2SForwards`, `C2SPoisoned`, `C2SEndOfInput`, `C2SDrained` |
| `pump_s2c`: `readline`, `observe`, write and flush to stdout | `S2CForwards`, `S2CPoisoned`, `S2CEndOfOutput` |
| write tasks of the interceptor | `RecorderWrite`, `RecorderWriteFails` |
| `handle_sig`; the return of `asyncio.wait` | `Signal`; `Decide` |
| `shutdown(None)` | `CloseStdin`, `StdinClosed`, `TimeoutKills`, `ShutdownReturns` |
| `shutdown(sig)` | `ForwardSignal`, `TimeoutKills`, `ShutdownReturns` |
| the `finally` of `run_proxy_with_transport`, then `recorder.close()` | `CancelC2S`, `CancelS2C`, `FlushAndClose` |
| client, server, child watcher, write transport (external) | `ClientWrites`, `ClientClosesInput`, `ClientClosesOutput`, `ServerReads`, `ServerWrites`, `ServerExits`, `Reap`, `FlushStdin`, `LoseStdin` |

A line has a number and a kind, and the kinds are what the pump distinguishes:
`rpc` (recorded and forwarded), `opaque` (no JSON, or `null`: forwarded only),
`unredactable` (`observe` stores it and then raises) and `poison` (`readline`
or `json.loads` raises something other than a `JSONDecodeError`). A line given
to `stdin.write` goes into the kernel pipe (`PipeCap`), or into asyncio's
buffer when the pipe is full; `drain()` suspends above `HighWater` and resumes
at `LowWater`. `process.wait()` returns at once when the exit status was
already collected when it was called (`quick`), otherwise when it is collected
and every pipe of the process is disconnected, which is how asyncio of the
Python versions the project supports (3.12 and later) behaves.

**`TranscriptFile`** is the recorder alone: the file, the handle's buffer, the
lazy metadata, and `close()` with both backfills, in place for YAML and through a
temporary file for NDJSON. `MaxFaults` file operations may raise, and the process
may die at any step. A write that raises has one of two effects. If the record has
room in the buffer (`WriteFails`), the buffer keeps it and what else it had not
written, for the next flush. If it has none (`LongWriteFails`), it is written straight
to the file by the call that raises, and is gone (`unkept`), or leaves a piece: the
file is then `cut`, and the next record runs into the piece; a YAML file with a piece in
it may not parse any more (`BackfillUnreadable`). When the NDJSON copy raises, its
temporary file is unlinked, which may raise as well and is passed over (`Unlink`,
`UnlinkFails`). A `SIGINT` during `close()` counts as a crash: the proxy's handlers
are gone with its event loop, and `except Exception` does not catch a
`KeyboardInterrupt`. YAML keys are sorted, so the rewrite writes `messages`
before `meta`.

**`SseProxy`** is the SSE transport under the same pumps: the reader task
(connect, parse, a `put` that may suspend, the sentinel of its `finally`
clause), which the end of the stream ends (`ReadEnd`) or, at any point of it, an
exception (`ReadRaises`), the bounded queue, POSTs that may arrive, fail or both, and a
shutdown that cancels the reader wherever it is. A message is recorded as it is
observed; the tasks behind that are in `Proxy`.

Two steps of it are one action each because nothing of the loop can run between
them. `StreamWriterWrapper.drain` never suspends, so `pump_s2c` forwards what the
queue holds in one go. And the cancellation of the reader (`StopReader`) finds the
pump with nothing to read: the event loop runs callbacks in the order they
became ready, and a pump with something in the queue was woken before the
reader task could be cancelled.

### Driving a server

**`LineServer`** is the server process as such a command meets it: it answers each
request at most once, in any order and at any time, or never; it writes lines that
answer nothing (`MaxNoise` of the `NoiseKinds`), requests of its own under an id of
`RequestIds`, and may exit. Two moments are told apart: its exit, and the
collection of its status, before which `server_running` still holds.

**`Exchange`** is `_send_and_receive` of the generator: a request is written, then
lines are read until one has its id, under one deadline. What its callers do with
the answer are the actions of the modules that extend it.

**`Fuzzer`** is `mcp-vcr fuzz`, `FuzzEngine.run_fuzz`, with a loop of its own:

| code | actions |
|---|---|
| `_ensure_server_ready` | `StillReady`, `Replace`, `BootstrapSucceeds`, `BootstrapFails`; `NoTools` and `BudgetExhausted` where its caller gives up |
| head of the loop over the mutations | `NextCase`, `WallClockExceeded`, `AllCasesDone`, `Skip` |
| `write_to_server` | `WriteCase`, `DrainReturns`, `WriteFails` |
| the loop that reads, by what it reads | `ReadReply`, `ReadNote`, `ReadJunk`, `ReadLong`, `ReadDeep`, `ReadEof`, `Timeout` |
| the server, the child watcher (external) | `ServerReads`, `ServerReplies`, `ServerNoise`, `ServerExits`, `Reap` |

A bootstrap is one action: nothing of the engine runs beside it, and a failed
one only counts. `shutdown()` is taken to kill the server and drop its pipes,
which is what `Proxy` shows of it. A mutation is its source message, whose id every
mutation of it keeps, or `raw` (not JSON: any id is accepted) or `big`. Each result
remembers which case the reply it rests on belongs to (`of`), which the code does
not know; that is what the properties are about.

**`Generate`** is `run_generate`: `discover` with its pagination, its cursors and
its two ways to fail, `_echo_tool_list` (which may raise outside the `try`), the
calls with their isolation, `build_transcript` with its times, and `write_snapshot`
through a temporary file, with a crash at any point of it. The id of a request is
its position in the conversation, as in the code.

**`ActiveAudit`** is `ActiveAuditEngine.run`: the restart budget, the loops over
tools and canaries with their different exits, and what each end of an exchange
does to the server. A bootstrap is one action, as in `Fuzzer`.

**`Replay`** is `ReplayEngine.run_replay`: the client's messages in lockstep, with
the wait for an id after each message that has one, and every reason for an
incomplete replay, those included in which `run_replay` raises: at the start, at the
end before it has written a file, or after, because the file is not valid (`EndRaises`).

### Recordings

**`Normalizer`** is `NormalizerChain` and `run_diff` as functions: the numbering of
ids and UUIDs over one walk of the transcript, placeholders for instants and
cursors, the pairing of responses by id and what has changed between two
transcripts. A leaf of a payload has a kind and a value.

**`Regression`** composes the two: `snapshot`, `verify`, `verify --update`, `check` and
`replay --strict`, one after another, against a server that changes at most once,
over the files they leave: the session, the replays beside it, the golden
snapshot. `find_source_session` takes any file of `sessions/` whose name holds the
session's id, a replay too. `snapshot` replaces the golden file that is there. A replay
that is not valid stays in `sessions/` after `verify` too, whose caller was not told its
name (`Spoiled`).

**`Suite`** is `mcp-vcr test`: `list_suites` with the top-level manifest (which is read up to a
path that is no string, `Read`) and the scan of the directory, `find_suite`, `run_suite` with all that may raise, and `run_all_suites`
with its callbacks. The outcome of a transcript is chosen freely: what it stands
for is in `Regression`.

**`Cassette`** is the pytest plugin: a session recorded by `RecordingTransport`, with
answers in any order and messages of the server's own, and played by
`ReplayingTransport` to a client that issues the same operations one at a time or
several at once, in any order. `start()` pairs each message of the client with the
first message of the server with its id that is left (`Alike`, `Hits`, `Paired`);
`write_to_server` consumes the next message of the client whatever is written.

## The runs

| run | instance | checks |
|---|---|---|
| `proxy` | 2 lines of the client, some of them poison, 1 of the server of any kind; a pipe of 1, no buffer above it; a failing write; a fair event loop | `TypeOK`, `Transparent`, `TranscriptAgrees`, `NoOrphanServer`, `ExitDeliversAll`, `ImplementsJournal`, `SignalStops`, and `EndOfStreamStops` for a server that reads its stdin while it is up |
| `transcript` | both formats, 4 records, 3 faults, a crash | `RecordsInOrder`, `NothingLost`, `BackfillKeepsRecords` |
| `sse` | rpc, batch and malformed lines, 2 messages, another event, a queue of 1 | `DeliveredInOrder`, `AnswerAfterRequest`, `OnlyLastUndelivered`, `StreamEndStops` |
| `fuzz` | 3 mutations of one message, each sent as it is, raw or too big; one restart, a wall clock limit, one line of noise | `EveryCaseOnce`, `StaleOnlyAfterProtocolError`, `CleanRunIsHonest`, `LaunchesAccounted`, `RunEnds` |
| `generate` | at most 3 pages, a tool or none on each, one line of noise or a request of the server | `TranscriptIsTrue`, `SkipsNeedALostServer`, `EndsClean`, `GenerateEnds` |
| `audit` | 2 tools, 2 canaries each, one restart, one line of noise or a request of the server | `EveryCanaryOnce`, `VerdictOfItsCanary`, `CleanAuditIsHonest`, `LaunchesAccounted`, `AuditEnds` |
| `cassette` | 3 operations of any kind, one message of the server's own, with a free id or one of the client's | `OwnAnswers`, `PlayedAsRecorded`, `StallReasons`, `PlaysToTheEnd` |
| `suite` | 2 directories with 3 transcripts, 2 names, manifests of up to 2 entries, a path that is no string among them, every outcome, callbacks that raise | `HonestExit`, `CountsTrue`, `SuitesFound` |
| `regression` | 5 shapes of a session, with and without volatile values, nested ids and ids in arguments; 2 commands; a server that changes, disturbs or dies | `UnchangedPasses`, `PassIsTrue`, `UpdateSettles`, `UpdateKeepsGolden` |

Three runs show a disagreement between the code and what its documentation says of
it (`PROJECT.json`, "findings"):

- `regression_unchanged` (`VerifyUnchanged`): every member named `id` is numbered in
  one sequence over both directions, and the golden file holds both while a replay
  holds the server's messages only. TLC finds a session of two pipelined requests, the
  first with an id among its arguments: in the golden file that id comes between the
  ids of the two, in the replay it does not come at all, and verify reports a
  regression of a server that has not changed. (The property is about sessions in which
  every request has its answer: of a session without its last one, verify rightly
  reports the new answer as added.) `UnchangedPasses` says on which sessions verify
  passes.
- `regression_check` (`CheckRepeats`): `check` leaves its replays beside the
  session, and the next `check "sessions/*.yaml"` replays those.
- `audit_restarts` (`RestartsWithinBudget`): the help of `audit --max-restarts` promises a
  limit of the restarts "on crash/timeout"; only bootstraps that fail are counted. With a
  budget of 1, two canaries that time out are followed by a third launch. What does bound
  the launches is `LaunchesAccounted`.

### What the properties had to leave room for

A property that holds says what the code does, and some say less than one would
like. Where a property has an exception, the code is the reason:

- A signal that comes during the end-of-stream shutdown is never forwarded
  (`transports/__init__.py`): `SignalStops` has the premise that no shutdown has
  begun.
- A line of the server that is too long, too deep or not UTF-8 ends the session:
  `ExitDeliversAll` excepts a pump that met a poison line. Over SSE a malformed
  line of the client, which the pump logs as ignored, does the same.
- `wait_closed()` in `shutdown(None)` has no timeout: a server that has stopped
  reading with lines buffered for it keeps the proxy for ever. `EndOfStreamStops`
  has a server that reads while it is up.
- The YAML backfill truncates the only copy of the transcript before it writes it
  again: `BackfillKeepsRecords` excepts a crash or an error in it.
- A record that has no room in the handle's buffer when its write raises is lost, and
  may take the next one with it, which runs into what was written of it:
  `NothingLost` excuses those two (`Excused`) and nothing else.
- A failing `os.unlink` leaves the temporary copy of the backfill: `NothingLost` allows it
  behind two errors, with the transcript as it was.
- An exception in the middle of the event stream ends the session with messages
  unread: `DeliveredInOrder` is then about those that were read.
- A path in the manifest that is no string costs the entries behind it: `SuitesFound`
  is about those before it (`Heeded`) and the directories right below.
- A JSON `null` on the event stream is taken for its end: put `"null"` into
  `EventKinds` of `MCSseProxy.cfg` and `DeliveredInOrder` fails; `DeliveredCorrect`
  assumes that it is not there.
- After a protocol error the fuzzer keeps the server with its late reply, which is
  then judged as the answer to the next case: `StaleOnlyAfterProtocolError` says
  that this is the only way.
- A fuzz server found dead between two cases is replaced without spending
  `--max-restarts`, although Architecture.md says that restarts count against it, and so
  is every audit server lost to a timeout or a crash (`audit_restarts`): the two
  `LaunchesAccounted` say what pays for them instead.
- `_send_and_receive` takes a request of the server with the awaited id for the
  answer: `TranscriptIsTrue` and `VerdictOfItsCanary` except it.
- A timeout is no finding: `CleanAuditIsHonest` holds of an audit in which every
  canary timed out.
- An update may take a replay left in `sessions/` for the session, and the golden
  file then has no requests: the last disjunct of `UpdateKeepsGolden`.
- A cassette with a request of the server on it may stall, or give the client the
  request for its answer: `OwnAnswers` and `StallReasons`. `StallReasons` also lists a
  client that writes in another order than the recorded one, and a sequential one
  on a tape on which a message of its own precedes an answer it waits for.

### Bounds

Two lines of the client are enough to have one in the pipe, one in the buffer,
and a third party (a task, a cancellation, a line of the server that is recorded or
poison) between them; `PipeCap` 1 and `HighWater` 0 make back-pressure the normal case, and
a poison line of the server makes a shutdown meet a buffered line and a suspended pump.
That the server's lines keep their order needs two of them: there `TransparentCorrect` and
the other theorems, which hold for any number of lines, go beyond the run. A queue of one event, with two messages and the sentinel to pass, is full,
overfull and empty within a session. Four records with three faults let a failed
write be followed by another failure, by a success and by a close, and a copy and its
unlink fail behind it.

Three fuzz cases let a stale reply shift the verdicts of the two that follow, and a
server be lost and replaced between them; two tools of two canaries let the audit
lose a server inside a tool and between two, before and after its one restart;
`LaunchesCap` is above every launch the budgets allow. Three pages are the
`MAX_TOOLS_LIST_PAGES` of the code made reachable, with room for a cursor that
repeats or comes back. One line of noise is a late answer's worth of confusion
at any point of a run; the server's own answers may be late without it.

Three operations of a cassette allow two answers in another order with a third
message between them, and the id 2 of `RequestIds` collides with the client's second
request where 9 does not. Two commands are what every property of `Regression`
relates, one that leaves something and one that finds it. Two directories and two
names give every collision `list_suites` resolves; the first suite has two
transcripts, so that a suite can be aborted between them.

Symmetry is not used: lines, cases and commands are numbered, so they are not
interchangeable. `CHECK_DEADLOCK FALSE` in every configuration: a session, a run or
a sequence of commands ends, and nothing happens after it.

### Fairness

In `Proxy`, weak fairness of each task of the event loop (`C2SPump`, `S2CPump`,
`Recorder`, `Main`) says that asyncio runs what is ready and that its timers expire;
of `Reap`, `FlushStdin` and `LoseStdin`, that the kernel moves bytes and reports
exits. Nothing is assumed of the client or of the server: they may write, read, exit
or stop for ever. Only `EndOfStreamStops` needs more, a server that keeps reading
while it is up, which is the premise of the property. `SseProxy` is the same; a POST
ends by its 5 s timeout.

`Generate` and `ActiveAudit` are one task each, `Command` and `Engine`, and weak
fairness of it is all they need: every wait for an answer has a deadline, and
requests are small enough not to wait for the pipe. In `Fuzzer` a case may be larger
than the pipe and `write_to_server` has no limit, so `RunEnds` also needs a server
that reads its input while it is up (`WF_vars(ServerReads)`), and is false without;
`Reap` is the child watcher.

In `Cassette` the reader is a task of the client that always wants the next message,
and the client writes what it may write. `TranscriptFile`, `Suite` and `Regression`
are checked for safety only: `TranscriptFile` and `Suite` are loops over finite input,
and the one wait of a replay has a deadline, like those of `Exchange`.

## The proofs

Each theorem holds for every value of the constants that satisfies the `ASSUME` of
its module, and for the specification without fairness.

**`ProxyProofs`**

- `TypeCorrect`: `Spec => []TypeOK`. Inductive as it stands.
- `RecordingCorrect`: `Spec => []RecordingInv`. The invariant is
  `OrderedRecords`, the records followed by the pending tasks are increasing
  indices which with the lost ones partition the observed messages, and
  `PumpsOver`, which phases leave no pump and no task. The second part is
  what makes the first survive: once the recorder is closed no pump can observe
  another message. The lemmas about `Append` and `Tail` carry the order
  through a new task and a finished one.
- `JournalImplemented`: `Spec => ImplementsJournal`. With that invariant each
  step maps to a step of `Journal` or to a stutter: `Observe` to `Observe`, a
  write to `Store`, a failed one to `Lose`, the close to `Seal`.
- `NoOrphan`: `Spec => []NoOrphanServer`, from a strengthening which says that
  a wait can return only for a process whose status is collected (`quick`
  implies that it is).

- `TransparentCorrect`, `ExitDeliversCorrect`, `AgreesCorrect`, about the streams.

The invariant `StreamInv` of the last three says that what was delivered, what is on its way and what is
still unread carry consecutive numbers (`Fresh`, `Unread`, `ToServerInv`,
`ToClientInv`), and that as long as a pump goes on nothing is missing between them,
so that the line it reads next is the one that follows. `DeliveryInv` adds why the
s2c pump may be over: the client has gone, the output was read to its end, a line
was poison, or the exit status was collected too early. `AgreementInv` is what the
interceptor has observed against what the pumps have forwarded.

**`TranscriptProofs`**, of `TranscriptFile`: `TypeCorrect`, `InOrderCorrect`, `NothingLostCorrect`,
`BackfillCorrect`, from `FileInv`. What carries it is `Accounted`: the records of the file followed by
those of the buffer are those written in their order, with pieces between them, but for the excused
ones (`Thinned` says what a record that runs into a piece takes away). Then one conjunct for each
stage: while the handle is open, that, and that what will run into a piece is excused
(`Recording`); the backfill begins with the buffer empty (`Backfill`), loads the file (`Rewriting`)
and copies from that (`Copying`); `Closed` and `Done` are what each way to end leaves.

Of `Regression`: `PassCorrect`, `GoldenCorrect`, `SettlesCorrect` and `UnchangedCorrect`, for
any number of commands, noise lines and requests of the server, and whatever earlier
replays left in `sessions/`. All of them rest on what every transcript is that a command can
meet (`Good`): the messages of one side have ids of their own, each request and reply has
one, and a reply says something. It holds
of sessions, golden files and replays (`FilesInv`), of what a replay is still to send
(`TodoInv`) and of what it has taken (`TakenInv`), which `ServerInv` supports: the server
has at most one answer pending, with the id that is waited for.

- `PassCorrect` (`PassIsTrue`): the responses `run_diff` compares are keyed by id, so that
  of two with the same id one would be hidden. Normalising renames ids and keeps them apart
  (`NumberInjective`, a lemma about the numbering of values by their first occurrence,
  and `NormalizedGood`) and hides no text (`NormalizedSays`); hence an empty difference
  means that every answer says what was recorded (`MatchSays`).
- `GoldenCorrect` (`UpdateKeepsGolden`): `KeepInv` adds that whatever the source asks is
  still to be sent, awaited or answered (`Pursued`), that the replays in `sessions/` hold no
  requests (`ReplaysInv`), and what the golden file is (`Whole`). When a replay is complete every
  request of the source is answered, and the transcript merged of the two has an answer for
  each (`MergedKeeps`); normalising keeps the kinds and the ids that are there
  (`KindsNormalized`, `NormalizedIds`). An update of a replay whose source asks nothing is the
  exception the property names; that the session is none of those is `SessionAsks`.
- `SettlesCorrect` (`UpdateSettles`): what a complete replay has taken from a server that
  wrote nothing but its answers is what its source asks, answered by the server's version
  (`Told`, `ToldInv`, step by step `Telling`). Between two runs only the instants and UUIDs of the
  answers differ, by the difference of their runs (`Twins`); both walks therefore meet them in the
  same order (`WalkTwins`, by induction over what they flatten), number them alike
  (`NumberShifted`: the values up to the first occurrence are in bijection) and leave the same
  normal form (`TwinsNormalized`). So a file once found to match its source matches it again
  (`SettledInv`), and one that was merged from a replay differs in nothing from it
  (`MergedSettles`). Of the session nothing but `Good` is used.
- `UnchangedCorrect` (`UnchangedPasses`): here one of the two is the recording, whose walk also
  meets the ids of the requests. `PlainSessions` says which recordings are `Plain`, by first-order
  reasoning from its conditions; on those the requests' ids come before they would otherwise be
  met, but in the same order (`PlainWalks`, `PlainNumbers`), so that a message the two have in
  common has one normal form (`AgreeNormalized`) and nothing differs (`PlainUnchanged`). The
  theorem is about the five shapes of a session in `Recordings`, with any commands before it;
  that `Plain` is needed is what `VerifyUnchanged` shows.

**`FuzzerProofs`**: `TypeCorrect`, `LaunchesCorrect`, `EveryCaseCorrect`, `StaleCorrect`,
`CleanCorrect`.
`Paid` charges every launch but the first to the restart budget or to a quiet
replacement. `PendingInv` is about the cases whose replies may still come (`Pending`:
in the pipe, in the server, in its output): each is in one place only, and one that
has been judged is there only if the server is about to be replaced or its protocol
error is on record. `Honest`: a case is skipped only if it is too big to
be sent and passes only on a reply, which without a protocol error is its own.

**`SseProxyProofs`**: `TypeCorrect`, `AnswersCorrect` (from `RequestInv`, what a request
has to go through before the server can answer it), `UndeliveredCorrect`,
`InOrderCorrect` and `DeliveredCorrect`. `OrderInv` is about the messages in the queue,
in the reader's hand and on the stream: they are in order (`InFlight`), none of
them is missing as long as somebody will read it (`Complete`), and where the reader
stands (`ReaderAt`). `SentinelInv` adds that no message is behind the sentinel, `EndInv`
what a pump that has ended has therefore passed: all that the reader has read, so that
what is missing is unread, and is missing only if the reader was ended by an exception
(`raised`). `DeliveredCorrect` assumes `"null" \notin EventKinds`.

**`ActiveAuditProofs`**: `TypeCorrect`, `LaunchesCorrect`, `VerdictCorrect`,
`EveryCanaryCorrect`, `CleanCorrect`. `Paid` charges the launches to failed bootstraps and canaries.
`OneAnswer` says that the requests whose answers may still come have different ids,
none above `request_counter`, which is never reset. `InTurn` is that the canaries
before the one at hand, and only they, are judged; `Place` where the engine stands;
`Counted` that as long as no tool was left out there are as many findings as canaries
were due, which is why exit code 0 is about all of them.

**`GenerateProofs`**: `TypeCorrect`, `TranscriptCorrect`, `SkipsCorrect`, `EndsCorrect`,
`CursorsCorrect`. `OneAnswer` is again about `Live`, the requests whose answer may still
be read: their ids differ (`Apart`), each below the next id (`Fresh`), so that the line
that matches is the answer to the request that waits. The ids are computed and not
counted (2 + pages + results), and this is why `InOrder` is needed: no result before
the pages are complete. That the times increase is no invariant but a lemma about
`Transcript` for all pages and results (`TranscriptTimes`), by induction over them:
each page and each call has an interval of its own (`Between`, `FlattenTimes`).
`BrokenByError` and `Progress` are the strengthenings of the skipped tools and of how the
command ends. `AsksNew` says that the cursor to ask for next is in `seen` and was not
asked for: the safety half of `GenerateEnds`.

**`TestingProofs`**, of `Cassette`: `PlayedCorrect`, `OwnAnswersCorrect`, `StallCorrect`. `TapeInv` is what
a recording can leave: operations in order, an answer after its request, at most one
for each. From it alone: before the server has asked anything, `start()` pairs an
answer with its request and with nothing else (`AnswerPaired`, `PairedAnswer`).
`ReplayInv` then says what the playback has consumed, mapped and delivered at the
cursor (`PlayInv`), why the reader waits (`WaitInv`), and that a client in the recorded
order consumes its own messages and has mapped what is paired with them (`PairInv`), and
`AskedInv` that it may answer whatever the playback has asked it.

Of `Suite`: `HonestCorrect`, `CountsCorrect`, `FoundCorrect`, for any tree of suites and any
number of transcripts. `SuiteInv` says that what is left to run was found and that no two of it are
in one directory (`LeftInv`), that a transcript has a verdict when its suite is over or it was
taken up (`VerdictInv`), that the totals and the counts of the suite that runs are those of the
verdicts unless a suite raised (`CountInv`), and that without a failed suite every answer
of the suites that ran was the recorded one (`HonestInv`). `FoundCorrect` needs only
which entries of the manifest are read, and which suites the discovery keeps of those
listed twice or named alike (`NamesFound`, `Hints`).

`SequenceLemmas` has what several of these cite: the elements of a sequence; induction
over the numbers, stated about a set and derived from the well-foundedness of finite
sets under inclusion, since the provers cannot instantiate the library's induction
theorems, which take a predicate; and by it that `FlattenSeq`, which is defined by a
recursive function, concatenates (`FlattenAppend`), and where an element of a part is then
(`FlattenPart`). The messages of one side (`Sent`) are a `FlattenSeq` for that reason.

Only model-checked: liveness, which is out of the prover's reach (`SignalStops`,
`EndOfStreamStops`, `StreamEndStops`, `RunEnds`, `AuditEnds`, `PlaysToTheEnd` and that
`generate` ends), with the fairness it rests on. Every safety property that a passing run
checks is the subject of a theorem, `DeliveredInOrder` under the assumption named above.

## Not modelled

- A client that does not read its stdout: the flush is synchronous and would
  stop the whole event loop, which every liveness property here excludes.
- A `start()` that raises after the subprocess was launched: `record` then ends with
  the process.
- The stderr pump (it shares nothing with the rest but the pipes it drains).
- The `shutdown` notification that Architecture.md says is sent when the client
  closes its stdin: the code sends none, so the model has none.
- The requests of a fuzzer's or an auditor's bootstrap, which are those of
  `Generate`, and how mutations and canaries are generated (`mutators.py`,
  `sandbox.py`): pure.
- A `snapshot` of a file other than the session, a leftover replay for instance.
- The structural mode of the diff, its ignored paths and the classification of a
  change; NDJSON sources; a crash during `verify`.
- A replay over SSE, which meets `SseTransport` in the place of the pipes.
- Which string a placeholder's pattern matches, the classification of messages, the
  redaction rules, loading and schema checks: data, per message and pure. That they
  may raise or refuse is modelled where it matters.
- The older `run_proxy` of `transport.py`, which no command uses.
- The passive auditor, configuration, reports, output and the community suites:
  nothing there interacts.

## Plan

1. A variant of `Regression` in which the process dies between the steps of an
   update, and one over NDJSON sources.
2. A back-pressure variant of `Proxy`: a client that stops reading, and a start
   that fails after the launch.
3. The structural diff with ignored paths, beside `Normalizer`.
4. Proofs: `UnchangedCorrect` for any recording that is `Plain`, in the place of the five
   shapes; and that the walk of a recording numbers what its replay repeats alike exactly
   under those conditions.
