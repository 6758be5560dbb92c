# session-coordination: TLA+ models and proofs

This directory is the verification project of `codex-session-coordination`: a
Node helper (`sessionctl.mjs`) with which one Codex session finds another and
sends it a message. A message can be delivered in two ways, by steering the turn
that runs in the target thread or through `codex queue`; the helper must use at
most one of them, and what it prints about the result must be true although
servers, child processes, pipes and timers fail under it. That is what most of
this project is about.

Tools: `tlc -config X.cfg M` checks a module, `tlapm M.tla` its proofs.
`PROJECT.json` lists the runs, the source lines every definition stands for, the
hazards and the theorems. Line numbers below are those of
`session-coordination/scripts/` unless a path says otherwise.

## 1. The system

| Component | State it keeps | Operations | Talks to |
|---|---|---|---|
| send command: `main`, `runCommand`, `withClient`, `resolveTarget`, `trySteer` (`sessionctl.mjs`) | the await it is suspended at, pages and matches of the name scan, the expected turn id, what was printed, `process.exitCode` | identify the sender, resolve the target (UUID or exact name), read its status, read its latest turn, steer it, or fall back to the queue; print one JSON line | client, queue runner |
| app-server client: `AppServerClient` (`lib/app-server.mjs`) | `closed`, `handshakeComplete`, `readyPromise`, the map of outstanding requests and their timers, `nextId`, receive buffers, the proxy child | handshake, `initialize`, `request`, `close`; handlers for `data`, `error`, `exit`, timers | proxy child, send command |
| WebSocket framing: `onHandshakeData`, `onFrameData`, `onFrame`, `encodeClientFrame` | handshake buffer, frame buffer, fragments | cut chunks into frames, answer pings, reassemble fragments, enforce limits | client |
| queue runner: `runQueue` (`lib/queue.mjs`) | the promise, its timer, the child and its stderr | start `codex queue`; handlers for `error`, `close`, timeout | `codex queue`, process termination |
| process termination: `terminateChild` (`lib/process.mjs`) | grace timer, `close` listener | SIGTERM, after 250 ms SIGKILL, release of pipes and handles | every child |
| target resolution: `resolveTarget`, `listThreadPage` (`sessionctl.mjs`) | matches and pages so far, the cursor | read a UUID, or up to 10 pages of `thread/list` for an exact name | client |
| self, list, status (`sessionctl.mjs`) | none beyond `withClient` | rounds of parallel requests (`Promise.all`), put together into one line of output | client |
| validation, normalisation (`lib/validation.mjs`, `normalizeThread`, `normalizeGoal`) | none | refuse malformed values, foreign threads and foreign goals | all |
| stderr diagnostics: `boundedText`, `appendBoundedText` (`lib/process.mjs`) | the text kept of a child's stderr | cut it at 4 KiB | client, queue runner |
| app-server, target thread, `codex queue` | threads, turns, the queue | outside the repository | helper |
| installer (`sync-session-coordination-skill.sh`, `skill-files.txt`) | the installed files, a temporary file | check, apply | file system, a helper that starts |
| bundle check, CI, skill document | none | | |

### How they interact

`send` opens a client (a `codex app-server proxy` child that speaks WebSocket
over its pipes), awaits one request after the other on it, closes it in
`finally`, and, when steering is unavailable, calls `runQueue` only after the
client was closed. Closing is asynchronous: the proxy gets SIGTERM and its
stdout is still read until it ends or 250 ms have passed, while `codex queue`
may already be running. The helper has one thread. A callback runs to its end,
continuations of settled promises run before the next event, and everything else
(which event is next, what the server, the proxy and `codex queue` do meanwhile)
is free.

### What is hard

- *Two routes for one message.* The status and the turn id are read before the
  steer is sent; the thread moves on meanwhile. Falling back after an unclear
  steer would deliver twice; treating an internal error as a refusal would lie.
- *Late and lost answers.* A timeout or an end of the connection can hide an
  answer that is on its way, or an acceptance that happens later.
- *Order of Node's events.* `exit`, end of file, `close`, `error`, the grace
  timer and the queue timer come in any order that a descendant with an open
  pipe, a child that ignores SIGTERM or a failed spawn can bring about.
- *Several frames in a chunk.* The handler goes on with the second frame before
  the continuation of the promise that the first one settled.
- *A table that moves.* A name is looked up on several pages, a thread and its
  goal are read by two requests, and all of it changes between any two of them.
- *Limits.* Lengths at 125, 65535 and `MAX_LINE_BYTES`, buffers that hold part
  of a frame or several, and a byte limit that falls into a character.
- *Files that are replaced one by one*, while a helper reads them or the script
  dies.
- *Ends.* Timers, pipes and handles keep Node alive; too few of them end the
  process with status 13 and no output; an exception in a handler ends it at
  once.

### What makes each component correct

| Component | Promise | Where |
|---|---|---|
| send | at most one landing; a status that stays true; a fallback only when no steer landed or can land; exit status 0 only for a message that landed; it ends | `SendCommand`, `Delivery` |
| queue runner | settles once, with a status that stays true; abandons no child it has not signalled; leaves nothing behind | `QueueDelivery`, `Delivery` |
| process termination | after the grace period nothing of the child holds the helper; no survivor without SIGKILL; no signal to a child known to have ended | `ChildTermination` |
| client | a call is settled once, by its own answer or with all others at the end of the connection; every wait has a timer and every timer a wait; a command that returns has its answers | `RpcClient`, `Calls` |
| client, for one command | what is awaited is settled by the server only while the connection is up, and fails when it goes down | `Connection` |
| framing | the same messages whatever the chunks; the connection ends at the first bad frame; nothing whole waits in a buffer | `FrameDecoder`, `Messages` |
| target resolution | a name leads to a thread that bore it, and past no other that stood still; a refusal has its cause | `TargetScan` |
| self, list, status | each printed part was true of its own thread; a list that is not marked truncated is complete | `Inspection` |
| diagnostics | a prefix of what the child wrote | `BoundedText` |
| installer | `ok` means installed; only a signal leaves litter; a helper loads no module older than its entry | `Installer` |

The full list of hazards, each at its line and with the properties that cover
it, is in `PROJECT.json`.

## 2. Modules

    Outcomes          places a message can land in, reports, what a report claims
      Delivery        abstract: what one send promises about its message
      AppServer       external: server, target thread, its turns, one request
    ChildProcess      a child as Node and terminateChild see it (operators on a record)
      ChildTermination   terminateChild alone, any order of events
      QueueRunner     runQueue and `codex queue` (extends Outcomes, ChildProcess)
        QueueDelivery    runQueue alone                          => Delivery
      SendCommand     the whole command: AppServer + QueueRunner => Delivery, Connection
        SendLedger       its inductive invariant
      RpcClient       AppServerClient and withClient             => Calls, Connection
    Calls             abstract: what the client promises to its callers
    Connection        abstract: the client as a command that awaits one thing at a time knows it
    Totals            what a sequence of lengths comes to
      Messages        abstract: what the frames of the stream mean, one by one
        FrameDecoder     bytes, chunks and buffers               => Messages
      BoundedText     the stderr kept of a child
    TargetScan        resolveTarget over a table of threads that changes
    Inspection        self, list and status over such a table
    Installer         the sync script, and a helper that starts meanwhile

    proofs: QueueLemmas, ChildProofs (ChildTermination, QueueDelivery), SendCommandProofs,
            RpcClientProofs, StreamProofs (FrameDecoder, BoundedText), TargetScanProofs,
            InspectionProofs, InstallerProofs

`=>` is a refinement: the abstract module is instantiated and its specification
is a PROPERTY of the run, and a theorem.

### Outcomes and Delivery

`placed` is the sequence of places the message has landed in: a turn, or the
queue. It is what the outside world knows and the helper does not. `Warranted(r,
p)` translates the result table of the repository's `README.md` (lines 57-62):
`accepted` and `queued` name exactly one landing, `rejected` and an error none,
`outcome_unknown` none or one on the route it names. `Delivery` says that the
message lands at most once, that a report is warranted when printed, and that
nothing may land later that the report excludes.

### ChildProcess, ChildTermination

A child is a record: whether it was started, how it ended, which pipes are open,
whether Node has seen its `exit` and emitted `close`, whether the grace timer
and the `close` listener of `terminateChild` are there, and which signals were
sent. `TerminateChild`, `GraceExpired` and `ClosedBy` are `process.mjs:47-68`;
the rest is Node and the operating system. `Holds` says what keeps the event
loop alive for a child. It counts the pipes that are read; the stdin pipe of the
proxy holds Node only while a write is pending, and is destroyed together with
the others.

### QueueRunner, QueueDelivery

`RunQueue`, `OnError`, `OnClose`, `OnTimeout` are the parts of
`queue.mjs:17-77`; `Finish` is `finish()`. A spawn may throw (`"threw"`), fail
later (an absent child that reports `error`), or succeed. The `CodexQueue...`
actions are external and state what the code relies on: a child that was not
interrupted exits with 0 only if it queued the message and with another code
only if it did not; once signalled, it may end in any way and the message may
appear in the queue at any later time, once. Without that there is no status the
code could print from an exit code. A failed spawn reports before the queue
timer can fire: Node emits `error` on the tick after `spawn()`, and the timer is
at least 50 ms away.

### AppServer, SendCommand, SendLedger

`pc` names the await that `main` is suspended at, and `After<await>` is the code
from that await to the next one, early returns and `finally` included:

| Action | Code |
|---|---|
| `Start` | `main` to `await client.initialize()` (`ready`) |
| `AfterReady`, `AfterInitialize` | `initialize` |
| `AfterReadSender`, `AfterResolve`, `AfterPage` | sender, `resolveTarget` |
| `AfterReadTarget`, `AfterTurns`, `AfterSteer` | `readThread`, `readActiveTurnId`, `trySteer` |
| `AfterQueue` | what is printed after `runQueue` |
| `OnMessage`, `TimesOut`, `ConnectionFails`, `ProxyFails`, `ProxyReleased`, `PingThrows` | handlers of the client |
| `Killed`, `Exits` | the process |

`call` is the promise awaited from the client: pending, an answer, or a
transport failure. `link` is the connection, from `connecting` to `gone`.
`NodeIdle` says that no continuation is ready; events need it, except
`ConnectionFails`, which may be caused by a second frame in the chunk that has
just settled `call`. `write()` may throw on any request, on a closed client or
for its own reasons, so `Issue` has both outcomes.

`AppServer` gives the target thread its own life (turns start and stop between
any two steps of the helper, regular, review or compact), answers reads rightly
or wrongly, and answers `turn/steer` in any way with one thing trusted: an error
with one of the codes -32600, -32601, -32602 means that this request was not
accepted. The code relies on just that (`sessionctl.mjs:441-461`).

Once written, a steer stays on the wire when the helper times out or is killed,
and may still be accepted.

### RpcClient, Calls

One variable per field of `AppServerClient`. `outcome` is how each promise
stands, `pending` the keys of the map, `timers` the armed timers: that the three
agree is a property. Frames are `upgrade`, `refusal`, `answer`, `ping`, `notice`
and `bad` (anything that ends the connection: a malformed frame or message, the
server's own requests, an oversized one, a close frame). `OnData` moves any
number of whole frames from the stream into the handler; then the handlers of
the frames follow, one step each, and nothing else of the helper runs until they
are through (`handling`). Frames behind a `close()` stay in the buffer, as the
loop's condition has it (`app-server.mjs:240`). The pong for a ping may fail to
be written (`stdinErrored`). stdin is then not writable any more, but its `error`
event, which closes the client, comes only after the handler (`ErrorIsDue`); a
further ping of the chunk makes `sendFrame` throw although the client is open
(`app-server.mjs:401`), just as any ping does after `close()` (`OnPing`).

The operation inside `withClient` is any number of rounds of requests made
together and awaited with `Promise.all`: `self` and `list` are instances of it,
`send` one with rounds of a single request. `close()` and `connectionFailure()`
come to the same effect, `CloseWith`; the argument is the proxy after the event
that led there. The server answers calls in any order, answers calls that were
given up, and may send up to `MaxJunk` frames that answer nothing, an answer
sent twice included. How the proxy ends is not told apart, since the client does
not look at it.

`Calls` has the view of the callers: calls are made, the server says something
about a call, a call settles with just that, or the connection breaks and all
open calls fail in one moment, after which none is answered.

### Connection: how SendCommand and RpcClient compose

`SendCommand` has a connection of its own (`link`, and `call` for what is
awaited of it), far smaller than `RpcClient`. `Connection` states what it relies
on: the connection comes up once and goes down once; a request can be written
only while it is up, and may fail to be written at any time; an answer arrives
only while it is up; when it goes down, what is pending fails, and what is
answered stays answered although the command has not resumed yet. `SendCommand`
implements it (`UsesConnection`, with `Conn` and `Awaited` in that module), and
so does `RpcClient` with `withClient` around it (`ProvidesConnection`), where
`awaited` is the upgrade or a round of requests: a round is failed by the first
call that has failed and answered by the first error or the last result, as
`Promise.all` is. The two are composed through this interface rather than as a
product, which would be far out of TLC's reach.

### Messages, FrameDecoder

`Messages` takes one frame after the other from the stream and says what it
means: a message with its size, a pong to be sent, the end of the connection for
the first frame that breaks a rule. It knows no chunks. `FrameDecoder` is the
code: `OnStdout` adds a chunk of any size to the buffer (`OnHandshakeData` until
the answer to the upgrade is whole), `ScanFrame` is one turn of the loop in
`onFrameData` (`app-server.mjs:196-244`), `OnFrame` the handler with fragments,
control frames and pings. `SendPong` throws when the client is closed, and when
the pong for an earlier ping of the chunk could not be written; `Messages` has
the same rule (`stdinErrored`, `Crash`), as it is about frames and not about
chunks. Nothing follows a crash. `Closes` is what ends a connection from
elsewhere, the `error` of such a pong included. A closed client goes on as the code does: each chunk
that comes until its pipe is released has one more frame taken off the buffer,
fragments included, of which nothing is said any more (`Say`). `fragmentBytes`
is bumped before it is compared (`app-server.mjs:282`); what it is worth beyond
the limit, at which the client closes for good, is not told apart (`Over`). A
byte is a unit, and a frame a record of opcode, FIN, length, the size of its
extended length, and whether the message it ends decodes. The stream is a
prophecy of one frame: the next frame is chosen when the one before it was
taken, and its bytes count from then on, so the buffer is a number. That the
decoder looks at a length only when the header is there is in the order of the
guards of `ScanFrame`.

### TargetScan

The thread table is a set of threads, and a set of those that bear the wanted
name. `Touched`, `Renamed`, `Archived` and `Created` happen to any thread
between any two requests. The order by `updated_at` is reduced to what the pages
need: `behind`, the threads that later pages can still show. A touched thread
moves to the front, out of `behind`. `ScanPage` is a turn of the loop in
`resolveTarget` (`sessionctl.mjs:301-329`) with every exit, `ReadThread` the
read by id that follows (or replaces) it, `RequestFails` any refused answer. The
histories `still`, `bore` and `alone` are what the properties are stated in:
threads nothing has happened to, those that have borne the name, and those that
at some moment were the only one.

### Inspection

`self`, `list` and `status` put a line together from separate answers.
`PageAnswered` is the page of `list` or the target of `status`, `ReadThread` and
`ReadGoal` are the answers of a `Promise.all`, in any order; `ReadGoal` may
answer with the goal of another thread, which `normalizeGoal` refuses. `Changes`
is what other sessions do meanwhile, and `had` remembers what was ever true of
each thread.

### BoundedText

A text is a sequence of characters of one to four bytes. `Cut` is
`Buffer.subarray(0, n).toString("utf8")`: the characters that fit, and one
U+FFFD of three bytes for one that is cut. `AppendBoundedText` and `BoundedText`
are `process.mjs:13-36`. The specification is `TextSpec`, its state `textVars`,
so that one module can hold the proofs of both streams (for the same reason
`ChildTermination` has a `ChildSpec`).

### Installer

`step` is the command of the script that a run is at, `at` the line of
`skill-files.txt`. `Inspects` is the refusal of unmanaged files, `Compares` the
`cmp` of `--check`, `Prepares` is `mktemp`, the assignment of its name and
`install`, `Moves` the rename. `CommandFails` and `Signalled` end a run at any
command; the trap removes the temporary file whose name it knows, SIGKILL does
not run it. Two runs may overlap. `Loads` is Node reading modules, an importer
before what it imports, at any moment of this. The manifest and the imports are
those of the repository.

## 3. Runs

| Run | Question | Bounds | States |
|---|---|---|---|
| `child_termination` | does `terminateChild` clean up in every order of events? | two owners, each with any kind of child | 7,569 |
| `queue_delivery` | does `runQueue` alone keep `Delivery`? | one queue call (there is only one per process) | 194 |
| `rpc_client` | does the client keep `Calls`, provide a `Connection`, bound every wait, end? | 3 calls, 3 unread frames, 2 frames of noise | 558,562 |
| `send` | does the whole command keep `Delivery`, use no more than a `Connection`, exit honestly, end? Is the invariant of its proofs true of the instance? | 2 turns, 2 scan pages | 173,037 |
| `send_report` | does it end with a report once the message was handed over? No, see section 5 | 1 turn, 1 page | stops at the violation |
| `target_scan` | where can a name lead while threads change? | 3 threads, 3 pages of 1 | 52,055 |
| `duplicate_names` | does a duplicate name always stop the command? No, see section 5 | as `target_scan` | stops at the violation |
| `inspection` | is what is printed true and complete? | 3 threads, pages of 2, 2 changes, 2 runtime statuses | 1,332,864 |
| `frame_decoder` | does the decoder do to any chunks what `Messages` does to the frames? | scaled limits, see below | 3,282,174 |
| `installer` | overlapping and dying runs, a helper that starts meanwhile | 2 runs, 2 versions, 7 files | 1,495,213 |
| `bounded_text` | does the diagnostic stay a prefix? | 5 characters, a limit of 6 bytes | 2,729 |
| `stderr_limit` | does it stay within its limit? No, see section 5 | as `bounded_text` | stops at the violation |

What the properties say:

- `ImplementsDelivery` (`SendCommand`, `QueueDelivery`): section 2; the property
  that a caller relies on, and the one most hazards point at.
- `FallbackIsExclusive`: when `runQueue` has been called, no steer has landed
  and none is on its way.
- `ExitIsHonest`: exit status 0 means a landing; a helper that ends by itself
  has printed something; `main` is never left suspended with an empty event
  loop.
- `Terminates`, `SettlesAndLetsGo`, `LetsGo`: ends whatever the others do or
  leave undone.
- `AbandonsNothing`, `NothingLingers`: what `runQueue` leaves behind.
- `CleanedUp`, `NoSurvivor`, `SparesTheEnded`: `terminateChild`.
- `Ledger`: the inductive invariant of section 4; a conjunction of facts that
  relate the helper's position to the wire, the queue child and the message.
- `ImplementsCalls`, `EveryWaitIsBounded`, `ReturnsOnlyAnswers`, `ExitsClean`:
  the client.
- `UsesConnection`, `ProvidesConnection`: both sides of the interface between
  the two.
- `ImplementsMessages`: chunks do not matter. `NothingStuck`: between two chunks
  no whole frame waits in an open connection, also behind the answer to the
  upgrade. `Bounded`: nor more than an incomplete frame and an incomplete
  message.
- `ResolvesToTheOne`: a name leads to a thread that bore it during the command,
  and not past another bearer that nothing has happened to. `RefusesForCause`:
  two threads have borne a name that is called ambiguous, and none that stood
  still bears one that is not found.
- `PartsWereTrue`, `CompleteUnlessTruncated`: what `self`, `list` and `status`
  print. That metadata and goal were true *at the same time* is not claimed, and
  not so.
- `LoadsNothingOlder`, `OkMeansInstalled`, `LitterOnlyAfterSignal`: the
  installer.
- `KeepsThePrefix`: every character kept of a child's stderr is the one written
  there, but for the last, which may be broken; and all of them are kept as long
  as there is room.
- `TypeOK` in each module (`ChildTypeOK` in `ChildTermination`; `TextTypeOK` in
  `BoundedText`, where it has the limit that holds: two bytes more than
  `MAX_STDERR_BYTES`).

For each property the modules keep a *faulty variant* of a definition next to
the definition, marked "Faulty": a plausible slip in that code (the timer left
armed, the status read from the text alone, the proxy left running) for which
the property fails. `PROJECT.json` says which belongs to which.

### Bounds and why they are enough

- `MaxTurn` counts turns the target starts during one run. Two are needed: one
  that was read, and another that replaces it before the steer arrives. A third
  behaves as the second. The theorems hold for every number.
- `MaxScanPages` is `MAX_TARGET_SCAN_PAGES`, 10 in the code; two pages have a
  first, a last, and the limit. The theorems hold for every number.
- `MaxCalls` of 3 gives `initialize` and a round of two parallel calls, or two
  more rounds. `MaxStream` of 3 puts three frames in one chunk: two let a frame
  act between a promise and its continuation, a third is still there when the
  second has closed the client. One frame of noise ends the connection; the two
  of `MaxJunk` are what it takes for a ping behind a pong that failed. The
  instance with 4 calls, 2 unread frames and 2 of noise (3.2 million states)
  passes as well; it is not kept because of its size. The theorems hold for
  every value.
- Exact-name matches per page (`Hits`) are 0, 1 or 2: the code asks whether the
  sum is 0, 1 or more.
- Two owners in `ChildTermination`: the helper has two children, and they share
  nothing but the event loop.
- Three threads: the one that is sent to, the one that is missed, and one that
  moves the cursor past. Three pages of one have a first, an inner and a last
  one, and the limit. The theorems hold for every set of threads, page size and
  limit.
- `MaxChanges` of 2: a change between two answers, and another before the next.
  A goal has one status or is absent; that goals differ by thread is what the
  refusal of a foreign one needs.
- `FrameDecoder` scales the limits down and keeps their order: the longest short
  payload (125) is 1, the longest with 16 bits (65535) is 2, `MAX_LINE_BYTES` is
  3, `MAX_HANDSHAKE_BYTES` is 4. Every comparison of the code then has both
  sides, with lengths one below, at and one above each limit, and every
  encoding, short or long, of each length. Header sizes are the real ones (2, 4,
  10). A chunk has up to 12 bytes, enough for two frames or all of the longest
  one but its last byte, and the buffer up to 15. Three fragments make a message
  that passes the limit by its last.
- The installer has two runs because two may overlap; a third only repeats what
  the second does to the first. Two versions are what a module can be older
  than. The theorems hold for every number of both.
- A limit of 6 bytes is passed by every kind of character at every offset, in
  one chunk or several.

Deadlock is checked for `installer`, which can always start another run. It is
not checked elsewhere, since every one of these systems stops: a process that
has exited does nothing more.

### Fairness

`SendCommand`, `QueueDelivery`, `ChildTermination` and `RpcClient` state
fairness, for their liveness properties. The other modules have none: that a
command ends is a matter of the connection and its timers, which is
`RpcClient`'s and `SendCommand`'s `Terminates`. The installer ends when its
commands do. Only what Node schedules is fair, each conjunct weakly:
continuations that are ready run, a handler goes on to its end, armed timers
fire, the error of a failed spawn or of a failed pong is reported, and a process
with an empty event loop exits.
`ProxyReleased` in `SendCommand` is fair because it stands for
`terminateChild`'s timer, by which the proxy is let go of; `LetsGo` of
`ChildTermination` is the reason. Nothing is assumed of the server, the proxy,
`codex queue` or their descendants: they may stop answering at any moment. Weak
fairness is enough for timers, although an event may briefly disable them (a
continuation is ready), because the frames and answers that can do so are
bounded: a request is answered once, and `MaxJunk` bounds the rest. A server
that sends pings without end is outside these models; Node fires a due timer
between two chunks.

## 4. Proofs

TLAPS proves the following for every value of the constants, from the
assumptions the modules name: `MaxTurn \in Nat`, `MaxScanPages \in Nat \ {0}`,
`BoundsAssumption` (`MaxCalls` and `MaxStream` positive, `MaxJunk` a natural
number), `ScanAssumption` (page size and page limit positive),
`InspectionAssumption` (page size positive, a natural bound of changes),
`LimitAssumption` (the limits of the framing are positive and in order),
`DecoderAssumption`, `TextAssumption` (positive bounds) and `VersionAssumption`
(one version at least). `Thread`, `Owner`, `Run`, `Runtime` and `GoalStatus` are
any sets. So the limits are the code's as well as the scaled ones of the runs,
and no bound on chunks, buffers, fragments or characters matters.

| Module | Theorems |
|---|---|
| `SendCommandProofs` | `TypeCorrect`, `LedgerHolds`, `FallbackExclusive`, `ExitHonest`, `Implements` (SendCommand implements Delivery), `UsesAConnection` (and Connection) |
| `RpcClientProofs` | `TypeCorrect`, `WaitsAreBounded`, `ReturnsAnswers`, `ExitIsClean`, `Implements` (RpcClient implements Calls), `IsAConnection` (and Connection) |
| `ChildProofs` | of `ChildTermination`: `ChildTypeCorrect`, `CleansUp`, `NoneSurvives`, `EndedAreSpared`; of `QueueDelivery`: `TypeCorrect`, `LeavesNothing`, `NothingAbandoned`, `Implements` (runQueue implements Delivery) |
| `TargetScanProofs` | `TypeCorrect`, `Resolves`, `Refuses` |
| `InspectionProofs` | `TypeCorrect`, `PartsTrue`, `ListComplete` |
| `StreamProofs` | `DecoderTypeCorrect`, `DecoderLeavesNothing`, `DecoderStaysBounded`, `DecoderImplements` (FrameDecoder implements Messages); `TextTypeCorrect`, `TextKeepsThePrefix` |
| `InstallerProofs` | `TypeCorrect`, `NothingOlderLoaded`, `OkIsTrue`, `FailuresCleanUp` |
| `QueueLemmas` | what the operators on a child return, and that every step of `runQueue` and of `codex queue` keeps `QueueTruth` |

**send.** None of the properties is inductive. That a report is true depends on
what was known when it was printed, and on what can still happen afterwards;
that the fallback is exclusive depends on answers read several awaits earlier.
`SendLedger` therefore says what each position of the helper implies for the
wire, the queue child and the message: one request is in flight at a time
(`OneInFlight`); the connection is up only while something of it is awaited
(`LinkIsUsed`); a steer on the wire is either awaited or was reported as
`outcome_unknown` (`SteerIsAwaited`); nothing is handed over before the target
was read (`NothingBeforeSteer`); an answer to `turn/steer` says what happened
(`WhileSteering`); once the queue is called it is the only place left
(`OnceQueued`, `QueueTruth`); and the report and the exit status agree with all
that (`ReportTruth`, `ExitTruth`). The proof has a lemma for each of the three
things a continuation can do (issue a request, fall back, report), and one step
per action. The refinement then follows: a step maps to `Land` when `placed`
grows, to `Tell` when a report is printed, and to a stutter otherwise; the
ledger shows that the landing is the first one and that the report allows it.
`UsesAConnection` goes by cases on what a step does to the connection and to
what is awaited; `LinkIsUsed` and `OneInFlight` are what it rests on.

**runQueue.** `QueueTruth` ties the promise to the child: a timer is armed
exactly while the promise is pending; only a timeout sends signals, so an exit
code that turned into a status came from a child that was left alone; an absent
child has no end but the one Node invents for it. `NothingLingers` needs that
`close` comes last (`CloseIsLast`). `NothingAbandoned`: a promise is settled
with its child running only by the timeout, in the step that sends SIGTERM, and
no step undoes that.

**terminateChild.** `Sound` relates the fields of one child: the grace timer and
the `close` listener come and go together, an armed timer means SIGTERM but not
SIGKILL, handles are let go of when the timer is gone, and a child whose end was
seen is not alive. It holds of each child by itself, so the number of owners
does not matter. `EndedAreSpared` is an action property: no step sends a signal
to a child whose `exit` Node has seen, the late SIGKILL of the grace timer
included.

**RpcClient.** `CallTruth`: map, timers and open promises are the same set, and
every verdict is what the server said. `FrameTruth`: every answer in the stream
or the buffer is what the server said to that call. `RoundTruth`: all calls of
earlier rounds have results. `ProxyTruth`: the proxy is let go of only when it
has ended or was sent SIGKILL. The steps are grouped by what they do to the
calls (make, settle, break, be answered, nothing), so that the proof of the
refinement has a handful of cases rather than one for each of twenty-three
actions. `IsAConnection` needs more: whether the connection is up agrees with
what the operation was told (`LinkTruth`), and a call that could not be written
is looked at before another frame is, so a round that has failed is not answered
afterwards.

**resolveTarget.** `NothingStillIsSkipped`: as long as the scan goes on, a
bearer that stood still was on a page or is still behind the cursor. Only
changes of the thread itself can take it out of `behind`, and they end its
stillness. With the last page `behind` is empty, and the matches are all there
is; `Scanning` carries that to the end of the command.

**self, list, status.** `PartsSoFar`: each part that is there was true of its
thread, and while a part of a thread is there or asked for, so is the other one,
hence neither is missing when nothing is asked for any more. What makes it
inductive is that a goal names its thread, so the goal of another one is refused
(`GoalFacts`). `PageSoFar`: an unmarked page showed what was listed, and `still`
only shrinks afterwards.

**Sums of lengths.** Frames and text both count bytes over a sequence, and the
model has the sum as a recursive function (`Totals`). What it returns needs
induction. The induction theorems of the library take a predicate, which none of
the provers can instantiate; `SetInduction` says the same of a *set* of numbers,
and follows from the pigeonhole principle, which the library states without one.
With it, `SumsExist` (the function that `CHOOSE` defines exists), `SumsAgree`,
`TotalFacts` and `TotalConcat` are proved once, and used by both halves.

**Framing.** The three properties and `Sizes` (the counter is exact while the
connection is open, and within the limit) are inductive together. `NothingStuck`
holds since the loop stops on an open connection only for too few bytes, by
`ScanFrame`'s guards, and a chunk starts it again; `Bounded` follows from the
order of these guards: the length is refused before its payload is awaited. A
step maps to `Upgrade` when the answer is whole, to `Receive` or `Break` opcode
by opcode when a frame is taken from an open connection, to `Ignore` from a
closed one, and to a stutter while bytes are gathered. `Sizes` makes the code's
test of `fragmentBytes` and the rule of `Messages`, which has the lengths of all
parts, the same (`GatheredFacts`).

**Diagnostics.** `Fitting` chooses how many characters fit: `FittingFacts` shows
by induction that there is such a number. `CutFacts` then bounds the cut text by
its room and two bytes, character by character the same as the original, and
complete unless the room is used up. `TextInv` is the two properties together: a
text that is not all that was written has reached the limit, so nothing is ever
appended behind a broken character.

**Installer.** `NewestFirst`: along the manifest versions only fall, as the
entry is replaced last and a run that dies leaves the rest as it was. This is
what makes the order of `skill-files.txt` matter. With it, `AsNewAsEntry`: when
the entry was read, every file was at least as new, and files are never put
back. `OkMeansInstalled` needs that a run has done the lines before the one it
is at, other runs notwithstanding (`Done`): they copy from the same checkout.

**Only model-checked.** What has fairness: `Terminates` (of `SendCommand` and of
`RpcClient`), `SettlesAndLetsGo` and `LetsGo`. The prover has no rules for
`ENABLED`, so liveness is out of its reach. Every other property of a passing
run is a theorem.

**Trusted.** The theorems about delivery hold for the environment of `AppServer`
and `QueueRunner`: a refusal with one of the three codes is final, a confirmed
`turnId` is the turn that took the input, and an undisturbed `codex queue` exits
with 0 if and only if it queued the message. Those about target resolution take
it that `thread/list` pages by a cursor in the order of `updated_at` it is asked
for, and that its last page has no cursor; those about the installer, that the
checkout only moves on, and not under a run.

## 5. What was found

`send_report`: `onFrame` answers every ping with a pong, also after `close()`;
`sendFrame` then throws (`app-server.mjs:258`, `401-403`) inside the `data`
handler of stdout, where nothing catches it. Between `close()` and the release
of the proxy, up to 250 ms later, a ping therefore ends the helper with status 1
and a stack trace. If it was waiting for `codex queue`, the message may be
queued and no status was printed, while the result table of the repository's
`README.md` has `outcome_unknown` for an attempt whose acceptance cannot be
told. After an `accepted` report was printed, the same ping turns exit status 0
into 1. The delivery itself is not affected: `ImplementsDelivery` holds with
`PingThrows` in the model, as nothing was reported. `OnPing` of `RpcClient` is the
same step at the level of frames. A client that is still open throws as well, on
the second of two pings in a chunk when the pong for the first could not be
written; that takes a proxy whose stdin fails, and the models have it too.

`duplicate_names`: `resolveTarget` reads the pages of `thread/list` one after
the other (`sessionctl.mjs:312`). A thread that is updated while it is still
behind the cursor moves in front of it and is on no later page. A name that two
threads bear the whole time can therefore resolve to one of them without
`ambiguous_target`, while `session-coordination/SKILL.md:14` says "Stop on
missing or duplicate names". It takes more than one page, that is more than 100
threads. The first page of the trace may be empty and have a cursor, which the
code accepts; one that holds another thread does as well. `ResolvesToTheOne` is
what is true instead.

`stderr_limit`: `appendBoundedText` cuts a chunk at the bytes that remain and
decodes them (`process.mjs:35`). A character cut after its first or second byte
becomes U+FFFD, of three bytes, so the text can be one or two bytes over
`MAX_STDERR_BYTES`, which the comment at `process.mjs:24` says is kept. The run
has a limit of 6: behind four bytes, a character of three is cut after two, and
its U+FFFD makes 7.
`TextTypeOK` has the bound that holds, two bytes more.

Observations that contradict no claim of the repository:

- A helper that starts during a sync can load modules of two versions. None is
  older than its entry, but one that was read early (`process`, through `queue`)
  can be older than another that imports it and was read after its replacement
  (`app-server`).
- A run of the sync script that gets SIGKILL, or a signal between `mktemp` and
  the assignment of its result, leaves a temporary file that every later run
  refuses as unmanaged until somebody removes it. `LitterOnlyAfterSignal` is the
  rest of it: it tolerates what a signalled run leaves, and excludes all other
litter.
- Two runs of the sync script at once can refuse each other's temporary file.
- Text that reaches the stderr limit exactly at the end of a character is cut
  without being marked as truncated, since `boundedText` only sees what was
  kept.
- The limit of the handshake counts frames that follow the header in the same
  chunk: a server that sends a long message right behind its answer is refused.
  `Messages` lets the answer break for it.

## 6. What is not modelled, and why

- *Outgoing bytes* (`encodeClientFrame`, the upgrade request, the JSON of a
  request): straight formatting of what is sent, with no state and no branch but
  the size of the length field. That a write fails is an outcome of every
  request.
- *Shapes*: which JSON fields `normalizeThread`, `normalizeGoal` and
  `validation.mjs` accept. Their effect, a refused answer, is an outcome of the
  action concerned; the checks that relate an answer to its question (own
  thread, own goal, turn id of the steer) are modelled.
- *Arguments, envelopes and output formats.* A usage error ends the command
  before it has any state.
- *Failures of spawn beyond ENOENT* (a child without pipes, when file
  descriptors run out): `runQueue` then throws before its timer is set, which is
  the outcome `"threw"`; for the proxy the constructor throws, which is the
  error exit of `Start`.
- *File types and permissions in the installer*: every one of its checks that
  refuses a path is a command that fails.
- *A checkout that moves under a run of the installer*, or back to an older
  version: the procedure in the repository's `README.md` syncs after a pull.
  Both would void `OkMeansInstalled` and `LoadsNothingOlder`.
- *Bundle check, pre-push gate, CI*: sequential scripts over other tools; they
  keep no state.
- *Skill document and agent manifest*: text. What it says of delivery and of
  names is checked in `Delivery`, `SendCommand` and `TargetScan`.

## 7. Plan

Done, in this order: Outcomes, Delivery, ChildProcess, QueueRunner, AppServer,
SendCommand; Calls and RpcClient; TargetScan, Inspection, Messages and
FrameDecoder, Connection, BoundedText, Installer; each with its run, and the
proofs of section 4.

Left:

1. `resolveTarget` is modelled twice, in `SendCommand` with pages that hold any
   number of matches and in `TargetScan` with pages cut from a table. An
   abstract scan that both implement would tie them together, as `Connection`
   does for the client.
2. A bound for what `boundedText` tells, with its mark, as a property of its own.
