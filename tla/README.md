# nano-pow-server in TLA+

A verification project for the proof-of-work server of this repository: the C++
server under `src/src/` (about 2,400 lines), which takes `work_generate`
requests over HTTP and WebSocket, queues them, and generates Blake2b work on a
pool of devices. Paths below are relative to the repository's root; `src/...`
is the server's own source directory.

## 1. Inventory

| Component | State it keeps | Operations | Talks to |
|---|---|---|---|
| Work handler (`work_handler.hpp/.cpp`) | priority queue `jobs`, pool, devices with a `busy` flag, `active_jobs` (references), `completed_jobs` (ring of 128), three mutexes, a global id dispenser | `handle_request_async` (generate, validate, cancel), `handle_queue_request`, `handle_queue_delete_request`, the pool task | called on I/O threads; answers through a callback, from pool threads |
| Work generation (the task's search loop, `util.hpp`) | work value, iteration counter, result bytes | search, give up, mock; byte orders | OpenSSL's Blake2b |
| HTTP session (`webserver.hpp`) | request, response queue (limit 8), client's version and keep-alive, one-hour timer | read, handle, write, upgrade, shutdown | its strand; pool threads call `write_json_response` directly |
| WebSocket session (`webserver.hpp`) | `ping_state_`, 15 s timer, send queue | accept, read, ping, close, `write_response` | its strand; pool threads post to it |
| Listener, web server, `main` | acceptor, `io_context`, thread vector, signal set | accept, run, stop, destroy | owns everything above |
| Configuration (`config.hpp`, on top of cpptoml) | the tree of options and file; the settings and devices read from it | parse, merge, read, export | `main` hands its values to the work handler and the web server |
| Endpoints, static pages, URL helpers (`webserver.hpp`) | the registered endpoints | match, serve a file, deny, upgrade | HTTP session |
| Admin page (`public/`) | none that matters | show the queue | HTTP session |
| M3 worker (`lib/m3-nano-pow`) | GPU buffers, request loop | generate in batches, with a time-out | HTTP |
| `nano-pow` command line (`installer/nano-pow`) | configuration and state files, services | setup, start, stop, tunnel, heartbeat | launchd, systemd, curl, ssh |
| Installers, service scripts, vendored code (`deps/`) | - | - | - |

What is hard here, and what each part owes its users:

* **Work handler.** A posted task does not name a job: it pops whichever is on
  top. Cancels and deletes take jobs but no tasks. I/O threads, pool threads and
  queue reports interleave over three mutexes. Owed: one answer per request, a
  device used by one thread, no job lost or generated twice, tasks and jobs in
  balance, the limit and the order of the queue, no deadlock.
* **Work generation.** 64-bit words in little-endian, `u128` in big-endian, a
  response formatted by hand, thresholds by integer division, a counter that
  wraps. Owed: the work that is printed is valid and has the difficulty asked for
  as a number or a multiplier; the search ends.
* **HTTP session.** Pool threads enter the response queue outside the strand.
  Owed: one read and one write at a time, order, the limit, reading resumes.
* **WebSocket session.** A timer races the peer and its own ping; messages are
  posted from other threads. Owed: order, one write at a time, only silent peers
  are closed and those always are.
* **Sessions over one handler.** Connections share a queue and take each other's
  jobs away. Owed: an answer for every message, whatever the other does.
* **Configuration.** Options and file are one text to the parser, and the first
  value stays. Owed: what the operator wrote is what the server does.
* **Process.** Threads start, sleep in `on_accept`, and end while tasks run;
  destructors run in declaration order. Owed: a signal ends the process cleanly.

`PROJECT.json` lists the hazards one by one, each at its line.

## 2. Modules

| Module | Models | Checked by |
|---|---|---|
| `WorkHandler` | the work handler, one action per critical section or unlocked step | `pool`, `liveness`, `answer_mismatch` |
| `WorkHandlerProofs` | types, devices, answers, owners of jobs, queue and tasks, active and completed jobs, mutexes, reports | tlapm |
| `WorkExchange` | what the work handler promises, without threads | `pool`, `end_to_end` |
| `WorkHandlerRefinement` | the mapping of `WorkHandler` to `WorkExchange` | `pool` |
| `WorkHandlerRefinementProofs` | ids, the order of the queue, the refinement | tlapm |
| `PowSearch` | one generation: difficulty, search, result bytes, response | `search`, `wide_difficulty` |
| `PowSearchProofs` | bytes, numbers and thresholds; the work that is printed | tlapm |
| `HttpSession` | one HTTP connection | `http_pipelined`, `http_underflow`, `end_to_end` |
| `HttpSessionProofs` | an HTTP connection the strand serves; a client that waits | tlapm |
| `WebsocketSession` | one WebSocket connection | `websocket`, `end_to_end` |
| `WebsocketSessionProofs` | sends and timer of a WebSocket connection | tlapm |
| `EndToEnd` | both sessions over the exchange, as `main` connects them | `end_to_end` |
| `EndToEndProofs` | keep-alive and the balance of jobs when sessions share a handler | tlapm |
| `Configuration` | options, file, parser, the constructor of `config` | `configured` |
| `RequestRouting` | endpoints, pages, upgrades: the answer to a request | `configured` |
| `ConfiguredServer` | `main` from the command line to the answers | `configured` |
| `ConfiguredServerProofs` | what the parser makes of any options and any file; settings, devices, answers | tlapm |
| `ServerLifecycle` | start-up, accept loop, shutdown, destructors | `lifecycle`, `shutdown` |
| `ServerLifecycleProofs` | threads and the `io_context` | tlapm |

`MC<module>` extends a module with what its TLC instances need. A definition
whose comment begins with "Variant of" is a plausible bug of the definition that
follows; it is used only to see that a property notices it.

### WorkHandler

A job is named by the request that created it (`hash`, `pri`, `id` are its
fields). `Begin` takes an id and parses (a missing hash is `NoHash`); `Push` and
`Reject` are the critical section with the limit; `Post` is
`boost::asio::post`. A pool thread goes `idle -> pop -> scan -> insert -> search
-> release -> lock -> retire`, the order of the task's statements: `Start`,
`Pop`/`NoJobs`, `TryAcquire` (one exchange of a busy flag per step, as
`find_if` does), `InsertActive`, `Respond`, `Release`, `LockActive`, `Retire`;
`Fault` is the `catch` block. A mutex that is held across steps has an owner
variable; a step inside a single `lock_guard` is guarded by the mutex being
free. `active_jobs` is a `std::set` of references ordered by the job comparator,
so `MayInsert` and `Erased` work by key. `arrival` and `removed` are history.

### WorkExchange and the refinement

The exchange has requests, jobs and answers and nothing else: a request that is
let in deposits a job and waits, claims the job whose turn it is (not
necessarily its own), and is answered once. `WorkHandlerRefinement` maps the
detailed state to it: a request is "asked" from `Begin` to the critical section
of the push, "working" from the pop of its task to its answer, "waiting" in
between; the jobs of the exchange are the priority queue, its turns the order of
the ids. `Push` is `Deposit`, `Reject` and the malformed branch are `Refuse`,
`Pop` is `Claim`, `Respond` is `Deliver`, `NoJobs` is `TurnAway`, the failures
after the pop are `Abandon`, cancel and delete are `Withdraw`; every other step
leaves the exchange as it is. `ImplementsExchange` says so and is checked as a
property of the `pool` run. That a request is answered in the end is checked in
the detailed model itself (`EveryRequestAnswered`).

### PowSearch

`digest` stands for Blake2b: any function of a family of maps of the words, as
the first eight bytes of the hash read little-endian. Words have `WordBytes`
digits of base `ByteMod`, so byte order matters in the small instance as it
does in the large; `Power` is a recursive function, which lets the module be
proved about. `Try` is one turn of the loop, `Finish` fills in the result and
formats the response, `Mock` is the testing branch. `Parse` takes the
difficulty from the request: its multiplier if there is one, else its text,
else the base, which is any `u128`, 0 included. Multipliers are fractions, so
that the truncation to an integer is kept and the rounding of doubles is not. Of
a product that does not fit a `u128` the low 128 bits stay: the conversion of
Boost's unchecked integers, which is code outside `src/`.

### HttpSession

Requests are numbered as they are read. An endpoint answers on the strand
(`OnReadSync`) or later from a pool thread (`OnReadAsync`). `StrandSpec` is a
connection whose requests are all of the first kind, `Spec` any connection.
Handlers on the strand are atomic except `queue::on_write`, which is split after
the erase (`OnWriteErase`, `OnWriteNext`), and the pool's `queue::operator()`, split after the push
(`PoolPush`, `PoolKick`): these two really overlap. `Flush` is the moment the
client has the response, which may be before `on_write` runs. Tearing inside the
unsynchronised `std::vector` is not modelled, so the model is kinder than the
code.

### WebsocketSession

Handlers on the strand are atomic. `posted` are the lambdas posted by
`write_response`; `queue` is `send_queue_`. `wire` says which message a write
carried, not whether its bytes survived.
`OnRead` leaves the answer to the pool, `OnReadAnswered` is a message whose
handler answers before it returns. Cancelled waits that are issued again are no
steps. The gap between the end of the handshake and `on_accept` is not modelled.

### ServerLifecycle

`main` follows the main thread from `webserver::start` through the joins and the
destructors of `ws` and `work_handler` in their order. Threads inside
`ioc.run ()` are counted; a handler is a step of one that is not asleep. Use of
a destroyed object is recorded and then goes on or crashes. `listener` may fail
to open or bind at start, as the code tolerates. The loop that spawns threads
counts down from the capacity of a vector, in a `size_t` of `SizeMod` values: for
one requested thread it wraps, and the loop goes on until the system has no more
threads (`MaxThreads` at most) and `std::thread` throws (`SpawnFails`, possible
before that, too). An exception that leaves `start` destroys `ws` and
`work_handler` on its way to the handler in `main`, unless threads were spawned:
they are joinable, so their destructors end the process (`Unwind`).

### EndToEnd

The two session modules and `WorkExchange` are instances over the variables of
this module, and every step is a step of one or of two of them: a handler runs
inside `on_read`, so a session's strand is taken from `Ask` until the exchange
has let the request in (`HttpLetIn`, `WsLetIn`) or refused it; the pool's answer
is a step of the exchange together with `PoolPush` or `WriteResponse`; a control
request is a step of the session together with a step of the exchange or none:
`work_cancel` comes over both kinds of connection (`CancelOrOther`), the DELETE
that clears the queue over HTTP only (`ClearQueue`). Using the
exchange in the place of `WorkHandler` is what the refinement is for; it keeps the
product of three components within TLC's reach. Timers, upgrades and half-closed
streams stay in the modules of the sessions.

### Configuration, RequestRouting, ConfiguredServer

A TOML line is a header, an array header, a key (dotted or not), a comment or
garbage; the tree maps paths to tables, arrays and literals. `ParseLine` is one
line, with the exceptions cpptoml throws (`Legal`) and with
`merge_type::ignore` (`Insert` keeps what exists). The elements of an array are
tables named by their number. As `parse_base_and_override_files` does, the file
is parsed by itself first, without repetitions, and then the options and the
file as one text. `ReadSection` and `ReadDevices` are the constructor of
`config`, a section at a time; `ReadError` is its exceptions and the null
pointer of `get_table`. Literals are classes of values: what matters is which
of the C++ types accept them. `RequestRouting` is `handle_request` and the
upgrade branch of `on_read` as an operator from a request, the configuration
and the state of the files to the answer. `ConfiguredServer` joins both with
what `main` hands over (`WebConf`).

The properties compare the settings with the text itself, without a tree:
`Place` is the path a line is about by its last header, `Said` what it makes of
the key it mentions (something below a key makes it a table), `Says` what the
first such line says, and `Meant` asks the options before the file. Two
assumptions on the constants say what a text is here: sections have one name and
keys one or two, with a literal for a value (`LinesAssumption`), and the elements
of an array have different names (`NamesAssumption`, which is about
`ToString`). `config.hpp` writes and reads no others.

Devices are counted in the same way: `DeviceEntry` is the number of `[[device]]`
headers up to a line, so the device that line belongs to, and `Wrote` what is
said first of a key of that device. `DevicesAsListed` compares the number of
devices, and every value of each, with these. It leaves out two things. Texts
that run into each other are not `Separate`. And a text with both forms, `[device]`
and `[[device]]`: in a file alone that is a parse error (but for an element that
holds nothing except tables), yet after options with `--config [[device]]` a
`[device]` of the file opens the last device of the options again, and under
`merge_type::ignore` what it says of a key that device already has, a `type` that
does not exist included, is dropped.

`PowSearch` is what happens between `InsertActive` and `Respond` of
`WorkHandler`, and `TaskRespond` in `ServerLifecycle` is its answer.

## 3. Runs

Passing runs:

| Run | Instance and why it is enough | Shows |
|---|---|---|
| `pool` | 3 requests, 2 hashes, 2 priorities, 2 devices, 2 I/O threads, limit 2, ring of 2; symmetric in requests and hashes. A third request is needed to meet the limit, a full ring and a queue with a choice while both devices are busy. | `DeviceExclusive`, `DriverAvailable`, `OneOwner`, `TasksMatchJobs`, `QueueBounded`, `ActiveAlive`, `FifoWithinPriority`, `ImplementsExchange` |
| `liveness` | 2 requests, 2 reports, 3 I/O threads, 1 device, 1 fault: reports wait for each other and for a finishing task, and a request meets a leaked device | `AnsweredOnce`, `ReportConsistent`, no deadlock over the three mutexes, `EveryRequestAnswered`, `QueueDrains`, `ReportDelivered` |
| `search` | words of two base-3 digits, `u128` of three; all difficulties as text, short, empty and malformed texts, nine multipliers with base 2 (some below 1/2, which give difficulty 0; bases beyond a word, base 0 and products that do not fit a `u128` are left to the proofs), start values and 45 hash functions; 5 turns with a redraw every 3 | `FoundWorkIsValid`, `WorkMeetsRequest`, `SearchEnds` |
| `http_pipelined` | `StrandSpec`, 10 pipelined requests against the code's limit of 8: the queue fills, drains and fills again | `SingleRead`, `SingleWrite`, `QueueLimited`, `ResponsesInOrder`, `NeverDeaf`, `ResponsesWritten` |
| `websocket` | 3 messages: the send queue holds one being written and two waiting | `OneWrite`, `WireOrder`, `ClosedOnlyWhenSilent`, `SilentPeerClosed`, `ResponsesSent` |
| `end_to_end` | 2 HTTP requests and 1 WebSocket message, a limit of 1 job, 1 worker: either client finds the queue full, emptied by the other, or taken | `TurnedAwayOnlyForWithdrawn`, `HttpKeepAlive`, `EveryMessageAnswered` |
| `configured` | all command lines of up to 2 of 6 options with all files of up to 3 of 7 lines, 12 odd files (values beyond 32 bits, a device with three keys among them), options that make a table of a key, and the generated file; 10 requests | `SettingsAsWritten`, `DevicesAsListed`, `GeneratedFileIsDefault`, `PermissionsRespected`, `WorkReachable` |
| `lifecycle` | 1, 2 and 4 requested threads of which the system spawns at most 3 or fails before, `size_t` of 5 values, 2 clients, a pool of 1 | `IoThreadsGoneFirst`, `StartedTasksFinish`, `ShutdownEnds`, `RequestHandled` |

Deadlock is checked in all of them; a model that has finished stutters in an
action of its own (`Quiet`, `Done`, `Released`, `Destroyed`, `Gone`, `Over`,
`Ended`).

Violation runs check what a comment or an assertion of the code says, and find
that the code does otherwise; `PROJECT.json` quotes the line.

| Run | Property | What happens |
|---|---|---|
| `answer_mismatch` | `AnswerMatchesRequest` | a task takes the top job and answers its own client with it: the work is for another hash |
| `wide_difficulty` | `MeetsWholeDifficulty` | a difficulty above 2^64 is cut to its low word, and the work found does not meet it |
| `http_underflow` | `NoUnderflow` | a pool thread, off the strand, and `on_write` start the same response; the second completion finds the queue empty. This needs no pipelining, and the client may lose its next response |
| `shutdown` | `CleanShutdown` | on a signal, running tasks use sessions, queues and mutexes that have been destroyed |

Other things the models contain and that a maintainer should know, without a
run of their own:

* `work_cancel` leaves the task of the cancelled job behind, and some other
  request is then told "No jobs available" (`TasksMatchJobs` counts them).
* A `runtime_error` during generation leaks the device and leaves a dangling
  reference in `active_jobs`: `pool` with `MaxFaults = 1` violates
  `DriverAvailable` and `ActiveAlive`.
* Once job ids wrap, newer jobs overtake: `pool` with `IdMod = 3` and
  `RequestLimit = 3` violates `FifoWithinPriority`.
* With work requests among the pipelined ones (`Spec`, `Window = 3`),
  `HttpSession` also violates `SingleRead`, `QueueLimited`, `ResponsesInOrder`
  and `KeepAliveOfRequest`: the keep-alive of the last request read is applied
  to whichever response comes next. `HttpKeepAlive` shows that a client that waits
  for each response is safe from it.
* A frame that arrives while a ping is being written resets `ping_state_`, and
  the next deadline may start a second ping over the first.
* A multiplier below 1/base gives difficulty 0, for which no work exists.
* An option that is a header (`--config [server]`) governs the keys at the top
  of the file; hence `Separate` in the properties of `configured`.
* `--config device.threads=2` with a file that has `[[device]]` is a parse error,
  so the process does not start.
* `--config [[device]] --config type="gpu"` with a file that holds `[device]` and
  `type = "tpu"` is one gpu device: the file's entry is taken for more of the
  options' last one, and its type is ignored, not refused.
* The generated file has an empty `[device]`, which is one cpu device; without a
  file there is none, and every request is told so. The keys it documents as
  `device_id` and `platform_id` are read as `device` and `platform`, and its
  `memory` of 0 is not the default of 2048.
* `[[server]]`, or `server = ...`, makes the constructor use a null pointer.
* A query after the path of an endpoint makes it no endpoint (a page is looked
  for instead), but not for a WebSocket upgrade; an upgrade to an unknown path is
  neither answered nor is the connection read again.
* An exhausted search returns a work value that was advanced after its last
  hash, with the requested difficulty as the result's, although the log says
  "returning best attempt".
* `job.result.work` holds the value in its first eight bytes, little-endian;
  `GET /queue` prints all sixteen as a big-endian number. The mock result fills
  the other eight, so mock responses say 0.
* `write_queued_messages` gives `async_write` a buffer over a local string.
* `webserver::start` makes n - 1 threads run the service for n requested, against
  its comment, and with one requested thread its counter wraps and it spawns
  threads until `std::thread` throws, which ends the process.
* `remote_endpoint ()` throws in `on_accept` when the peer is gone, which ends
  the process (`OnAcceptGone`).

### Bounds

`MaxFaults`, `MaxRequests`, `MaxMessages`, `MaxHttp`, `MaxWs`, `MaxIterations`,
`IdMod`, `SizeMod` and `MaxThreads` are the only bounds; each is a constant. `IdMod`
is larger than the number of requests, so that ids do not wrap.

### Fairness

Weak fairness of the threads that are in the middle of something: I/O threads
past `Begin`, reports past their first lock, pool threads, strand handlers, the
main thread. The operating system and Asio's scheduler give that much. Clients,
signals, faults, time-outs of HTTP and the completion of a ping have none. Of the
network only this is assumed: a peer reads what it is sent (`Flush`,
`OnWrite`) or the write fails, and the WebSocket timer fires (`Deadline`).
`EndToEnd` needs no more than the pool, handlers that have begun, and the
WebSocket's sends. `Request` in
`ServerLifecycle` has strong fairness, because the `io_context` runs ready
handlers first in, first out, while errors of accept put a thread to sleep
again and again. Mutexes need no more than weak fairness in the instances that
are checked: a finite number of requests and reports compete for them.

## 4. Proofs

Every theorem holds for every value of the constants that the named assumptions
of the modules allow: any finite set of requests, any readers, hashes and
priorities, any positive number of devices and I/O threads for the work handler
(`ConstantsAssumption`), any sizes of bytes and words, any hash functions and
requests for the search, any command lines and files, any number of requests or
messages and any queue limit for the sessions, any thread counts that fit a
`size_t` for the process. Each inductive invariant was checked with TLC on the
instances of section 3, or on smaller ones of the same kind (`ServerInv`: files
of two lines, and of all names those that occur), before it was proved. Where a
theorem assumes more, it says so.

### Work handler: `WorkHandlerProofs`

* `TypesAlwaysOK` (from `TypeCorrect`): `Spec => []TypeOK`. The inductive
  invariant adds `FrameOK`: a thread past the pop has a job in its frame, without
  which `completed` could not be shown to hold requests only.
* `DevicesExclusive`: `Spec => []DeviceExclusive`. The inductive invariant
  `HoldInv` adds `DevRange`, where a thread may stand in the list of devices; a
  thread that wins a busy flag found it clear, so no holder had it, because
  holders' devices are busy.
* `DriverAlwaysAvailable`: without faults, `Spec => []DriverAvailable`, the claim
  of the comment at `src/workserver/work_handler.cpp:221`. That there are as many
  threads as devices is not enough: a device behind a scanning thread may be
  released after the thread passed it. The invariant that works is `CountInv`:
  for every i, at most `NumDevices + 1 - i` threads have reached device i or
  beyond. A thread moves past device i only when it is busy, thus (`BusyHeld`)
  held by another thread, which counts at i but not at i + 1, so the move keeps
  the count. If all devices from `dev[t]` on were busy, their holders and t would
  be one too many (`FS_Injection`). The assumption `MaxFaults = 0` is
  needed: with one fault TLC finds a violation.
* `AnsweredAtMostOnce`: `Spec => []AnsweredOnce`. The inductive invariant
  `TaskInv` follows the one task of a request: a request that an I/O thread still
  works on has no answer (`StageInv`); a posted task is its request's only one
  (`PostedInv`); so is a started one, and it has answered exactly if it is past
  the search (`StartedInv`).
* `JobsOwnedOnce`: `Spec => []OneOwner`. `JobInv` adds `PushedFirst` (whatever is
  queued, owned, removed or delivered was pushed, so a push brings a job that is
  nowhere yet) and `NotYetDelivered`.
* `QueueAlwaysBounded`: `Spec => []QueueBounded`. The test and the push are one
  critical section; the rest is counting.
* `TasksAlwaysMatchJobs`: `Spec => []TasksMatchJobs`, an equation of four
  cardinalities. A push adds one on each side, a pop takes one from each,
  "No jobs available" moves a request from the waiting to those turned away, and
  a removal moves jobs to the removed ones. It rests on `TaskInv` and `JobInv`:
  without them a set might not change by exactly one.
* `ReportsConsistent`: `Spec => []ReportConsistent`, with faults. A report gives
  `jobs_mutex` back before it reads the other two lists, so the argument is about
  the locks that remain. `LockInv` says which mutex a report or a retiring thread
  holds at each step, `BookInv` that active and completed jobs are not queued and
  completed ones not owned, `CopyInv` that none of the jobs in a report's copy
  gets into the lists while the report still holds their mutexes.
* `ActiveAlwaysAlive`: without faults, `Spec => []ActiveAlive`. `AliveInv` names
  the steps a thread is at while its job is active. With a fault TLC finds the
  dangling reference.

### Work handler: `WorkHandlerRefinementProofs`

Both theorems assume `Cardinality(Requests) < IdMod`: fewer requests than job ids,
2^32 in the code; when ids wrap, `FifoWithinPriority` is false.

* `FifoAlways`: `Spec => FifoWithinPriority`, an action property about every pop.
  `IdInv` ties the dispenser to the number of requests that have begun and each
  id to the order of arrival; the comparator then orders by priority and arrival.
* `WorkHandlerImplementsExchange`: `Spec => ImplementsExchange`. The initial
  state maps to the exchange's, and there is a lemma for each group of actions:
  `Begin` is `Ask`, `Push` is `Deposit`, `Pop` is `Claim`, and so on as in
  section 2; all other steps leave the mapped state alone. The phase and the
  claim of a request are read off the one thread that works for it, so the
  mapping is well defined only by `TaskInv` and `JobInv`; that the popped job is
  the one whose turn it is comes from `IdInv`.

### Sessions: `WebsocketSessionProofs`, `HttpSessionProofs`

* WebSocket: `SessionTypesOK`, `OneWriteAtATime` and `PeerReceivesInOrder`
  (`OneWrite`, `WireOrder`) by one invariant, `SendInv`: while the stream is open
  the messages in the order of `write_response` are what the peer has, followed
  by the send queue, followed by the posted lambdas, and the write under way is
  of the front of the queue. Once it is closed the wire no longer grows.
  `ClosesOnlyTheSilent` proves the action property `ClosedOnlyWhenSilent` from
  `QuietInv`: a passed deadline and a ping each stand for one deadline of silence.
* HTTP: `TypesAlwaysOK` for any connection; under `StrandSpec`, where the strand
  alone answers, `OneReadAtATime`, `OneWriteAtATime`, `QueueAlwaysLimited`,
  `ClientSeesRequestOrder`, `ConnectionNeverDeaf`, `StrandNeverUnderflows` and
  `StrandKeepsAlive`, all from `StrandInv`. None of its parts is inductive alone:
  the limit needs that a read is outstanding only while there is room
  (`ReadInv`), the order needs that the write under way is of the first item
  (`WriteInv`) and whether the client already has it (`OrderInv`), and reading
  resumes because a full queue has a write under way (`HealthyInv`). The run
  `http_underflow` shows `NoUnderflow` violated once the pool answers: the
  theorems locate the defect in the calls off the strand.
* `WaitingClientKeepsAlive`: with the pool, for `Window = 1` (a client that waits
  for each response), `Spec => []KeepAliveOfRequest`. `PolledInv`:
  only the last request can be with the pool, and the session's keep-alive is
  still that request's.

### Composition and process: `EndToEndProofs`, `ServerLifecycleProofs`

* `HttpAlwaysKeepsAlive`: `Spec => []HttpKeepAlive`. The theorem about the
  session alone is used again: every step of `EndToEnd` is a step of its HTTP
  session or leaves it alone (`HttpSteps`), so `PolledInv` is preserved.
* `TurnedAwayForWithdrawn`: `Spec => []TurnedAwayOnlyForWithdrawn`. The promise of
  the exchange is an inequality here: `CountInv` says that waiting requests and
  those turned away are at most the jobs that wait and the withdrawn ones, and
  that no more jobs wait than requests.
* `IoThreadsAlwaysGoneFirst`: `Spec => []IoThreadsGoneFirst`. `ThreadInv` keeps
  track of where a thread asleep in `on_accept` is counted, of how far the
  main thread has come when `ws` is destroyed, and that no more
  threads are inside `run ()` than were spawned: an exception destroys `ws` only
  when none were.

### Work generation: `PowSearchProofs`

For every size of a byte, a word and a `u128` (at least a word), every hash
function and every request. The two inductive definitions of the module, powers
and the numbers that digits spell, are reasoned about with the least element of
a set of numbers (`LeastElement`, `UpwardInduction`): each induction names the
set of the numbers for which its claim holds, so no operator has to be a
parameter. `HornerExists` shows that the recursive functions are defined.

* Bytes: `RoundTrip` (the digits of a number, highest first, spell it), and from
  it `PrintedWork` (bytes 7 to 0 of the first word of the `u128` are the work
  value), `SetNumber` (`bigint::set` and `number` are inverse) and `TextNumber`
  (`from_hex` gives the number the text spells).
* `PrintedWorkIsValid`: `Spec => []FoundWorkIsValid`. `SearchInv` says of found
  work that its hash is below the threshold (`Hit`) and of a finished search that
  the result bytes and the response are those of the work value (`Reported`);
  a work value that advanced after the last hash is not found work.
  `BelowThreshold` is the arithmetic: a hash below `MaxWord \div d` has a
  difficulty of at least d.
* `RequestIsMet`: `Spec => []WorkMeetsRequest`. The difficulty is what the request
  asks for (`Asked`), here one that fits a word before it is cut to a `u128`
  (`FitsWord`); for a multiplier, `DivMod` bounds what the truncation loses. What happens to a difficulty that does not fit a word is
  the run `wide_difficulty`.

### Configuration: `ConfiguredServerProofs`

For every set of command lines and of files that `LinesAssumption` and
`NamesAssumption` allow, of any length, and every set of requests. The parser's
fold over lines needs no induction over texts: it is a state machine, and
`ParserInv` says what the tree is in terms of the lines before `pos`, once options
and file are read as one text.

* `HeadersInv` and `CurrentInv`: the headers read are in the tree, and the last
  of them leads to the current table, the last element if it is an array's.
  `SectionsInv`: a section is there exactly if some line is about it. `KeysInv`:
  a key of a section that is a table is what its first line says. `ElementsInv`:
  an array has as many elements as headers. `ParentInv`: nothing hangs below a
  literal. None is inductive alone: a header's table is known by the elements,
  the first line for a key by the current table, the elements by what may be
  below an array.
* A line adds to the tree at most some sections T and some keys K
  (`LineFacts`), and there is one lemma for each kind of line, plain or dotted,
  at the top, below a table or below an array. `ParseLine` then keeps each part of
  the invariant by what it says of T and K.
* `SettingsWritten`: `Spec => []SettingsAsWritten`. What is left is about the two
  texts as one: a line of the file keeps its place unless the last header of the
  options governs it, hence `Separate`; what the combined text says first is what
  the options say, or else the file.
* `DevicesListed`: `Spec => []DevicesAsListed`. How many devices there are is
  `ElementsInv`; which value a key of one has is `ElementKeysInv`: element m has,
  for each key, what the first line says that mentions the key after m array
  headers. A key line writes into the last element, and for that `LastElementInv`
  keeps that the current table below an array is the one numbered by the headers
  so far. The theorem then follows lines of the two texts into the combined one,
  which takes `Separate`: otherwise the first lines of the file would be the
  options' last device.
* `GeneratedIsDefault`: `Spec => []GeneratedFileIsDefault`. The generated file is
  four headers and comments: no key is said, and there is a table `device`.
* `PermissionsHold` and `WorkIsReachable`: `Spec => []PermissionsRespected` and
  `Spec => []WorkReachable`. `Answers` remembers that an answer was given by a
  server whose settings are those of the text; then `handle_request` is a matter
  of cases.

### Only model-checked

* All liveness properties (`EveryRequestAnswered`, `QueueDrains`,
  `ReportDelivered`, `SearchEnds`, `ResponsesWritten`, `SilentPeerClosed`,
  `ResponsesSent`, `EveryMessageAnswered`, `StartedTasksFinish`, `ShutdownEnds`,
  `RequestHandled`), and with them the absence of deadlock: fairness and ENABLED
  are beyond the prover.

Every invariant and action property of a passing run, and the refinement, is
stated by a theorem above.

## 5. Not modelled

* Parsing and formatting of JSON, the characters of TOML, logging, MIME types,
  the bytes of static files, the rounding of doubles: data no property tells
  apart.
* `work_validate`, which answers at once that the work is valid and changes
  nothing.
* Data races on the result bytes of an active job seen by a report, and inside
  `std::vector`; the model is kinder than the code there.
* The M3 worker, a program of its own whose buffers belong to the GPU driver; the
  command line and the installers, whose state is files and services of other
  programs; the admin page; vendored code beyond what `config.hpp` uses of cpptoml.

## 6. Plan

Done: all models and runs above; the proofs of section 4, which state every
safety property that a passing run checks.

Next, in this order:

1. What the pool keeps intact in `HttpSession` under `Spec` with a client that
   waits: no response lost or sent twice before the first underflow.
2. The M3 worker, once a test or a document says what its batches owe to the
   server.
