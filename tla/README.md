# A TLA+ development of bc3-miner

bc3-miner is a stratum miner for the BC3Hash proof of work. One process runs a
stratum thread, CPU threads, one worker per GPU, and a few supervisor threads;
they share a job slot, a handful of atomics and a queue of found shares. This
directory models that core, checks it with TLC on small instances and proves
its main safety properties with TLAPS for instances of any size. Around the core
it models what a GPU worker rests on: finding its device, the backend's queue on
the device, launch sizes and the tuning of the table window; and what stands
around the mining: the desktop window with its settings, the status the user is
told, the offline solver with the targets it goes by, the benchmark's comparison
of windows, and the hash's tables from their build to the process's exit.

## The system

| Part | State it keeps | Operations | Talks to |
|---|---|---|---|
| Job slot (`src/src/shared.rs`) | `Mutex<Option<MinerJob>>`, condition variable, generation counter, current PoW, `job_since` | `publish_job`, `clear_job`, `nudge`, `wait_for_job`, `wait_for_job_after` | everybody |
| GPU claims (`shared.rs`) | per slot: claim bits, claim time, launch stamp, stall mark; per PoW: `gpu_capable` | `GpuCapability::set`/`drop`, `gpus_mine` | written by GPU workers, read by CPU threads and supervisors |
| Stall guard, watchdog (`main.rs`, `shared.rs`) | their own reads | `check_gpu_stalls` every 5 s; exit when nothing mines, every 10 s | claims, slot |
| CPU thread (`worker.rs`) | previous job, extranonce2 counter, nonce, `sat_out` | `run_worker`, `mine_job`, `resume_point` | slot, claims, share queue |
| GPU worker (`gpu_worker.rs`) | backend, claims, previous job, cursor, launches in flight, error and reopen counts, tuning | `run_gpu_worker`, `prepare_bc3`, `switch_bc3`, `mine_job`, `pump`, `top_up`, `device_error`, `finish` | slot, claims, driver, share queue |
| Stratum client (`stratum.rs`) | connection, extranonce1, difficulty, request ids, backoff ladder | `run_client`, `session`, `next_line`, the `parse_*` functions | pool, slot, share queue |
| Tables (`bc3hash/src/lib.rs`) | READY (unset, building, good or broken), the HASHING lock, the C++ statics | `initialize`, `status`, hashing, `stop_hashing` at exit | CPU threads, GPU workers, the C runtime |
| Tuning (`tuning.rs`) | phase, measurements per window; a file of every card's choice | `largest_fitting`, `start`, `launched`, `switched`, `recall`, `remember` | GPU worker, disk |
| Hit budget (`backend/mod.rs`) | limit on a launch's nonces, clean launches in a row | `chunk`, `overflowed` | GPU worker |
| Device detection (`backend/mod.rs`) | none: what CUDA and OpenCL list at the moment | `detect_gpus`, `dedup_opencl`, `select_gpu`, `open_backend_with_fallback`, `pick_opencl_for_cuda` | drivers, GPU worker |
| Backends (`backend/opencl.rs`, `cuda.rs`, `bc3.rs`) | slots with their buffers and what those hold, slots in flight, the loaded kernel and its tables | `enqueue`, `collect`, `abandon`, `prepare_bc3hash`, `self_test`, drop | GPU worker, device |
| Consensus (`consensus.rs`) | none | version bits, targets, merkle root, BIP 34 height | workers, stratum |
| Status (`shared.rs`, `ipc.rs`) | what was last said of the proof of work and its devices | `announce`, `note_pow`, `gpu_opened`, `capability_changed` | called by every thread; read by the GUI |
| Statistics, telemetry (`stats.rs`, `telemetry.rs`) | counters | reporting | GUI |
| GUI (`gui/`) | the miner's process, the settings file | `start_mining`, `stop_mining`, `is_mining`, `load_settings`, `save_settings` | miner process, disk |
| Solver (`solve.rs`) | the template, jobs published, the share queue | `Template::parse`, `run`, `found`, `quiesce` | workers |
| Benchmark (`bench.rs`) | the window asked for, one word per card, phases | `run`, `wait_ready`, `measure` | GPU workers |
| Browser miner (`wasm/`) | none | hashing and target exports | web page |

What makes the core hard to test: the claims, the counter and the stall marks
are separate relaxed atomics, read one after the other by threads that decide
from them whether to sleep; sleeping is only safe if every change that could
take the work away from the GPUs is followed by a wakeup; drivers hang, fail
launches and lose their context at any point, with launches in flight; jobs
change under the workers, sometimes to the same search space again; the pool's
connection fails with shares queued, and the next one has another extranonce1.
Below the workers, a launch is a row of commands that a device executes later,
from memory the host must leave alone until then; lists of devices change while
workers go by them; and a tuning that switches kernels under the worker has to
end at one that works. Around the mining, a window's commands, a child's exit
events and the page's answers overtake each other; files are written by threads
and processes that may be killed at any byte; and the C runtime frees the
tables while threads still hash.

What makes each part correct:

* slot: a generation names one job; no wakeup is lost;
* claims: the counter is exact on every exit path; a stand-in CPU thread sleeps
  only while a GPU mines; a hung driver cannot keep it asleep; the watchdog
  exits only when nothing could mine;
* search: no header is hashed twice, by one worker or two, and none skipped;
* stratum: jobs and shares stay with their connection, answers are counted once
  and for their own request, a dead link is noticed, a line cut anywhere arrives
  whole;
* backends: what is collected belongs to the launch that was queued, and nothing
  is overwritten or freed under the device;
* devices: every card has one worker, before and after a fallback;
* launch sizes: back to full size in time after a buffer of hits overflowed;
* tuning: it keeps only what is faster, says what it mines at, and ends; no card
  undoes what is remembered for another;
* status: once everybody is done talking, the last word is true;
* GUI: one miner at a time, which can be started again once it is over; settings
  that survive a crash, whole, and in the order they were made;
* solver: whatever solves the block is found and ends the run; targets are the
  exact quotient, and the height in the coinbase is the one that is read back;
* benchmark: what is measured for a window is that window, and cards answer;
* tables: none is freed under a hash, and exit ends.

## Modules

| Module | Models | 
|---|---|
| `JobBoard` | the slot, its waits, `nudge`, and the stratum thread's two calls |
| `GpuClaims` | claims, counter, stall marks, stall guard, watchdog, table build |
| `CpuLoop`, `GpuLoop` | one iteration of `run_worker` and `run_gpu_worker`, access by access |
| `Dispatch` | all threads together; properties; the inductive invariant |
| `DispatchProofs` | its proofs |
| `SearchSpace` | extranonce2 partition, nonce ranges, what a job change does to a worker's place |
| `CpuSweep`, `LaunchPipeline` | a CPU thread's batches; a GPU worker's queue of launches |
| `Search` | both on one space; properties |
| `SearchProofs` | their proofs |
| `Stratum` | sessions, reconnects, the share queue, request ids, backoff |
| `StratumProofs` | its proofs |
| `LineReader` | `next_line`: lines out of a stream of bytes; properties |
| `LineReaderProofs` | their proofs |
| `DeviceQueue` | a backend's slots and caches, the device's command queue, `prepare_bc3hash` and the self-test |
| `Devices` | which device a worker opens, on rigs whose cards may vanish |
| `LaunchSize` | autotune and hit budget |
| `Tuner` | table sizes and the tuning's decisions, as operators on a tuner and an event |
| `CardTuning` | a worker driving a `Tuner`, with its choice across restarts |
| `TuningProofs` | proofs about `CardTuning` and `Tuner` |
| `ChoiceFile` | the file of choices: threads and processes that read, change and replace it |
| `StatusFeed` | concurrent `announce` calls and what the window last heard |
| `CardsProofs` | proofs about `DeviceQueue`, `Devices`, `ChoiceFile` and `StatusFeed` |
| `MinerWindow` | the miner process between the page, the commands and the child's events |
| `Settings` | the settings file between the page's edits and the rename |
| `SavedVersions` | what `Settings` promises: a store of whole versions (abstract) |
| `GuiProofs` | proofs about `MinerWindow` and `Settings` |
| `Targets` | compact targets, share targets by long division, the comparison, the height push |
| `Solve` | `--solve`, from the job file to the exit code |
| `Bench` | the benchmark and the cards it switches from window to window |
| `HashTables` | the tables: built once, hashed with, destroyed at exit |
| `ToolsProofs` | proofs about `Bench` and `HashTables` |
| `MCDispatch`, `MCLaunches`, `MCPool`, `MCTuning`, `MCCards`, `MCAround` | instances for TLC, passing |
| `MCSearch`, `MCStratum`, `MCWindow`, `MCSettings` | the instances of the disagreements below |

`Dispatch` puts `CpuLoop` and `GpuLoop` on top of `JobBoard` and `GpuClaims`;
`Search` puts `CpuSweep` and `LaunchPipeline` on `SearchSpace`; `CardTuning`
calls `Tuner`. The families meet at their edges: a launch that `LaunchPipeline`
queues or collects is a row of commands in `DeviceQueue`, its size comes from
`LaunchSize`, the switches it stops for are `CardTuning`'s, and the device that
`GpuLoop` opens is `Devices`', and what it says of itself goes through
`StatusFeed`. Each family leaves the others' choices open. `Settings` is shown to
implement `SavedVersions`.

Families that share no state are checked side by side: `MCLaunches` has `Search`
and `LaunchSize`, `MCPool` has `Stratum` and `LineReader`, `MCCards` and `MCAround`
have four and five. A variable `part`, fixed in the initial state, says which one
steps; the others rest in one initial state, and a family's fairness is asked for
only of its own part. The state space is the sum of the families', not the
product, and every family's behaviours are there as they are on their own.

Definitions that begin with "Mutant:" in their comment are not part of any
specification. Each is a plausible slip in the definition that follows it, and
exists to show that a property notices it.

### Dispatch

The grain is one shared access per step. A step is wider only where a lock
makes it so (testing the slot and going to sleep; moving the generation and
notifying in `nudge`) or where the rest is private to the thread.

* *Generation.* The code compares generations for equality only, so the model
  keeps the set `fresh` of workers whose remembered generation is current; any
  bump empties it. A 64-bit counter does not wrap in practice.
* *Time.* The stall guard compares times with a limit. The model keeps the
  answers: `idle`, the slots past the limit, which time may enter at any moment
  and a launch, a claim or the first job after none leaves, and `ran`, the
  slots with a launch after the instant of their mark.
* *Proofs of work.* Only BC3Hash has a kernel or a hash function, so all others
  are one value, "other", which nobody mines.
* *The driver* may open, load, finish a launch or fail, in any order, or never
  answer: `OpenDevice`, `LoadKernel`, `FinishLaunch`, `DeviceGone`, `Reopen` have
  no fairness.
* *Windows.* Which BC3Hash window a card uses is left to the tuning. Here a
  kernel is ready, absent or known to fail; a switch to another window may lose
  the old kernel (`SwitchFails`).

### Search

Worker `w` owns the extranonce2 counters `Index[w] + k * Stride`. `searched` is
the history of what it hashed and submitted of its job's space, `lost` of what
it collected and dropped. `LaunchPipeline` follows `pump`: the queue is filled
to `depth`, the oldest launch collected into `hand`, the queue refilled, then
`finish`; `DeviceError` clears the queue and moves the cursor back. Launch
sizes come from the set `Chunks`, which stands for the autotune and the hit
budget; the depth is what `gpu_queue` gives for the user's intensity. The window
tuning may end a run after any finished launch
(`switching`).
Retargets and nudges are `SameSpaceAgain`, new templates
`NewTemplate`; a template is taken never to come back.

A u64 extranonce2 counter saturates in the code; with sizes of eight bytes or
more that point is out of any rig's reach, so the model counts in Nat.

### Stratum

Sessions are not numbered: "cur" is the connection in progress or just ended,
"old" any before it. Shares found after the queue was emptied are "late". The
pool and TCP are external: in order, no duplicates, until the link breaks, which
`LinkBreaks` lets happen at every point, a write included. `quiet` counts the
reads that timed out since the pool was last heard. Every submit's id is
`FirstSubmit`: the code only asks whether an id is at or above it. A
`mining.set_difficulty` is heard and handled like any line; the value, coinbases
and round trip times are not kept.

### LineReader

A byte is a newline, a carriage return or anything else; a read returns any
non-empty piece of what has arrived, up to `ChunkSize`, or times out, fails or
finds the end. `taken` and `lines` are histories: how many bytes went into lines,
and which lines were returned. Repairing invalid UTF-8 is left out. `LinesArrive`
defines the lines by the stream alone: the n-th lies between its n-1st and its n-th
newline, without the carriage return before that.

### DeviceQueue

One command is one step of the host, so that the device may execute any number
of commands between two of them and queueing may fail at each. Inputs are model
values; the hits of a launch are one record of what the kernel really read:
header, target, first nonce, window. `Junk` is what buffers hold after a launch
that was broken off or given up ("nobody knows"), and never equals anything.
External, and assumed: the queue is in order; waiting for a launch of which a
command failed reports an error; nothing runs on a device that is gone. The caller
is the worker or the self-test, which both abandon after an error
(`device_error`, `inspect_err`), so `call = "error"` allows nothing else. The
worker may call `prepare_bc3hash` with launches in flight, as the trait allows.

### Devices

Cards have a CUDA ordinal and a model; OpenCL platforms list some or all of
them, under the same or another name. `on` is the card a worker really is on,
which no runtime tells it. CUDA lists its cards in order, less those that have
vanished. A list is the set of its entries, which stand in the order of platform
and card, and the place of an entry is the number of those before it; CUDA counts as
platform 0. A worker is the device it was started for, and keeps the number an
OpenCL device had then (`index`); opening it again looks that number up in what
the platform lists now. Names are compared as they are; trimming and case are left
out, and no card is called what the model calls renamed cards or the other maker's
unit.

### LaunchSize

The numbers keep their rounding: `div_ceil`, whole waves, `checked_mul`, with
`U32Max` scaled down. The time a launch took is short, long or neither. Hits
follow from the pool's difficulty, exactly rather than by chance.

### Tuning

GPU time is counted in launches and a rate is the hashes of one measurement. A
card's speed at each window is chosen at the start; `Dip` slows single launches
down, by no more than the hashes of one, and `KeptIsFaster` is about cards where none
was (`disturbed`). The queue
keeps launches in flight when a switch is decided, as `pump` does. A switch may
fail, the device may go and be opened again, and the miner may end and be
started again at any moment, with what the file remembers. Table sizes are the
code's, in units of 256 bytes, and the free memory decides what fits.

`ChoiceFile` keeps, for each card, only whether the file holds its choice. The
lock is of one process, the temporary file has one name for all; a write is a
create, a fill and a rename, any of which may fail or be the last thing a killed
process did. A read may fail with the file whole, which `read_all` takes for an empty
map. Nothing in the code flushes the file: the system does, in its own time (`Flushes`,
external), and a power failure before that may leave half a file under its name, or an
older one. `unguarded` is history: something happened that `remember_in` does not guard
against.

### StatusFeed

An announcement reads where the proof of work is mined, and then emits two
events, the first of which reads again; the stratum thread, each worker and the
stall guard announce on their own. `talkedOver` is history: two announcements
were under way at once. Whether the CPU reference can be built is fixed at the
start.

### MinerWindow and Settings

Commands run on the main thread one at a time, a child's events on another; each
lock of `MinerState` is one step. A command's answer and an event may overtake
each other on their way to the page. `raced` is history: a task let go of another
miner than its own.

Settings are versions. The page saves one at a time, and again if something
changed meanwhile; the command creates, writes, flushes and renames. The window
may end, or the power fail, between any two steps; after a power failure what
was not flushed is lost. `SavedVersions` is the store this adds up to, with
`saved` mapped to what the file would be read as, `latest` to the newest version
to be saved and `told` to the page's message.

### Targets and Solve

`Targets` keeps the code's arithmetic - bytes, shifts, the scaled divisor and its
cap, the remainder's width - with the base, the number of bytes and the scale as
constants, so that every edge is within reach. `Solve` goes by it: difficulties
are exact fractions where the code has an f64. Workers submit hashes at the edges
of both targets, of the current job or of one replaced meanwhile.

### Bench

The benchmark and the cards talk through atomics only. A job is the news that
makes a card look at the window; loading takes as long as it likes, so any wait
may time out, and each load may succeed or fail by itself. A worker that could not
open its card has ended from the start. A device that mines may stop answering: the
worker gives up its claim, and opens the device again, which empties the card's word and
forgets what had failed, or cannot, or has done so `MAX_REOPENS` times without a launch
coming back; in the last two cases it ends and never answers again. `missed` is history:
the cards that some wait that timed out was still waiting for; `went` too: the cards
whose device stopped answering in this run. The windows are distinct, as internal.rs makes
them. What is measured, the share check and the summary are left out.

### HashTables

Any thread may be the first to ask for the tables, and `exit` may come at any
moment. The statics and their destructors, the order of exit handlers and a lock
that prefers a waiting writer are external.

## Runs

Passing:

| Run | Instance | Shows |
|---|---|---|
| `dispatch` | 1 stand-in, 1 card, one BC3Hash and one other job, 1 reopen (2.5 M states) | `OneJobPerGeneration`, `DeferralStands`, `NoLostWakeup`, `CounterMatchesClaims`, `WatchdogSparesMiners` |
| `dispatch_live` | the same with one job, with fairness | `SomeoneMines` |
| `launches` | `Search`: 1 thread, 1 card, 4 extranonce2 values of 3 nonces, batches of 1 and 2, depth 1 and 2, 2 errors to give up, 2 templates, with fairness. `LaunchSize`: waves of 1, 3 and 7 nonces, batches of 4 to 50, a buffer of 8 hits, 3 clean launches to recover, with fairness | `HashedOnce`, `NothingSkipped`, `PumpReturns`; `BudgetRecovers` |
| `pool` | `Stratum`: 1 worker, queue of 2, waits up to 3 s, 2 messages on the wire, 1 silent poll, with fairness. `LineReader`: up to 7 bytes, reads of up to 2, lines of up to 3 (1.1 M states; deadlock checked) | `SlotOfThisConnection`, `QueueStaysWithConnection`, `CountedOnce`, `BestOfCurrentPow`, `SilentPoolIsLeft`; `BufferIsUnread`, `BufferBounded`, `LinesArrive` |
| `tuning` | windows 22, 20 and 18, 4 amounts of free memory, 3 speeds, 2 launches in flight, 1 reopen, 1 restart, with fairness (607,000 states) | `KeptIsFaster`, `ToldWindowIsMined`, `BiggerWindowFailsSoftly`, `TuningEnds` |
| `cards` | `Devices`: 3 cards of 2 models, 2 platforms, up to 2 vanish. `DeviceQueue`: 2 slots, 2 headers, 2 targets, both APIs, any number of failures. `StatusFeed`: 2 cards, 4 cores, 2 moves. `ChoiceFile`: 2 processes of 2 cards, 2 kills or power failures, any number of failing reads. Symmetric in headers and targets (2.6 M states) | `CardsKeptApart`, `NoCardLost`; `ScanIsOfItsLaunch`, `SourceUnchanged`, `NothingUsedAfterFree`; `LastWordIsTrue`; `ChoicesAreKept` |
| `around` | `MinerWindow`: 3 miners, 2 commands waiting. `Settings`: 4 versions, 2 crashes. `Solve`, `Targets`: 4 bytes of 2 bits, 48 compact forms, 4 heights, 3 jobs, a queue of 2. `Bench`: 2 cards, 2 windows, any number of failing loads, and either any number of timeouts or 2 devices that stop answering, 1 reopen in a row. `HashTables`: 3 threads. With fairness (233,000 states) | `OneMiner`, `HandleIsLetGo`; `SettingsAreAStore`; `SolutionsAreShares`, `TargetIsFloor`, `HeightIsReadBack`, `SolutionEndsRun`; `RowsAreOfTheirWindow`, `CardsAnswer`; `NoHashOnFreedTables`, `ExitEnds` |

Deadlock is checked where the system never stops. In the other runs it may: a
worker gives up its card, the solver, the benchmark and an exiting process end,
or a bound on crashes or moves is used up.

Disagreements between the code and what it says of itself:

| Run | What happens | What the source says |
|---|---|---|
| `stand_in_beside_card` | `check_gpu_stalls` reads a slot as unclaimed; its worker claims; the mark is removed as "nothing to set aside" and nobody is told. The stand-in mines the job on beside the card until the generation next moves. | `worker.rs`: "While the GPUs have work, these threads sleep" |
| `exhausted_early` | with two launches in flight, `ending = Exhausted` is set behind the last; if collecting fails, the cursor goes back but nothing is queued any more | `JobEnd::Exhausted`: "Every extranonce2 the job's size allows has been searched." |
| `late_shares` | a launch still in flight when the link breaks submits after the queue was emptied; the next session sends it | the comment above the drain in `run_client` |
| `orphaned_miner` | Stop takes the handle and kills the miner; its task reads the exit event and emits `miner-stopped`, at which the page allows Start; the user starts a new miner before the task gets to its next step, which sets `MinerState` to None with the new miner in it. That one runs on and cannot be stopped | `gui/src-tauri/src/main.rs`: "The running miner process (None when stopped)." |
| `settings_replaced` | `load_settings` fails on a file that is there, and there are no settings of the old version; the page counts them as loaded, and at the next change writes the defaults with that change over the file. (With settings of the old version in localStorage, the load itself writes those at once.) | `gui/dist/main.js`: "Nothing is written until the saved settings have been read" |

Smaller ones are exceptions written into the properties they would break, where
the reader finds them with the reason:

* `NothingSkipped`: a collected launch is dropped with its hits when the refill
  behind it makes the device count as gone (`pump`, before `finish`).
* `BiggerWindowFailsSoftly`: after a reopen there is no switch to make, so
  `prepare_bc3` loads the tuned window itself, and if that fails the card stays
  idle although the start window worked.
* `CardsKeptApart` (`NoSharedCard`): a worker's rank is its place in the list CUDA gives at that
  moment; two workers that fall back before and after a card vanished may get
  the same rank, and the same OpenCL device. A worker of OpenCL's keeps its
  device's number; once a card before it has gone from the platform's list, the
  worker of that card, which opens its device again, finds its neighbour's under
  that number.
* `CardsKeptApart` (`PicksApart`): with a single card left in CUDA's list, the branch meant
  for rigs with one card gives it to the vanished cards' workers too. `PicksApart`
  is about what a worker would be given now, not about where it is: one that fell
  back to the OpenCL device of a card that had vanished stays there when its own card
  vanishes later. The attempt at the proof showed that, on rigs of four cards and more.
* `NothingUsedAfterFree`: the self-test's batch, whose failure is not waited for.
* `LastWordIsTrue`: announcements that run into each other, when an older reading
  may be emitted last.
* `ChoicesAreKept`: two processes that write at once, since the lock is of one; a
  read inside `remember_in` that fails with choices in the file, since `read_all`
  turns any error into an empty map, which is then renamed over them with the one
  new choice; and a power failure before the system has flushed the renamed file,
  since nothing flushes it first (`save_settings` in the GUI does).
* `OneMiner`: once a task has let go of another miner than its own.
* `SolutionsAreShares`: a difficulty fixed with `--difficulty`, and a block target
  easier than the easiest share target there is.
* `NoHashOnFreedTables`: an exit before `stop_hashing` is registered, while the
  tables are being built.
* `RowsAreOfTheirWindow`: a wait that timed out, after which the flags are of the
  cards still pending only; and from then on the cards that it gave up on. The
  proof needed the second: a card two waits behind may answer, in a later run of
  a window, the question of the earlier one, be taken for ready, and only then
  switch to the window asked for between. Nor is it about a card whose device stopped
  answering in this run: its word stays as it was until it is opened again, so the wait
  may take it for ready, and once the wait is over nothing looks at the word any more;
  the run is measured with that card at another window or at none, and no flag says so.
* A reopened card claims BC3Hash before its new kernel is loaded, so for that
  time the stand-ins sleep beside a card that does not mine; `DeferralStands` asks for
  a claim that stands, not for a kernel.

Why the bounds are enough. In `Dispatch` the races are between one reader and
one writer of a slot, and every pair of roles is there; the theorems cover more
threads and cards. One reopen reaches both outcomes of the reopen budget. In
`Search` two extranonce2 values per worker give a wrap in the middle and one at
the end, three nonces against chunks of two give a cut launch, and two errors
separate "try again" from "give up". In `Stratum` a queue of two can be full
and partly sent, and three steps of the ladder show doubling, the limit and
the return to one second. In `LineReader` seven bytes hold two lines of the
greatest length, or one that is too long, in pieces of any size. In `DeviceQueue` two slots
are what the code has; two values of each input tell a stale cache from a fresh
one, and the self-test's three launches go round the slots from either start.
In `Devices` three cards of two models are the smallest rig with two equal cards
and one that is not, and two may vanish so that one card is left. In `LaunchSize`
the waves do not divide the bounds, and the densities reach from no hits to ten
for every nonce. In `Tuning` three windows give a fallback from a fallback, the
free memory fits none to all of them, and two launches of settling and of
measuring let a launch of the wrong window slip into either. In `ChoiceFile` two
cards each of two processes have every kind of neighbour, and two kills are one in
the middle of a write and one in the middle of the next; the run stops at the first
thing that is not guarded against, after which `ChoicesAreKept` claims nothing. In `StatusFeed` two
moves after the start let a change be announced while another is. In
`MinerWindow` three miners are a stopped one, its successor and one more; in
`Settings` four versions are one in the file, one being written, one pending and
one edited since. In `Solve` the scaled-down numbers reach a zero target, an
overflowing one, the divisor's cap and a height whose top bit is set. In `Bench`
two windows up and down run one of them twice in a row, which is where a card's
word may be of the run before; two faults with one reopen allowed reach a card that
comes back, one that cannot be opened, one over the limit, and two cards at once.
Slow cards and failing devices are explored apart (`BenchTrouble` in `MCAround`),
to keep the run short: together they have 777,000 states for `Bench` alone, which TLC
has checked too, and `BenchMeasuresItsWindow` is proved of both together. In `HashTables` three threads are one that builds,
one that hashes and one that comes late.

Fairness. `Dispatch`: threads that only compute or take a short lock go on (the
stratum thread inside a call, CPU threads between waits, `GpuCapability::set`),
the supervisors' timers fire, the table build ends, time passes. A CPU thread
inside `mine_job` need not exhaust its job, and no driver call has to return.
`Search`: driver calls return, with a result or an error; without that
`PumpReturns` is the stall guard's business. `Stratum`: the client thread goes
on, since a read waits 10 ms at most. A write has no time limit, so
`SilentPoolIsLeft` excepts a thread stuck in one. `LaunchSize`: launches come
back. `Tuning`: the worker goes on and driver calls return; launches come back
again and again however often the job changes between them, which is why
`LaunchBack` has strong fairness. Nothing makes the device go, a restart happen
or a switch succeed. `MinerWindow`: the main thread and the tasks run on and a
killed miner exits; nobody has to press a button. `Settings`: a save that was
begun ends, well or not, and the page hears of it. `Solve`: the solver's thread
runs and its deadline passes. `Bench`: the benchmark and the workers run, and
driver calls return, well or not. Its timeout has to come only where a worker has
ended, and another block never; devices fail a bounded number of times. (A driver
call that never returns ends in the timeout just as well, and is not modelled.) `HashTables`: the exiting thread runs,
and a hash that was begun ends.

## Proofs

`DispatchProofs` proves, for any finite sets of threads and cards and any jobs,
that `Inductive` is an invariant (`Invariance`), and from it `TypeCorrect`,
`GenerationNamesJob`, `NobodyOversleeps`, `StandInsTakeOver`, `CounterIsExact`
and `WatchdogIsSafe`. The assumptions are the modules' own: finite and disjoint
sets of workers, BC3Hash jobs among the jobs, the empty slot not one of them.

`DeferralStands` is the deep one. A stand-in decides from a counter and several
marks read at different times, so the decision can be wrong when it is made.
It is inductive together with `ReadsStand` (what a thread has read so far is
still so, unless a change is pending whose wakeup will send it back),
`GuardSound` (marks are set only in a check that began on BC3Hash, so the guard
will nudge) and `PowMatches` (a nudge skipped because the PoW changed is made up
for by the job on its way in). `CounterMatchesClaims` needs `ClaimsReleased`
(who holds a claim, by where a worker is), and the watchdog needs both: with no
worker left, no claim is left.

`LineReaderProofs` proves for every stream, read size and limit that the buffer is
the stream from the end of the last line to the last byte read
(`ReaderLosesNothing`), and never longer than the limit and one read
(`ReaderIsBounded`). The inductive invariant is `TypeOK`, `BufferIsUnread` and
`BufferBounded` together: the bound needs to know that a buffer with no newline
is searched again before the next read. The lemmas are about pieces of a
sequence: two adjacent ones join, dropping the head of one moves its start, and
bytes that arrive later change none of them. `ReaderReturnsLines` goes on from there:
what was taken ends with a newline, and as many newlines lie up to its end as lines
were returned (`TakenAreLines`), so the first newline of the buffer ends the next
line of the stream.

`StratumProofs`, for any number of workers, reconnects and messages, has one small
invariant for each property besides the types (`StratumTypeCorrect`): the slot
is empty from the moment it is cleared until the next session has its extranonce1
(`SlotEmptyBetween`, for `SlotIsOfThisConnection`); between sessions only late
shares are queued (`OnlyLateBetween`, for `QueueIsOfThisConnection`), which is just
what `late_shares` is about; a session starts with nothing to count
(`NothingAwaited`, for `SubmitsAreCountedOnce`, with lemmas on how many submits are
in a sequence after one is added or taken); and who holds a job knows a proof of
work (`HeldAfterJob`, for `BestIsOfCurrentPow`).

`SearchProofs` proves `NoHeaderTwice` and `NoHeaderSkipped` for any partition, number
of nonces, depth and chunk sizes. Everything a worker has is ordered: what it has
searched lies behind what is in hand, that behind the launches in flight, oldest
first, and all of it behind the cursor (`InOrder`); and what lies behind the cursor
is one of these or lost (`Complete`). `Progress` puts both over values, not
variables, so that a lemma for each thing a worker does (queue, collect, finish,
give up, take the next extranonce2) serves threads and cards alike; `PumpShape`
says where in the launch loop something is in hand. Two workers differ in their
residue of the extranonce2 counter, which is arithmetic on `Index` and `Stride`.

`TuningProofs` proves `WhatIsKeptIsFaster`, `WhatIsToldIsMined` and `FailureIsSoft`, for any
windows, table sizes, speeds, phase lengths and depth of the queue, from one
invariant, `TuningInv`. While a switch is pending no launch counts for the tuner, so what
is counted ran at the window the tuner wants (`MinesAtWanted`, `SwitchIsWanted`); hence every
measurement is a number of launches times the card's speed at its window
(`TunerIsRight`), and of two measurements of equally many launches the greater is
the faster window's. That carries over to the window a tuning returns to, to the
file and to what a restarted miner recalls (`Kept`). What is told is what the tuner
wants (`SaysWhatItWants`), and what has failed is bigger than the start window
(`FailsSoftly`). Besides the modules' assumptions it takes no launch to be slowed down
below zero hashes.

`CardsProofs` has four parts. For `DeviceQueue`, `QueueInv` leads to
`HitsAreOfTheirLaunch`, `SourcesStay` and `FreedWhenIdle`, for any depth and any
headers, targets and windows: the slots in flight are the ones before the next, in
turn (`Ring`); what is pending belongs to them or to a launch that failed (`Owned`),
in the order it was queued (`Sequenced`); for every launch, what its buffers hold
follows from which of its commands are still due (`LaunchesOK`); and the caches hold
what the buffers do, or will (`CacheIsTrue`). For `ChoiceFile`, `NoChoiceIsLost`, for any
number of processes, cards, kills, power failures and failing reads: as long as none
of the three things that are not guarded against has happened, one card is inside
`remember_in` (`OneInside`) and what it has read is still the file (`CopyIsCurrent`). For `StatusFeed`,
`TheLastWordIsTrue`: unless a change is still to be said (`Unsaid`), what a thread
has read and what was shown is true (`NothingStale`). It assumes that no card is
called "stratum" or "guard", the names of the other two speakers. For `Devices`,
`CardsStayApart` and `EveryCardIsFound`, for any number of cards, names and
platforms: places in a list are strictly ordered (`AheadGrows`), so two cards of one
name have different ranks; a rank is less than the number of equal cards, which all
come before any device of that name on a later platform (`LaterPlatform`), so a
device picked by rank is on the first platform that lists the cards at all. Two picks
of one card would be two places on that platform (`RankedApart`); and as long as
CUDA lists every card, the place is the card's own (`FirstPlatform`). `DevicesInv` adds
that the platforms with any cards list the same ones, and CUDA's among them
(`DriverIsWhole`), that no two workers were started for one card, which is
`dedup_opencl`'s doing (`OneWorkerEach`), and that the numbers workers keep are right
until a list has shrunk (`Numbered`).

`GuiProofs` proves `OneMinerAtATime` (a miner not told to stop is the one held, or
the last launched and about to be put away: `RunnerIsKnown`), and that `Settings`
implements the safety part of `SavedVersions` (`SettingsImplementStore`): initial
states map to initial states and every step, crashes included, to a step of the
store or to none. `SettingsInv` says that versions only go forward on their way
from the page to the file (`NewestOnPage`, `WritesForward`) and that nothing is
renamed before it is flushed (`FlushedFirst`).

`ToolsProofs` proves `BenchMeasuresItsWindow`, for any number of cards, windows and
devices that stop answering: a card that was never given up, and whose device has
not stopped answering in this run, is at most two runs behind (`CardOK`), and in a schedule of distinct windows up and down
a window two runs back is this one only with no other between
(`NoWindowBetween`); and `TablesOutliveHashes`: how far the one builder is says
which statics exist and which exit handlers are registered, in which order
(`BuiltSoFar`, `HandlersSoFar`), so an exit after `stop_hashing` was registered
takes the lock before any destructor (`StopsFirst`).

The assumptions are the ones the modules state.

Only model-checked: liveness (`SomeoneMines`, `PumpReturns`, `SilentPoolIsLeft`,
`BudgetRecovers`, `TuningEnds`, `HandleIsLetGo`, `SolutionEndsRun`, `ExitEnds`,
`CardsAnswer`, and the fairness in `SettingsAreAStore`), which is out of the
prover's reach; and `SolutionsAreShares`, `TargetIsFloor` and `HeightIsReadBack`, which
are about numbers built byte by byte in a base that is a power of two: the
provers can neither do induction over the bytes nor show of `2 ^ n` that it is a
number.

## Not modelled

* What is hashed: BC3Hash, SHA-256, the header's layout, merkle roots. The
  kernels, the vendored C++ and the driver bindings. Nothing in them is a state
  a model of this size could keep.
* Periodic statistics, sensors, crash reports, the text of messages, argument
  parsing: they read state and change none.
* In the stratum client, round trip bookkeeping, the reject log and the decoding
  of a job's fields.
* In the GUI, probing the hardware, the update check and drawing the page.
* The benchmark's rates, its check of shares and its summary.
* The browser build: stateless exports over the same hashing and target code.

`PROJECT.json` lists every part, and under "hazards" what no property covers,
with the reason.

## Plan

Modelled: `JobBoard`, `GpuClaims`, `CpuLoop`, `GpuLoop`, `Dispatch`; `SearchSpace`,
`CpuSweep`, `LaunchPipeline`, `Search`; `Stratum`; `LineReader`; `DeviceQueue`;
`Devices`; `LaunchSize`; `Tuner`, `CardTuning`, `ChoiceFile`; `StatusFeed`;
`MinerWindow`, `Settings`, `SavedVersions`; `Targets`, `Solve`; `Bench`;
`HashTables`.

Proved: every safety property the passing runs check but those of `Solve`, that is
those of `Dispatch`, `Search`, `Stratum`, `LineReader`, `DeviceQueue`, `Devices`, `CardTuning`,
`ChoiceFile`, `StatusFeed`, `MinerWindow`, `Settings`, `Bench` and `HashTables`.

What would be worth adding:

1. For `Targets` and `Solve`, the long division's invariant (quotient so far times
   divisor, plus remainder, is the dividend so far) over bytes as plain numbers with
   the base a constant of its own, once a prover for nonlinear arithmetic is there.
2. Action properties of the proved modules, such as that a worker's cursor goes back
   only to launches that were lost.
