# TLA+ models of the local execution worker

These modules model the local sandboxed execution worker under `src/`:

- `src/cpp/executor/local_executor.cpp`
- `src/cpp/util/file.cpp`
- `src/cpp/util/ipc.hpp`
- `src/manager/event_queue.{hpp,cpp}`

They are checked with TLC. Each definition is translated from the source lines that `PROJECT.json` ("map") names for it.

## 1. Inventory

### Parts of the system and how they interact

| Part (spec 2) | Source | State | Operations | Interacts with |
|---|---|---|---|---|
| C1 path/FS primitives | file.cpp | files on disk, mkostemp temp files, open descriptors, TempDir `keep_`/`moved_` | `Size`, `Write`/`OsWrite` (temp + fsync + `OsAtomicMove`), `Copy` (`OsAtomicCopy` hardlink, `HardCopy` fallback), `Move`, `Remove(Tree)`, `MakeExecutable`, `TempDir` ctor/dtor, `Read`/`OsRead`, `Hash` | used by C2, C4 and C8 |
| C2 content-addressed store | local_executor.cpp `MaybeRequestFile`, `RetrieveFile`; file.cpp `PathForHash`/`SHAToPath` | blobs at `store/hh/hh/hash` | fetch a missing blob (inline bytes or the caller's callback), ingest an output | shared by all concurrent `Execute` calls |
| C3 admission guard | local_executor.cpp `ThreadGuard` | static `MaxThreads`, `CurThreads`, a mutex | `SetMaxThreads` (every `LocalExecutor` constructor), exclusive and shared acquire, release | C4 acquires around the sandbox run |
| C4 dispatcher | local_executor.cpp `Execute` | per call: TempDir, staged inputs, the result, the response | the pipeline of spec 4.4 | C1, C2, C3, C5 |
| C5 sandbox adapter | not under `src/` | - | `PrepareForExecution`, `Execute` | called by C4 |
| C6 event queue | event_queue.{hpp,cpp} | `std::queue` of events, `stopped_`, absl mutex | `Enqueue` (typed helpers), `Dequeue` (Await), `Stop`, `BindWriter` drain loop | producers and one writer |
| C7 shared-memory queue | ipc.hpp | mmap'd array, size, pshared mutex, condition variables | `Enqueue`, `Dequeue` | processes sharing the mapping |
| C8 file streaming | file.cpp `HandleRequestFile`, `next_chunk`, `Receiver::sendChunk` | a producer on the serving side, a receiver on the fetching side | one capnp `sendChunk` call per chunk, the next chunk read when the call resolves | C1's producer and receiver, the capnp transport |

### Hard behaviours

The following are where a unit test rarely goes and a model checker does. Each one is listed in `PROJECT.json` "hazards", at the line where it bites.

- **Concurrent `Execute` calls sharing one store.** A `Size` check and the later write of the same blob race. A hardlinked input aliases a store blob. A losing commit leaves its temp file behind.
- **Exceptions at every step.** Each one unwinds through the TempDir destructor.
- **The process-wide guard.**
  - A second `LocalExecutor` overwrites `MaxThreads` without the mutex.
  - `hardware_concurrency()` may be 0.
  - `size_t` decrement can wrap.
  - The shared check is `==`, not `>=`.
- **Limits.** They are scaled by 1.2 for the sandbox but classified against the unscaled values.
- **EventQueue.** `Stop` races a writer blocked in `Await`; events enqueued after the writer returned are dropped; several writers share one transport.
- **Descriptors and temp files on error paths.** `OsRead` and `OsWrite` return lambdas that own a descriptor; what happens when a read, write, close or capnp call fails, or when the lambda is dropped early, is not visible to a test that only looks at file contents.
- **`Copy`/`Move` across filesystems and callers.** The EEXIST/overwrite/exist_ok branches of `OsAtomicCopy` and `OsAtomicMove`, the `HardCopy` fallback, and another caller acting in between.
- **SharedQueue.** It takes a mutex it never unlocks (and is not instantiated anywhere).

## 2. Modules

| Module | Models | Composes |
|---|---|---|
| `AdmissionPolicy` | The abstract admission rule that C3 promises: shared runs up to the bound, an exclusive run alone, `worker_busy` otherwise. | - |
| `ThreadGuard` | C3 exactly as written, with `size_t` arithmetic modulo `2^SizeBits`. | instances `AdmissionPolicy` as a refinement |
| `Executor` | C4 for concurrent calls, with the C1/C2 operations it performs and C5 as its environment. | `TG == INSTANCE ThreadGuard` |
| `EventChannel` | The abstract stream C6 promises: each queue is a FIFO, its reader delivers while it has events and returns once stopped and empty. | - |
| `EventQueue` | C6 as written: producers, `Stop`, `Dequeue`, one `BindWriter`/`BindWriterUnlocked` thread per queue over a shared transport. | instances `EventChannel` as a refinement |
| `FileStreams` | C1's `OsRead` producer and `File::Write`/`OsWrite` receiver chunk by chunk, driven by `File::Hash`, `File::HardCopy` and C8's `next_chunk`/`sendChunk`, with every system call able to fail. | - |
| `FileOps` | C1's `File::Copy` (`OsAtomicCopy`, `HardCopy` fallback), `File::Move` (`OsAtomicMove`) and `File::Remove` on paths over two filesystems, for concurrent callers. | - |
| `MCThreadGuard`, `MCExecutor`, `MCEventQueue`, `MCFileStreams`, `MCFileOps` | Model values, request shapes and symmetry for TLC. | - |

### ThreadGuard

**Variables.**

- `maxThreads` and `curThreads` are the two statics.
- `guard[t]` is the state of thread t's guard object:
  - `idle`: none constructed;
  - `busy`: the constructor threw;
  - `shared` or `exclusive`: held.
- `executors` counts the `LocalExecutor` objects constructed so far.

**Actions.**

- `LocalExecutor(n)` is the constructor. It sets `maxThreads` without any mutex, so it interleaves freely with the guard's locked sections.
- `ThreadGuardExclusive`, `ThreadGuardShared` and `Release` are the constructor's two branches and the destructor. Each is one atomic step, because each runs under the mutex.

**Refinement.** The refinement mapping passes `guard` and `maxThreads` through. `PolicyRefinement` checks `Policy!Spec` as a property. Therefore every admission or refusal the code makes is one the abstract rule allows.

### Executor

**Variables.**

- Each request thread r runs one `Execute` call. `pc[r]` names the step.
  - The input loops (`MaybeRequestFile`, `PrepareFile`) and the output loop (`RetrieveFile`) use `idx[r]`.
  - A thrown exception sets `outcome[r]` and goes to `cleanup`, which is the TempDir destructor.
- The file system is:
  - `fs`: path → inode;
  - `content`: inode → the hash of its bytes, or `Partial` while a writer streams;
  - `writable`: inode → mode.
- A hardlink is two paths naming one inode. This is exactly how staging by `File::Copy` aliases a store blob.

**Actions.** The blob write of `MaybeRequestFile` is split the way `File::Write`/`OsWrite` is:

| Action | What it models |
|---|---|
| `FetchOpen` | the second `Size` check and `mkostemp` |
| `FetchData` | the chunks, or a callback failure that the receiver's finalizer cleans up |
| `FetchCommit` | fsync + `link` + `remove`, or EEXIST |

The other steps:

- `RetrieveFile` is `Retrieve`. On one filesystem it hardlinks into the store. Across filesystems it uses `HardCopy` through a temp file, committed by `IngestCommit`.
- The sandbox is `Run`:
  - it chooses an `ExecutionInfo` consistent with the scaled limits (`SandboxInfos`);
  - it lets the program write stdout, stderr, new outputs and any writable box file (`SandboxWrites`);
  - it releases the guard (`TG!Release`) at the end of the block.

The worker's layout, `sameDevice`, is chosen in `Init` from `DeviceLayouts` and never changes: whether temp and store directories share a filesystem, which decides between hardlinks and copies.

### EventQueue

**Variables.**

- `queue`, `stopped` are `queue_` and `stopped_`; events are `<<producer, k>>`.
- `wpc[q]` is where queue q's writer loop is: in `Dequeue`, taking the serializing mutex, inside `writer->Write`, or returned. `held[q]` is the event being written.
- `mutex` is the holder of the serializing `std::mutex`; `stream` is what the transport has received.

**Actions.** `Notify(p, q)` is a typed helper (`FatalError`, `CompilationDone`, ...) called by producer p: `NewEvent` is the private builder's fresh `proto::Event`, named by producer and count because no property reads a payload, and `Enqueue` pushes it. `Notify`, `Stop` and `Dequeue` run under `queue_mutex_` and are one step each; the `Await` condition is `Dequeue`'s guard. `Lock` is the `lock_guard` of `BindWriter` (skipped by `BindWriterUnlocked`), and `Write` is the write call returning, with the guard released at the end of the iteration.

**Refinement.** `Pending(q)`, the held event followed by `queue_`, maps to `EventChannel`'s pending sequence; `stopped` to `closed`; a returned writer to `finished`. `ChannelRefinement` checks `Channel!Spec`, fairness included: each queue's events reach the transport in order, nothing queued before the writer returns is lost, and a stopped queue's writer drains and returns.

### FileStreams

**Variables.** Per caller c: `op[c]` (`hash`, `hardcopy` or `serve`, the fetch of a blob served by `HandleRequestFile`), `ow`/`eo` (overwrite, exist_ok), `pc[c]`; the producer's descriptor `rfd[c]` (`none`, `open`, `closed`, or `lost` when it is still open but the lambda has set `fd = -1`), read position `rpos[c]` and last chunk `buf[c]`; the receiver's descriptor `wfd[c]`, temp file `temp[c]`, `done[c]` and whether it is `File::Write`'s no-op receiver (`noop[c]`). `dst` is the shared destination's contents, `outcome[c]` how the call ended. Contents are sequences of chunk model values; `EOS` is the empty chunk. `Faults` names the system calls that may fail.

**Actions.** `OpenSrc` is `OsRead`'s `open`; `Read` one producer call (a chunk, a read error, or EOF with `close` succeeding or failing); `OpenWrite` is `File::Write`'s existence check and `OsWrite`'s `mkostemp`; `Put` is `HardCopy`'s loop body; `Send` is `next_chunk` issuing `sendChunkRequest` (or the call being rejected) and `Deliver` the peer's `sendChunk` running `receiver_` followed by the continuation. A receive is `WriteChunk`, or on the empty chunk `Commit` (`*done = true`, fsync, close, `OsAtomicMove`). A throw is `Unwind`, plus `Finalize`, the receiver's deferred finalizer that removes an uncommitted temp file. Descriptors are never closed by a throw: neither lambda closes its descriptor when destroyed. `Commit` also has the fsync and close failures of line 198: a failing fsync skips the close, and both leave the temp file on disk because `*done` is already set.

**Crash and restart.** `Crash` (at most `MaxCrashes` times) is an operating-system crash followed by the restart of the process, which makes the same calls again. The kernel closes every descriptor and uncommitted temp files are forgotten. The code fsyncs the temp file before it links or renames it into place, but never fsyncs the directory. So `versions` records every `<<contents, synced chunks>>` published since the last crash, and a crash leaves at the destination any one of them, cut to any length from its synced prefix up. `Entry` is where a call starts: a fetch starts at `Write`, a `Hash` or `HardCopy` at `Read`.

### FileOps

**Variables.** `fs` maps each path to the inode linked there, `data` each inode to what it holds (an initial inode holds its path's name, a `HardCopy` creates an inode named after its caller). Per caller: the call `op`, `from`, `to`, `ow`, `eo`; `pc`; `ret`, where `Copy` returns to (the caller, or `Move`'s `Remove(from)`); `orig`, what `from` held when the call began; `outcome`; and the history variable `seen`, every contents `from` has held during the call, updated by `Observe` after each step. `Device` places paths on filesystems.

**Actions.** Each `link`, `rename` and `remove` is a step: `CopyLink`, `CopyRemove`, `CopyRelink` are `OsAtomicCopy`; `MoveAtomic`, `MoveUnlink` are `OsAtomicMove` as `Move` calls it; `Remove` is `File::Remove`. `HardCopy` is two steps: `HardCopyOpen` opens the source, makes `Write`'s existence check and fills the temp file (the open descriptor pins the source inode, so its contents are read there); `HardCopyCommit` is the empty chunk's `OsAtomicMove`, rename under overwrite or link, with link's EEXIST a success only under exist_ok. Other callers act between the two; the chunk-by-chunk interleavings are `FileStreams`' subject. `LinkErr` follows Linux `link()`: ENOENT for a missing source, then EEXIST for an existing destination (even on another filesystem), then EXDEV. `OsIsLink` is false: nothing in the code creates a symlink.

## 3. Runs

| Run | Expect | Shows |
|---|---|---|
| `guard` | pass | One executor (`NumCores` 0 or 2, hardware concurrency 1 or 3), three threads. Exclusion holds and the code refines `AdmissionPolicy`. |
| `guard_bound` | violation | `MaxThreads` is not a trustworthy bound. TLC reports `hardware_concurrency()` = 0 giving `MaxThreads` = 0 and two exclusive runs admitted together; with `HardwareConcurrency = {1}` the same configuration instead shows a second `LocalExecutor` lowering `MaxThreads` below an exclusive holder's count and a shared run admitted beside it. |
| `exec` | pass | Two concurrent calls, on a worker whose temp and store directories are on different filesystems (private copies, `HardCopy` ingest) or on one (staging and ingest by hardlink). It checks `StoreIntegrity`, `TempDirCleanup`, `SuccessComplete`, `LimitKillsReported` and `TypeOK`. On one filesystem the only aliased box input is the executable, which `MakeExecutable` and `PrepareForExecution` make read-only, so the properties still hold. |
| `exec_fetch_race` | violation | Two fetches of one missing blob: the loser fails with EEXIST (spec 4.2 says success). |
| `exec_boundary` | violation | `SandboxGetsValidNames`: the sandbox acts only on what a valid request names inside its box. TLC reports a request running the system interpreter `/sh` with a STDIN input named `/sh`: STDIN names are never checked, yet matching `executable` they trigger `PrepareForExecution(JoinPath(box, "/sh"))`, and `JoinPath` returns the absolute `/sh`, so the system file is made immutable. With `Requests <- BadOutputRequests` the same property reports an output name with `/` rejected only after the sandbox ran. |
| `exec_temp_leak` | violation | A commit that loses the race leaves its `.XXXXXX` file in the store. |
| `events` | pass | Three queues, two producers with two events each. The writers of two queues run `BindWriter` over one transport; the third runs `BindWriterUnlocked`. Checks `ChannelRefinement`. |
| `exec_hardlink` | violation | On one filesystem a plain input is a hardlink to its blob and is never made immutable. The program's write changes the blob under its hash. |
| `streams` | pass | Two concurrent calls, each a `Hash`, a `HardCopy` or a served fetch, with any flags, one source and one destination, every `open`, `read`, `close`, `mkostemp`, `write`, `fsync` and `send` able to fail, and one crash and restart at any point: the destination is only ever absent, its old contents or the whole source (`DestinationAtomic`), and every call returns or throws (`CallsReturn`). |
| `streams_fd_leak` | violation | One call ends with its source descriptor still open (`DescriptorsReleased`): after a read error `OsRead` sets `fd = -1` before `close(fd)`; and when `HardCopy`'s `Write` throws EEXIST after `Read` opened the source, the producer lambda is dropped without closing. The run injects read, send and fsync failures, so the producer a rejected `sendChunk` drops (line 370) and the `close` a failing fsync skips (line 198) are reached too; BFS reports the shortest trace, and a run with only `send` or only `fsync` failing finds the invariant violated as well. |
| `fileops` | pass | Two concurrent `Copy`, `Move` or `Remove` calls with any flags over three paths on two filesystems, each present or not: an existing file is unlinked or replaced only by a call with overwrite, or by a `Move`/`Remove` of that path (`ReplaceOnlyWithOverwrite`); and a `Copy` without exist_ok that returns normally has put at its destination contents its source held during the call (`CopyDeliversSource`), even when another caller creates the destination between `HardCopy`'s check and its commit. |
| `fileops_move` | violation | `File::Move` inverts `OsAtomicMove`'s 0-on-success result (`MoveContract`): a failed move (missing source, EXDEV) returns normally having done nothing, and a successful one copies from the removed source and throws. Without overwrite and with exist_ok, an existing destination makes `Move` remove the source and keep the old destination. |

`PROJECT.json` records:

- each violation as a finding;
- for each property of a passing run, a mutant (a plausible bug in the mapped code) that TLC must catch.

### Bounds and why they are enough

**Executor.**

- Two requests and two hashes are enough to make every race happen: two fetches of one blob, and a fetch beside an ingest of the same bytes. Both are reached, as the violation runs show.
- The request shapes cover every branch of `Execute`:
  - a FIFO request;
  - inline and callback inputs;
  - an executable input;
  - a STDIN input;
  - exclusive and keep_sandbox;
  - an illegal input name;
  - a declared output that may be missing;
  - a zero (no) limit next to a set limit.
- Each usage triple in `MCInfos` sits on one side of a scaled or unscaled limit, with signal and exit code 0 or not.
- Symmetry over the two requests is sound because no definition orders them.

**EventQueue.** Two producers with two events each interleave their enqueues in every order into two queues, and `Stop` can come before, between or after them, so a writer can see a stop with events still queued, or end before late events arrive. Two queues are the least that makes their writers contend for the transport.

**FileStreams.** Two source chunks are the least that puts a chunk between the first write and the commit, so a partial destination would be visible; two callers share the destination, so a copy and a fetch race their commits; the destination starts absent or with one chunk of other contents, so every EEXIST, exist_ok and overwrite branch is taken. One crash is enough to lose whatever was not fsynced before a publication.

**FileOps.** Three paths, two on one filesystem and one on another, each present or absent at the start, and two callers with any operation, flags and pair of paths: every errno branch of `OsAtomicCopy`/`OsAtomicMove` (ENOENT, EXDEV, EEXIST) is reached, and each caller can act in the other's window between `remove` and `link`.

**ThreadGuard.**

- Three threads are needed for a shared admission beside a wrapped counter.
- `SizeBits` 2–3 keeps the `size_t` wrap reachable.

### Fairness and deadlock

- `ThreadGuard!Spec` assumes weak fairness of `Release`. A held guard is released when the sandbox run ends, and the sandbox enforces a wall limit.
- `EventQueue!Spec` assumes weak fairness of each writer's `Dequeue`, `Lock` and `Write`. A writer thread is runnable, absl's `Await` re-checks its condition on every release of the queue mutex, and with bounded producers the serializing mutex is eventually free.
- The EventQueue runs use `CHECK_DEADLOCK FALSE` too: a writer whose queue is never stopped blocks in `Dequeue` forever, which is what the code does.
- `FileStreams!Spec` assumes weak fairness of each caller's step: a caller is a runnable thread, or a pending capnp call that the peer answers or the transport rejects. `Crash` has no fairness: a crash may or may not happen. `FileOps` checks only safety.
- The FileStreams and FileOps runs use `CHECK_DEADLOCK FALSE`: every call ends at `pc = "done"`.
- The Executor runs use `CHECK_DEADLOCK FALSE`. Every call really does stop, at `pc = "done"`, once it has returned or thrown.

## 4. Not modelled, and the plan

**Not modelled.**

- The sandbox internals, SHA-256, and the capnp event loop and serialization. They are outside the core by spec 1; the per-chunk protocol of `HandleRequestFile` is in `FileStreams`.
- `ListFiles` and `MakeDirs`; `OsIsLink`'s symlink branch (no code creates symlinks).
- `command.txt`, logging and cmdline rendering. No property reads them.
- `MakeDirs`' path walk. Directories are implicit.
- Files outside the worker's directories are `SysPath`s: present, writable, contents not modelled; only `PrepareForExecution` can reach them, through an absolute executable name.
- Stray temp files left by a crash: nothing in the code looks for them, so `FileStreams` forgets them at the restart.
- `SharedQueue` (C7) is left out: nothing under `src/` instantiates it and as written it cannot compile when instantiated (one-argument `pthread_cond_wait`, `data_` indexed by a pointer). Its lock that is never released is recorded as a hazard.

- `ListFiles`, `LazyChunkReceiver` and `MakeImmutable`: nothing under `src/` calls them. `JoinPath` is modelled only for the absolute-name case (`JoinBox`); `BaseDir`, `BaseName`, `PathForHash`, `OsTempDir` and `OsTempFile` only build names, which the models abstract to tuples.
- `RemoveTree` failing in `~TempDir`: `nftw` fails only on entries made by the sandbox or the sandboxed program (a mount point, a directory made unwritable), which are outside the modelled code. The hazard is listed.
- A crash of the worker during `Execute`: spec 1 lists durability of the store across crashes, beyond what atomic rename gives, as a non-goal. `FileStreams` checks that atomic rename guarantee under a crash.
- Larger instances: three callers in `FileStreams` or `FileOps` take more than five minutes for TLC, and three requests in `Executor` more still. Two callers are what every race in these modules needs.

This is as far as the code can be modelled faithfully with the checks kept within their time: every component that the code exercises is modelled, and what remains is either not called, pure string building, or outside the code.
