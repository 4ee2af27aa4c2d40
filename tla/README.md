# TLA+ models of Fossilize's replay supervisor and pipeline-state recorder

This directory holds TLA+ models of two source files and the TLC configurations that check them:

- `src/cli/fossilize_replay_windows.hpp`: the Windows master/worker replayer;
- `src/vulkan_pipeline_cache.cpp`: the state recorder, the canonical hashes, the JSON serializer and the parser.

`PROJECT.json` lists, in machine-readable form:

- every component;
- every run and the properties it checks;
- a mutant for every property;
- the source lines of every definition;
- the findings and the hazards.

## 1. The system and its parts

| Part (spec §) | Source | What it does |
|---|---|---|
| Master supervisor (C7) | `run_master_process`, `ProcessProgress::*` (hpp 52-255, 296-484, 538-716) | Partitions the archive's graphics and compute pipelines over `num_threads` worker slots. It starts one worker per slot and waits on three handles per slot: pipe event, process, timer. It parses the worker's crash reports, respawns a crashed worker over its remaining range, and kills a worker whose crash handler hangs. |
| Worker runtime (C6) | `run_slave_process`, `crash_handler` (hpp 721-850) | Reads the module blacklist from stdin and replays its range. On a crash it writes `CRASH`, `MODULE x`…, `GRAPHICS n`, `COMPUTE n`, runs `emergency_teardown` (which may hang) and exits 2. |
| Framed IPC channel (C9) | `write_all`, `CreateCustomPipe`, `kick_overlapped_io`, `process_once` | One message-mode pipe per worker. The worker writes with `WriteFile` + `FlushFileBuffers`. The master reads with overlapped I/O signalled by `pipe_event`. |
| Process-group guard (C8) | hpp 552-569, 443-447 | A job object with KILL_ON_JOB_CLOSE. Its creation or assignment can fail, and the failure is only logged. |
| Shared control block (C5) | `open_shm`, counters in `process_shutdown` and `parse` | The `banned_modules` and clean/dirty death counters, `progress_started` and `progress_complete`, and a ring buffer. |
| Hasher (C1), canonical hashing (C2) | cpp 18-516 | Order-sensitive hashes of every Vulkan create-info, with dynamic-state suppression. |
| Registry (C3) | cpp 937-1216 | `register_*`, `set_*_handle`, `get_hash_for_*`, and the deep copies into a scratch arena. |
| Serializer / Parser (C4) | cpp 519-874, 1232-1734 | A JSON document of the seven kinds; the parser replays it in kind order. |
| Scratch allocator | cpp 894-935 | A bump allocator over a list of blocks. |

### How the parts interact

1. The master spawns a worker through `start_child_process`: pipes, `CreateProcess`, job assignment, the blacklist on stdin, then the first overlapped read.
2. The worker reports only through its crash handler.
3. Each completed read signals `pipe_event`. The master's loop handles the lowest-index signaled handle.
4. When a worker exits, `process_shutdown` drains the pipe with `while (process_once())`, reaps the exit code, updates the counters and decides whether to respawn.
5. A `CRASH` message arms a one-second timer. If the timer fires, the master calls `TerminateProcess(…, 3)` and then takes the same exit path.

## 2. Modules

### `Supervisor.tla`

`Supervisor.tla` covers the master (C7), the workers (C6), the pipes (C9), the job (C8) and the master's control-block counters (C5).

**State**

- The master:
  - `mpc`: the master's control point, or its final outcome (`ok`, `spawn_failure`, `kick_failure`, `terminate_failure`);
  - `cur`: the slot and handle the master is working on;
  - `launching`: whether the initial spawn loop is still running;
  - `blacklist`: `Global::faulty_spirv_modules`;
  - `active`: `Global::active_processes`;
  - the control-block counters.
- Per slot:
  - `slot[w]`: the `ProcessProgress` record (start indices, open handles, the overlapped read `rd`/`buf`, timer, progress markers);
  - `pipe[w]`: the messages in the pipe;
  - `child[w]`: the worker (state, messages the crash handler still has to write, its blacklist, exit code, whether it is in the job).
- One history variable for the properties: `reapedSent`, the modules written by workers that have been reaped.

**Master actions**

- `Launch` and `KickFirstRead`: `start_child_process`, split where the worker may already run before the first read is kicked.
- `Wait`: `WaitForMultipleObjects` returning the lowest signaled index. Its `HandleOrder` is the handle array the loop builds.
- `HandlePipeEvent`: `process_once`.
- `HandleProcessExit` and `HandleTimer`: the process and timer branches. Both call `Reap`, which is the whole of `process_shutdown` (drain via `FoldLeft(Parse, …)`, close, count, decide) followed by `start_child_process` when it returns true.
- `LoopExit`: the end of the loop.

Waiting and handling are separate steps, because a worker runs between them.

**Worker and environment actions**

- `Finish`, `Crash`, `WriteMsg` (one `write_all`), `HandlerDone`, `BrokenPipe` and `TeardownExit` model the worker.
- `CrashAgain` and `HandlerDone2` model a second thread that faults while the first is still in `crash_handler` or `emergency_teardown`. `crash_handler` can fire on any thread (spec §5), and nothing serialises it. The second thread writes its own report (`Reports`: CRASH, the modules, its own GRAPHICS/COMPUTE) to the same pipe, interleaved message by message with the first thread's report. This is allowed in the slots of the constant `ConcurrentHandlers`.
- `TimerFires` and `JobKill` model the operating system.

**Abstractions**

- A message is its kind and value.
  - The `%u` formatting and the `strtol` parse are inverse for the indices a worker can report. The one edge case is listed as a hazard.
- A module hash is a model value.
- A crash reports any index in the remaining range and any set of unmasked modules.
- The engine's replay is a single step.
- Because `FlushFileBuffers` returns only once the reader has read, a pipe holds at most one message. With two handler threads, the model also lets a write start only when the pipe is empty. Two threads both blocked in `FlushFileBuffers` with two messages queued are therefore not modelled; the drain in `process_shutdown` reads any number of messages the same way.

**Refinement.** `SlotLifecycle.tla` states what the supervisor promises per slot (spec §4.7 and §8), with no processes, pipes or messages:

- A slot goes `idle`, `spawned`, `running` (its first read kicked), `crashing` (a CRASH parsed), and then `retired` or `spawned` again.
- The range's start never moves back.
- The blacklist only grows.
- Each worker is handed the blacklist as it stands when the worker is spawned.
- Success (`ok`) only when every slot is retired; an abort at any time.

`EXITED`/`TERMINATED` of spec §4.7 fold into the single `Exit` step, as `process_shutdown` does them in one go. `Supervisor` maps onto it as follows:

- `Phase(w)` is read off the open handles and the timer;
- `start` is read off `start_graphics_index` and `start_compute_index`;
- `given` is the blacklist the worker masked;
- `outcome` is read off `mpc`.

`ImplementsSlotLifecycle` checks the mapping as a property.

### `ScratchAllocator.tla`

`ScratchAllocator.tla` models `ScratchAllocator::add_block` and `allocate_raw` (cpp 894-935), and the `copy<T>` requests of its clients (cpp 876-892).

**State**

- `blocks`: the block list, as size and bump offset per block.
- `allocs`: a history of the regions handed out.
- `req`: the request `allocate_raw` is serving.
- `served`: the number of requests issued.

**Actions**

- `Request` is one `copy<T>` call.
- `AllocateRaw` is one activation of `allocate_raw`:
  - it adds a first block if there is none;
  - it rounds the offset with the code's own `(offset + alignment - 1) & ~alignment`, written with `Bitwise` as `ClearBits`;
  - it applies the code's fit test `required_size <= size`;
  - it either records the region or adds a block for the next activation.
- The self-call is modelled as repeated steps. Because of that, a recursion that never returns is a behaviour in which `req` is never served.
- `AllocTerminates` says every request is served. It is checked at `decode_base64`'s request, `allocate_raw(size, 4)` (cpp:522).

### `Registry.tla`

`Registry.tla` models the recorder's registry:

- `register_*`: append, then return `size()`;
- `set_*_handle`: `operator[]=` into the handle→index maps;
- `get_hash_for_*`: throws `UnknownHandle` when the handle is absent;
- the reference rewriting of `copy_*`, for the seven kinds.

**State**

- `reg[k]`: the recorded entries, each with its hash and its references.
- `toIndex[k]`: the handle→index maps.
- `live[k]`: the driver's live handles and the entry each was registered as. This is a history variable, used to say what a reference should resolve to.
- `created` and `fault`: the number of creates so far (bounded by `MaxCreates`) and a flag for a null dereference.

The out-of-bounds write of `copy_descriptor_set_layout` (cpp:1108) lands in the caller's array, which is not part of the state; it is a hazard without a run.

**Actions**

- `Create(k, x)` is the whole of a `vkCreate*` recording: `copy_*` (rewriting references), `register_*` and `set_*_handle`.
- `Destroy` models the driver freeing a handle, which it may reuse later. The recorder keeps its entries.

**Abstractions**

- A create-info is its references. Each reference is either rewritten to `index + 1` or left raw.
- All other fields are folded into the hash.

**Refinement.** `Registry` implements `HashRegistry.tla`, the registry as callers see it (spec §4.3): per kind, an append-only log of hashes and a lookup that answers, for a handle, the hash last registered under it. The mapping sends `log` to the hashes of `reg` in order and `lookup` to `GetHashFor` on every handle. `Register(k, x)` is one create; `Destroy` is a stuttering step, because the recorder keeps every entry and mapping.

### `Replayer.tla` and `ReplayOrder.tla`

`Replayer.tla` models `StateReplayer::parse` (cpp 519-873) and the replayer engine it calls back.

**State**

- `doc`: the document, a function from its keys to arrays; an element is its sequence of 1-based references (0 is null). `Malformed` is a text `doc.Parse` rejects.
- `pos`, `elem`, `stage`: the kind being parsed (in `ParseOrder`: shaderModules, samplers, descriptorSetLayouts, pipelineLayouts, renderPasses), the loop's element and where parse is.
- `replayed`: the `replayed_<kind>` vectors, holding `NullHandle` until the engine writes a slot.
- `pending`: creations enqueued and not yet completed by the engine. `sent`: the history of `enqueue_create` calls with the references passed.

**Actions**

- `ParseDocument`: `doc.Parse` and its `HasParseError` early return.
- `BeginKind`: a present key gives `set_num` and `resize(n)`; an absent key moves on. After the last kind parse returns true.
- `EnqueueCreate`: one loop iteration: a dangling index throws and parse returns false from its catch; otherwise the references are resolved against `replayed_<target>` and the creation is enqueued.
- `WaitEnqueue`: `wait_enqueue()` after a kind, which returns once `pending` is empty.
- `EngineCreate(o)`: the engine completes a creation on its own thread and writes the handle into the slot, also after parse has returned. The engine is outside `src/` and is modelled from spec §4.4.

**Refinement.** `Replayer` implements `ReplayOrder.tla`: objects are created kind by kind in the parser's order, every object of a kind before any of the next, and parse returns true only once every object exists. The mapping reads the created objects off the slots the engine wrote.

### `ArchiveRoundTrip.tla`

`ArchiveRoundTrip.tla` extends `Replayer` with the document `StateRecorder::serialize` (cpp 1232-1733) writes for a recorded registry, and parses it. Each entry is the sequence of its references as `copy_*` left them (index + 1). `Serialize` is the release build: rapidjson's `AddMember` moves the value, and `setLayouts` and `renderPasses` are added before their loops fill them, so the document holds them empty. `ReadKey` is the key parse reads each registry back from; there is none for pipelines.

### `CanonicalHash.tla` and `MCCanonicalHash.tla`

`CanonicalHash.tla` models the `Hashing` namespace (cpp 18-516): one operator per `compute_hash_<kind>`, plus one per block of `compute_hash_graphics_pipeline`.

- **Hasher (C1).** The `Hasher` is not under `src/`. Spec §4.1 says two hashes are equal iff the token sequences fed to them are equal, in type and value. So a hash is represented by that sequence: `U32(v)`, `S32`, `U64`, `F32`, `Str` and `Blob` are the typed tokens of `h.u32`, `h.s32` and the others. The 64-bit mix is out of scope.
- **Create-infos.** Each create-info is a record named after its Vulkan struct. An optional pointer is a sequence of length 0 or 1, and an array is a sequence. A referenced handle hashes as `HashFor[kind][handle]`, which is `get_hash_for_<kind>`.
- **Graphics pipelines.** The operators keep every guard of the code:
  - a dynamic state suppresses its fields: viewport and scissor rectangles, line width, depth bias, blend constants, depth bounds, and the three stencil masks;
  - a disabled test suppresses its fields: depth bounds, stencil and depth bias;
  - blend factors are hashed only for an enabled attachment;
  - `colorWriteMask` is hashed only for an enabled attachment, like the factors;
  - blend constants are hashed only when an enabled attachment uses `CONSTANT_COLOR` or `CONSTANT_ALPHA` (cpp:345-355);
  - the sample mask is hashed in `(samples + 31) / 32` words;
  - a null block is one `u32(0)`, except the multisample block, which feeds nothing.

`MCCanonicalHash.tla` checks the hashes against an independent statement of each entity's identity. Each entity is paired with a copy that differs in exactly one field, and `HashBoth` hashes both. `Ignored(e, f)` is the reference: it says, from the Vulkan meaning of the fields and not from the code operators, which fields are outside the identity. Those are:

- fields overridden by a listed dynamic state;
- fields gated off by a disabled enable (the blend enable gates the factors and ops, not `colorWriteMask`, which Vulkan applies to every write);
- the blend constants, when no enabled attachment uses a factor that reads them: the four `CONSTANT_*` factors of spec §4.2, `ONE_MINUS_` ones included;
- an immutable sampler of a non-sampler binding;
- a referenced handle replaced by another handle with the same hash.

Besides pipelines and layouts, the entities include a shader module (flags, code size, code) and render passes with valid layouts: two attachments, none or one dependency, and one subpass or two subpasses, with and without resolve and depth-stencil references. Every field is varied, including which subpass carries the depth-stencil reference.

## 3. Runs

The Supervisor runs use `MCSupervisor.tla`: 2 slots, 2 graphics pipelines, 1 compute pipeline, and one module `m1`. The allocator run uses `MCScratchAllocator.tla`. The registry runs use `MCRegistry.tla`, with two handles under symmetry.

**Passing runs**

| Run | cfg | Checks |
|---|---|---|
| supervisor_safety | `MCSupervisor.cfg` (MaxCrashes 2) | `TypeOK`; `ReportedModulesBanned` (every MODULE a reaped worker wrote is in the blacklist); `CompleteOnlyWhenAllReaped`; `RespawnResumesAtReportedProgress` (a respawn starts at the last GRAPHICS/COMPUTE the dead worker wrote). |
| concurrent_crash_handlers | `MC_ConcurrentHandlers.cfg` (1 slot, 3 graphics, 1 compute, MaxCrashes 2, `ConcurrentHandlers = {0}`) | `ReportedModulesBanned` and `RespawnResumesAtReportedProgress` with a second crashing thread. Its report is interleaved with the first thread's, so the resume point may take GRAPHICS from one thread and COMPUTE from the other. |
| supervisor_liveness | `MCSupervisorLive.cfg` (MaxCrashes 1) | `HungWorkerReaped`, `Termination`; `ImplementsSlotLifecycle` (the supervisor refines `SlotLifecycle`). |
| registry_refs | `MCRegistry.cfg` (4 creates, 1 reference per array, 1 binding) | `TypeOK`; `ImplementsHashRegistry` (the registry refines `HashRegistry`: a handle's lookup gives the hash last registered under it, across destroy and reuse); `SetLayoutRefsResolve`; `PipelineRefsResolve` (modules, render pass, base pipeline). |
| replay | `MCReplayer.cfg` (all subsets of the five kinds; up to 2 samplers and 2 set layouts with references 0-2) | `TypeOK`; `RefsResolvedAtEnqueue` (every reference handed to the engine is the handle the engine made for the object named); `ImplementsReplayOrder`. Whether parse returns is not checked here: `decode_base64` would never return (see `allocation_never_returns`). |

**Violation runs**

| Run | cfg | What TLC shows |
|---|---|---|
| timeout_races_exit | `MC_TimeoutNeverAbortsMaster.cfg` | The timer fires, the worker exits by itself before `TerminateProcess`, and the master returns EXIT_FAILURE (hpp:693). |
| exit_before_first_read | `MC_ChannelFailureNotFatal.cfg` | A worker that dies before the first read is kicked aborts the master (hpp:477). Spec §7 says a channel failure is recoverable. |
| orphan_outside_job | `MC_OrphansKilled.cfg` (JobAssignMayFail) | A worker not in the job, hung in teardown, outlives the aborted master (hpp:443). Spec §4.8 says it dies. |
| parse_failure_side_effects | `MC_ParseFailsCleanly.cfg` | A set layout's second element has a dangling sampler index: the first was already enqueued, and parse returns false with the engine still creating it (cpp:588, 868). Spec §7 says a DanglingReference has no side effects. |
| allocation_never_returns | `MCScratchAllocator.cfg` (one request of size 4, alignment 4, minimum block 4) | `AllocTerminates` fails: the rounding turns the fresh block's offset 0 into 3 (cpp:924), `3 + size <= size` is false, so `allocate_raw` adds a block and calls itself again, forever (cpp:934). `decode_base64` makes exactly this request (cpp:522). |
| hash_identity | `MCCanonicalHash.cfg` (graphics pipelines over every dynamic list, enable and source factor ZERO, CONSTANT_COLOR or ONE_MINUS_CONSTANT_COLOR; set layouts, pipeline layouts, compute pipelines, a shader module, render passes with valid layouts; every field varied) | `HashIsIdentity` fails: two pipelines that differ only in the `colorWriteMask` of a non-blending attachment hash equally (cpp:334-337), though Vulkan still applies the mask. With that field set aside, a second collision: a `ONE_MINUS_CONSTANT_COLOR` factor does not make the blend constants hashed (cpp:345-355), while spec §4.2 names every `CONSTANT_*` factor. |
| archive_round_trip | `MC_RoundTrip.cfg` | Parsing what serialize wrote: `setLayouts` is empty in the document (and parse reads `descriptorSetLayouts` anyway), so the first pipeline layout referencing a set layout throws (cpp:1263, 853). Pipelines are never parsed. Spec §8 says the round trip is the identity. |

### Why the bounds are enough

- **Two slots.** Two slots give the cross-slot handle priority and the `active` bookkeeping of more than one worker.
- **Two graphics pipelines.** Slot 0 owns one pipeline and slot 1 owns the other. So a crash can report either the start index (no progress) or a later one.
- **One compute pipeline.** It gives slot 0 an empty compute range and slot 1 a non-empty one.
- **Two crashes per slot.** With two, a respawned worker crashes again. That is the case where stale progress markers or a blacklist grown in between matter.
- **Concurrent handlers.** A second handler thread multiplies the states of its slot by about 60. Two slots with it, even with one crash per slot, exceed the five-minute bound. So `concurrent_crash_handlers` uses one slot, and `supervisor_safety` keeps the cross-slot cases without it. Three graphics pipelines give the two threads distinct indices to report, and two crashes let the respawned worker crash again. Two threads are the least that interleave two reports. The master pins each worker's replayer to one thread (hpp:548), but the worker's main thread and the driver's threads can fault too.
- **One module.** One module is enough to lose a MODULE message. A second one multiplies the state space without a new interleaving: each write is a separate step anyway.

- **Allocator.** One request at `decode_base64`'s alignment 4 on a fresh allocator is enough: the first activation adds a block, and so does every later one. Three blocks bound the trace that TLC prints; the lasso it finds repeats the last step. The alignments that `copy<T>` passes (`alignof(T)`, 4 or 8 for the Vulkan structs) take the same path.
- **Registry.** Four creates over two handles reach create, destroy, reuse of the handle, and a reference to the reused handle, which is the stale-mapping case. One reference per array is enough for the rewrite.
- **Replayer.** Every subset of the five keys, with up to two samplers and two set layouts whose references range over 0 (null), in range and one past the end, reaches: an absent kind, an empty array, a reference into a kind the engine has not finished, a dangling reference after an enqueue, and a malformed text. Two elements per kind are the least for a failure in the middle of a kind.
- **Canonical hashes.** Each graphics pipeline covers the following: the dynamic list (empty, all nine states, or each single state), every enable (depth bounds, stencil, depth bias, blend), and a source factor that is ZERO, CONSTANT_COLOR or ONE_MINUS_CONSTANT_COLOR. Every field is varied once. So each guard of `compute_hash_graphics_pipeline` is met both taken and not taken. Each kind of handle has two handles with equal hashes and one with a different hash: `m1`/`m2` and `m3`, `s1`/`s2` and `s3`, `d1`/`d2` and `d3`. So a swapped reference is ignored in one case and detected in the other.
- **Round trip.** At most one entry per recorded kind, with valid references; one set layout referenced by one pipeline layout already shows the failure.

**Run times.** The safety run explores 2.2 M states in about 40 s. The concurrent-handler run explores 665 k states in about 20 s. The liveness run, with the refinement, explores 215 k states in about 60 s.

### Fairness

Fairness is weak fairness (WF) on the following:

- **Master steps.** The master is a single loop that always handles a signaled handle.
- **`TimerFires`.** Time passes.
- **`WriteMsg`, `HandlerDone`, `HandlerDone2` and `BrokenPipe`.** A write the master will read completes.
- **`Finish`.** A finite range ends.
- **`JobKill`.** The OS kills the job. `orphan_outside_job` uses it: a worker in the job dies with it, and the violation is the worker that is not.

`AllocateRaw` is weakly fair, because `allocate_raw` runs on its caller's thread until it returns. Under that fairness `AllocTerminates` still fails: the steps are taken, and they never serve the request. The registry's refinement is a safety property and needs no fairness.

In `Replayer`, the parser's steps are weakly fair (parse runs on its caller's thread), and so is the engine completing some pending creation: `wait_enqueue` blocks until the engine has drained, and the engine's threads complete every creation they were given.

`TeardownExit` has no fairness, because the code comment says `emergency_teardown` may hang forever. This is why `HungWorkerReaped` depends on the timer.

## 4. Not modelled, and why

- **The Vulkan replay engine, `open_shm`, and the ring buffer.** `shared_control_block_write` is outside `src/`. `open_shm` performs only I/O and a validation that the master's state does not depend on.
- **Argument and command-line building, logging.** None of the properties depends on them.
- **`CreateWaitableTimer` and `GetExitCodeProcess` failures.** These are listed as hazards with the reason no property covers them yet.
- **Concurrent crash handlers in more than one slot at a time, and in the liveness run.** Both are beyond TLC's reach within the run-time bound; see the bounds above.
- **A respawn without progress (hpp:241).** A worker that crashes at its start index with nothing implicated is respawned over the same range with the same blacklist. Spec §8 says each respawn makes strict progress or is classified UnrecoverableEarlyCrash. This is a single branch of `process_shutdown`.
- **The Hasher's 64-bit mix.** It is not under `src/`. The model keeps its contract (spec §4.1: equal iff the token sequences are equal), so a real 64-bit collision is out of scope.
- **The fields of each parsed or serialized element** (attachments, subpasses, fixed-function state, Base64 payloads). Only references are kept. So `parse_attachments` allocating one element (cpp:762) and the missing `codeSize` (cpp:610) are hazards with notes.
- **Three code bugs without a run of their own.**
  - A clean worker exit (code 0) is counted in neither death counter (hpp:224), while spec §8 scenario 1 expects `clean_process_deaths = 3`.
  - The fit test of `allocate_raw` compares with the request's size, not the block's (cpp:926). With alignment 1 after an odd size it would hand out regions past the block's end or overlapping the previous one (cpp:924). No run checks the bytes handed out, since at the alignments the code uses `allocate_raw` does not return at all.
  - `copy_graphics_pipeline` dereferences null optional states (cpp:1156). `Registry` models this as the `fault` state that ends recording.
  - Each is a single branch that a unit test reaches directly.
- **Bugs found by earlier runs, kept as hazards without a run.**
  - `copy_graphics_pipeline` never rewrites a pipeline's `layout` (cpp:1144), so the layout is serialized as a raw driver handle (cpp:1451, 1492). Every recorded pipeline shows it.
  - The immutable sampler at the binding's index is rewritten, not every sampler of the binding (cpp:1108).
  - `hash_subpass` feeds a null depth-stencil reference as one `u32(0)` and gives the resolve array no count (cpp:486). Two render passes then collide when the depth-stencil reference `{0, UNDEFINED}` sits on the first subpass in one and on the second in the other. The witness needs layout UNDEFINED, which Vulkan forbids for a used attachment, or subpass flags equal to a layout. `HashIsIdentity` checks valid layouts, where the stream is self-delimiting.
- **Render-pass serialization bugs, each reached by any unit test that serializes a render pass.**
  - Subpass resolves are read from `pColorAttachments` (cpp:1416-1425).
  - The depth-stencil reference is never added to the subpass (cpp:1427-1437).
  - Preserve attachments are never pushed (cpp:1384-1389).
  - `parse_render_pass_subpasses` reads no color attachments and sets no counts (cpp:776-793).
  - The models keep references only (see above), so these field-level losses are listed here and not checked.
- **Pipeline and sampler serialization bugs, reached by any unit test that serializes one.**
  - Each colour-blend attachment object is built and never pushed onto `attachments` (cpp:1608-1620), so every pipeline's blend attachments are lost.
  - `addressModeV` and `addressModeW` are written from `addressModeU` (cpp:1250-1251).
  - Like the render-pass losses, these are field-level and the models keep references only.
- **Memory lifetime of the caller's arrays.** The registry model records values at copy time. The aliasing of `pImmutableSamplers` (cpp:1100) is therefore a hazard with no property yet.
