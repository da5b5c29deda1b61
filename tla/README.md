# Verification project for Blackframe Renderer

TLA+ models of the parts of Blackframe whose correctness depends on order,
concurrency or partial failure, TLC configurations that check them on small
instances, and TLAPS proofs of the invariants that matter for every size.

Paths below are relative to `src/Blackframe/` of the repository.

## 1. Inventory

Blackframe renders one frame scene through one of three transports that share
the same conventions: a *scalar* reference loop, a *CPU wavefront* over a thread
pool and Embree, and a *CUDA wavefront*. An unavailable or unsupported path
fails before rendering, a failing one fails the whole batch; there is no silent
fallback anywhere, so "what does a failure leave behind" is the recurring
question.

| Component | State it keeps | Operations | Hard behaviour |
|---|---|---|---|
| Renderer: wavefront queues (`WavefrontQueues`) | two fixed arrays, two active sizes, read index, pending flag | push, push_batch, compact_terminated, publish, release, move, read span | the reader's span while the producer compacts in place; a publish over an unreleased generation; exactly full buffers |
| Renderer: CPU scheduler (`CpuWavefrontScheduler`) | worker threads, two mutexes, two condition variables, generation counter, completion count, borrowed kernel pointer, per-worker outcomes | create, execute_stage, move, destroy | lost and spurious wake-ups, the kernel's lifetime, concurrent callers, shutdown while asleep, a pool that fails to start |
| Renderer: depth limits, path state (`PathDepthLimits`, `PathState`) | per-category counters, delta flags | advance, filter, validate | two limits used up together, counters and flags out of step |
| Engine: scalar MIS loop (`SceneMisPathLoop`) | separate locals for beta, counters, flags, radiance | trace_scene_mis | early returns between related updates, light counted by two strategies |
| Backends/CPU/Embree: transport (`WavefrontMisTransport`) | one runtime per slot, seven stage queues, statistics | trace_cpu_wavefront_mis | routing between queues, a shadow query that outlives the bounce, equivalence with the scalar loop |
| Engine + Backends/CPU/Embree: acceleration (`AccelBackend`) | published scene, instances, Embree scenes, queryable flag | create, rebuild, refit, closest_hit, occluded | any Embree call failing in an in-place refit or in its rollback |
| IPC (`LocalTransportPosix`, framing, codec) | listening socket, its inode, connections | Listen, destructor; Run/ServeOne, Exchange | stale socket nodes, reused inode numbers, a client that stalls or leaves, a stop between two requests |
| Backends/GPU/CUDA: wavefront transport, its kernels and queues (`WavefrontTransport`, `CudaWavefrontStages`) | device lanes, device queues with overflow counters, audits, a reusable workspace | trace, stage, compact, clear, abort | what a failed trace leaves to the next one; claims and routes of threads in any order |
| The workspace's streams (`CudaTransportSession`, `AsyncRuntime`) | two streams, events, pinned staging | stage, launch, record, wait, checkpoint, drain, close, destroy | a dependency that is missing only on a device that overlaps; failing calls at any point |
| XPU/CUDA host (`AsyncRuntime`, `DeviceMemory`) | device allocations, scratch, pinned memory, timing pairs | allocate, reserve, close, move, destroy | half-failed close and growth, the current device that cannot be restored |
| CUDA scene: hierarchy, traversal, upload (`CudaSceneBvh`, `CudaSceneClosestHit`, `SceneSoA`) | two trees, 194 columns behind a header | build, validate, closest hit, occlusion, serialize, load | ties, culling, stack capacity; offsets kept in columns |
| Renderer: host image cache (`HostImageCache`) | map of sources and map of converted images, a mutex | load | files that change between two steps, a failure between the two insertions |
| Extensions and XPU host (`ExtensionModule`, `XpuBackend`, `Engine`) | library handle, API table, list of backends | load, enumerate, shutdown, move | shutdown before unload, a duplicate found after its context was made |
| Engine: scene records (`SceneDescription`, `FrameScene`, hierarchy and record validation) | immutable values | create, resolve transforms, derive area lights | the same checks written twice in different orders, transforms composed on the way back of a climb |
| Engine: JSON (`SceneDescriptionJsonReader`/`Writer`, `SceneJsonSyntax`) | - | serialize, deserialize | two hand-kept tables of members, limits counted separately |
| Engine: meshes (`TriangleMeshImport`, `TriangleMesh`) | - | load, parse, create, compact | a file that changes during a load, relative indices, shared corners |
| Renderer: light sampler (`LightSampler`) | a table or a tree of slots | create, sample, probability, move | two techniques that must speak of one number, host and device |
| Renderer: closures (`ClosureSet`, `ClosureMixture`, device lobes) | closure records, probabilities on a grid | describe, project, filter, sample, evaluate | renormalisation after a depth limit removed a closure, two implementations |
| Renderer: film, writers, samplers | tables, accumulation buffers | numeric | numeric |
| Applications/Headless, Core, Plugins, DCC | - | command line, error values, a sample plugin | - |

How they interact. The scalar loop calls the acceleration backend twice per
iteration. The CPU transport owns seven queues and calls the scheduler once per
non-empty stage; the scheduler borrows the stage's kernel for the length of the
call and runs it on its workers; a kernel writes only the runtime of its slot
and calls the acceleration backend. The CUDA transport drives the same stages
through device queues, its kernels traverse and shade the uploaded scene. All
loops use the depth limits, sample the light sampler and a closure mixture, and
end by packing their bookkeeping into a `PathState`, which refuses an
inconsistent one. The backends serve immutable frame-scene snapshots compiled by
the Engine from records that a JSON document, mesh files and cached images can
come from. The IPC server and the extensions are the process's boundary.

What makes each part correct, in one line each:
the queue hands over each generation once and unchanged; the scheduler runs each
lane once and returns when all have; the loops' bookkeeping always agrees with
the bounces taken and names the limit that stopped them; both transports are the
scalar loop, slot by slot, and a workspace may be used again after a failure; an
acceleration backend answers from the published snapshot or not at all; the
CUDA traversal answers as an exhaustive search would; the two techniques of a
path give a light one probability, and a mixture draws with the probability it
reports; the endpoint removes only its own node and every exchange ends; no
native resource is lost, freed twice or freed in use; an extension is shut down
once, before it is unloaded; one version per image file; records are accepted if
and only if they hold together and are within the limits, or memory is refused; what was saved can be loaded; what a stage loads
is what the scene says; a mesh is what one version of its file says.
`PROJECT.json` lists the components with their status and the hazards with their
lines.

## 2. Plan

In order of importance to a correct image. Steps 1 to 14 are done.

1. `GenerationChannel` / `WavefrontQueues`: abstract channel, two buffers.
2. `StageBarrier` / `CpuWavefrontScheduler`: abstract barrier, thread pool.
3. `PathDepthLimits`, `SceneMisPathLoop`: limits, scalar reference.
4. `CpuWavefrontTransport`: the batch, refining the scalar loop; it relies on
   the barrier for how a stage runs.
5. `AccelBackend` / `EmbreeAccelBackend`: interface contract, Embree.
6. Proofs of 1, 2, 3 and 5, the refinements included.
7. `LocalIpcEndpoint`, `LocalIpcExchange`, `ExtensionLifecycle`: the boundary of
   the process.
8. `CudaWavefrontTransport`, refining the scalar loop; `CudaTransferStreams` and
   `CudaHostResources` below it.
9. `HostImageCache` and its proof, `SceneCompilation`, `SceneDescriptionJson`,
   `TriangleMeshImport`: what a scene is made from.
10. `SceneBvh` / `SceneClosestHit`, `CudaSceneSoA` / `CudaSceneReads`: the scene
    on the device.
11. `LightSampler`; `SurfaceLobes`, `SurfaceLobesDevice`, `ClosureMixture`,
    `ClosureMixtureDevice`: what a path samples.
12. Proofs of 4 (`BatchSound` and the refinement of the scalar loop), of 7, of 8
    (the CUDA runtime; that a trace only fails for reasons outside it, and refines the
    scalar loop) and of the cache of 9.
13. Proof of the device hierarchy of 10: what the builder makes is what both traversal
    kernels need.
14. Proof of the compilation of 9: which records both creates accept, and where the
    frame scene places them.
15. Left: proofs about documents, mesh files, device records, lights and closures; the
    film tiles and their merge; the Windows endpoint.

Every module that is proved about takes its sizes as CONSTANTS with named
assumptions, has one action per operation and reaches no RECURSIVE operator; the only
ones are in `SceneDescriptionJson` and `LightSampler`, about which nothing is
proved; `SceneBvh` builds, sorts and searches with recursive functions. The bounds
are in the `.cfg` files and the `MC` modules, not in the specifications; the few counters the code itself bounds (`MaxGeneration`,
`MaxDepth`) or that would grow for ever (`MaxCommits`, `MaxTraces`, `MaxHandles`,
`MaxWrites`, `MaxTexts`, `MaxQueries`, `MaxFaults`, `MaxOutside`) are constants
named as such.

## 3. Modules and the code

An action bears the name of the function it models where there is one; a chain of
`if` with early returns is an `IF`/`ELSE` chain or one disjunct for each way out. A
helper that `PROJECT.json` does not map on its own lies in the lines of the
definitions that use it.

### Queues: `GenerationChannel`, `WavefrontQueues`

`WavefrontQueues` models `BoundedWavefrontQueueT` and
`DoubleBufferedWavefrontQueueT`. The variables carry the fields' names, per
object handle, so that a move is a step between two handles. `storage` keeps the
cells beyond `active_size` too: stale cells are what a wrong size would expose.
Compaction is three actions (`begin_compaction`, `compact_lane`,
`end_compaction`) because its loop rewrites the buffer in place while a consumer
may read the other one; the optional sort is part of the last. A consumer takes
a span and reads it entry by entry. A call the code rejects changes nothing and
is a stuttering step. `GenerationChannel` has no buffers at all: a sequence being
built and at most one published generation. The refinement mapping hides an
unfinished compaction. Callers are assumed to respect the header's contract that
a release, a move or a destruction happens when no span is in use.

### Scheduler: `StageBarrier`, `CpuWavefrontScheduler`

One action per region between two points where another thread can run: one
critical section of `work_mutex_`, one kernel call, one notification. A condition
variable is the set of threads asleep on it; a notification, or
`spurious_wakeup`, makes a sleeper evaluate its predicate again, and a sleeper
that is not notified stays asleep, so lost wake-ups are visible. The lanes run
in the partitions of `worker_partition`; each kernel call succeeds or fails in any
way of `WorkerFailureKind`. The owner launches (a launch may fail half way),
moves and destroys the pool. `worker_count = 1` runs the lanes on the calling
thread without the barrier, as the code does. `generation_` is refused at its
maximum, which `MaxGeneration` makes reachable. `StageBarrier` says what the
callers rely on: exclusive stages, each lane once, the lowest failing lane
reported, refusal without effect.

### Depth limits and scalar loop: `PathDepthLimits`, `SceneMisPathLoop`

`PathDepthLimits` is the counting of `PathDepthLimits.cpp`: a scattering event is
a set of category flags, each with a limit, plus a total. Counters that would
leave their representable range are refused at `MaxDepth`. `SceneMisPathLoop` is
one call of `trace_scene_mis` per member of `Paths`; an action runs from one call
of the acceleration backend to the next. Throughput is the sequence of the events
whose factors it contains and whether it is black; radiance is the sequence of
its contributions with the throughput each was weighted by. Two paths with equal
sequences compute the same floating-point values in the same order, so the
abstraction tells apart what the image can. Any calculation may be refused
(`fail`).

### Transport: `CpuWavefrontTransport`

`trace_cpu_wavefront_mis`: `path` is the array of `RuntimePath`, `queue` the seven
queues, `stage`/`running`/`lanes` where the calling thread is. One action per
kernel (`initialize_runtime_path`, `trace_ray`, ...), one per routing loop of the
caller (`after_camera`, ...). The internal-error checks of the code are modelled
as failures with a name of their own, so that a part of `BatchSound`,
`NoInternalError`, says the checks never fire. It composes the other modules twice: a stage is run as
`StageBarrier` promises (each lane once, any order, then the barrier), and
`scalar_path` maps each slot to the state of a `SceneMisPathLoop` call. The
wavefront scatters before it knows whether the light was visible; while the
shadow query is pending, the scalar path is still waiting at `occluded` with the
throughput that was kept for it.

### Acceleration: `AccelBackend`, `EmbreeAccelBackend`

`AccelBackend` is the promise of `AccelBackend.hpp`, which the analytic backend
fulfils in single steps. `EmbreeAccelBackend` steps through the construction of a
candidate, the in-place refit and the rollback, each Embree call succeeding or
failing; a failing call may have taken effect or not. Until the next
`rtcCommitScene`, what traversal meets in an edited instance is `Torn`. Queries
are reads, stated in the properties through `closest_hit`; the class is not
synchronised, so they fall between updates.

### Process boundary: `LocalIpcEndpoint`, `LocalIpcExchange`, `ExtensionLifecycle`

`LocalIpcEndpoint` is the life of the socket node at the endpoint's path. Each
system call of `Listen` and of the destructor is a step, taken by any number of
server objects, of which each may crash; another program may remove the node or
put something else there (`MaxOutside` times). A node exists as long as its name
or the socket bound to it, and a new one gets any inode number nobody holds, so a
number comes back. `excused` remembers that one of the occasions has come on which
the code leaves its node behind: a crash, an `lstat` that fails right after `bind` or
before `unlink`, an `unlink` that is refused (its result is ignored, `:253` and
`:317`), or memory refused to the server object after the node was verified (`:352`).

`LocalIpcExchange` is `Run` over `ServeOne` on one side and `Exchange` on the
other. A frame is its header and perhaps a payload, each of which arrives whole or
not at all because `ReadExactly` and its counterpart loop; replies fit the socket
buffer, so a write does not wait. `Peers` are programs that are not ours: they
send any frame, or half of one, and leave at any moment. What the codec accepts is
in the frame's fields; the bytes are left out.

`ExtensionLifecycle` is `DynamicLibrary`, `ExtensionModule`, `XpuBackend` and the
vector of the `Engine`. A load stops at any of its steps and unwinds what it has.
The objects are values, so a move leaves one behind whose destruction must do
nothing. The plugin is external: a library either counts its contexts or, like
the lifecycle fixture of the tests, refuses a second. Two paths may lead to one
file. Move assignment, which nothing uses, is left out.

### CUDA transport: `CudaWavefrontTransport`, `CudaTransferStreams`, `CudaHostResources`

`CudaWavefrontTransport` drives the stages from the host: launch, audit,
compaction of each route, clearing. A thread claims its lane by changing its
phase, writes that lane and leaves an outcome. The gather kernels write no lane
and are part of the thread that reads the gathered ray; what a refusing thread has
written of its lane is left out, since nothing reads a failed batch. `owner` is a
ghost: which path a lane belongs to. Several traces run on one workspace, so a
failed one leaves its queues, phases and overflow counters to the next. The depth
filter of the device asks the limits of an event only, where the CPU's also asks
whether one more can be counted (`unblocked_events`, `uncountable`). It refines
`SceneMisPathLoop` by the same kind of mapping (`scalar_path`) as the CPU
transport.

`CudaTransferStreams` is the asynchronous mode below it: two streams that execute
their operations in order, events, pinned staging that the device reads later.
A refused call has no effect; a device that faults executes nothing any more.
`QuietUnlessPoisoned` is what entitles `begin_trace` to write the pinned buffers.
The destructor's last resort, synchronising the device, is taken not to be refused
when it asks which device is current.

`CudaHostResources` is the owners of device memory, scratch, pinned memory and
timing pairs, with every call refusable, the ones that switch the current device
included. A handle is one creation, never an address. `begin`, `end` and `elapsed`
of a timing pair, three guarded assignments, are left out.

### What a scene is made from: `HostImageCache`, `SceneCompilation`, `SceneDescriptionJson`, `TriangleMeshImport`

`HostImageCache` steps through a load under its mutex while files are rewritten,
removed or replaced by links, which are followed in two steps. A *version* is
what a file held when it was written. A conversion is refused when the tag asks for
color channels that the image has not.

`SceneCompilation` gives one set of records to both creates,
`SceneDescription::create` and `FrameScene::create`: nothing in the repository
turns the one into the other, the caller does. A record has the identifiers it
mentions and a flag for what the constructors of its numbers accept; a transform
is the sequence of local matrices it multiplies, so a wrong order shows. A product
of two "huge" matrices is not representable. A record is sorted by counting those
that precede it, and the type of an input (`Authored`) says which fields its
records have, because the proof works for any of them.

A refusal has the status the code gives it. Most checks of records say
`invalid_argument`; those of films and render options also know safety limits
(`RenderConfiguration.cpp:36` to `:113`), so such a record carries what its check says,
and the first check that refuses decides. Memory may be refused at any step; the code
answers with the status of a limit and another message, which the model keeps apart as
`host_memory_exhausted`. Left out are refusals that cannot come about here: `incompatible`,
because `validate_render_options` leaves the schema version at its default; the counts
of `MeshAreaLight::create` (`AreaLights.hpp:50`), which a `TriangleMesh` that exists has
within the limit (what is left of it is memory); 2^32 lights and the `max_size` of a
container, which no host reaches.

`SceneDescriptionJson` writes a description and reads it back. The document is the
tree its text spells. The writer's table of members and the reader's shapes are
two definitions as they are two lists in the code, and so are the two counts of
the limits. `edit` changes one member anywhere. The order of members, which the
reader ignores, and the limit on encoded bytes are left out; the limit on the
channels of a name is implied by the one on scalars. `SceneInputSamples`
has the descriptions.

`TriangleMeshImport` asks for a file's size, its bytes and its end in three steps;
another program may replace the file, extend it or remove it in between (writing
over it in place after truncation is left out). Then it parses. A text is lines of
tokens; a size is counted in lines when it is read from the file system, and in
characters of the shortest spelling when it is charged to the parser's budget.
Coordinates are integers. Embedded null bytes and the 32-bit limits are left out.
`SceneInputSamples` has the files and makes their edits.

### The scene on the device: `SceneBvh`, `SceneClosestHit`, `CudaSceneSoA`, `CudaSceneReads`

`SceneBvh` builds and validates the two levels, `SceneClosestHit` is one thread of
either traversal kernel, with its stack, its range checks and its count of visited
nodes. Coordinates are small integers, rays run along the first axis, and slabs are
exact where the code widens them by one representable step, which can only visit
more. Ties are therefore exact, and frequent. `StackCapacity` is 3 against trees
of up to four leaves; in the code it is 64 against 33 levels or fewer.
`build_node` is one call (`subtree`) of a function over all calls, so that it can be
reasoned about; sorting gives each item the place of its rank, which is what
`std::sort` does with keys that differ; the search of `validate_tree` takes as many
steps as there are nodes, which is how far it can get without seeing one twice.

`CudaSceneSoA` flattens a frame scene into its columns; `CudaSceneReads` is the
checks and loads of the kernels. The numbers of the columns are one table
(`scene_soa_column`), whose order `append_column` checks; their counts and sizes are
written three times, as in the code: for the host, for the stages, for the closest hit,
each of which refuses an upload laid out by others. What a place within a column holds,
and the offsets kept in columns, nothing checks. An area light is loaded whether or
not its instance's visibility mask hides it from the path, which in the code ends the
load early with no light. A value the scene only
carries along is a tag that says what it is; reading outside a column gives
something else. `MaximumUniformLightCount` is shrunk to 16. The content hash,
reserved words, limits of 2^32 and the element types of the serializer's calls
are left out.

### What a path samples: `LightSampler`, `SurfaceLobes`, `ClosureMixture` and their device counterparts

`LightSampler` makes a sampler of one of three strategies, copies it for the
device, and asks both sides for a light and for its probability. The boundaries
of a CDF are rounded to `Precision` steps; the tree, whose code works in
logarithms, is exact rationals; space has two axes; the lanes of a spectrum are
summed. The caller makes the sampler: nothing but its number of slots ties it to
the scene, and that is modelled. A sampler that was moved from and the longest
path are included.

`LobeGeometry` makes the directions at a surface finite: a microfacet sample picks
one of a few facets, a cosine sample a cell or, half of the time, the horizon.
`SurfaceLobes` and `SurfaceLobesDevice` say what each closure samples, evaluates
and reports over it; `ClosureMixture` and `ClosureMixtureDevice` how closures are
described, projected on the sampler's grid, loaded, filtered by the depth limits
and drawn. A value is the weight of the closures that scatter there, Fresnel terms
are halves, and only radiance is transported. `Scale` 5 and `Grain` 12 give grids
with ties to round. The two filters differ only when a depth has reached its
maximum: the host refuses, the device does not look. That is 2^32 - 1 in the
code and outside the bounds.

### Side by side: `MCProcessBoundary`, `MCCudaRuntime`, `MCSceneQueries`, `MCSceneInputs`

These put components that share no state into one run. `part` says which one a
behaviour is about and never changes; the others stay in an initial state. A
property of a component is stuttering-insensitive and about its variables only,
so it holds of the run exactly if it holds of the component alone.
`MCCudaWavefrontTransport` puts the device beside the CPU transport in the same way,
with the CPU's batch idle, so that one proof module can speak of both and of the
scalar loop they share.

## 4. Runs

| Run | Question | Bounds, and why they suffice |
|---|---|---|
| `queues` | Does each generation reach its reader once and unchanged, and do two buffers implement the channel? | capacity 2, three slots, batches to 2, two handles of which one holds storage. Two entries are the fewest a compaction can move or a sort exchange; the third slot tells a stale cell from a live one; a second full object shares no field with the first |
| `scheduler_pool` | Kernel lifetime, quiet outcomes, no generation missed, barrier | 2 workers, 2 callers, 3 lanes (uneven partition), 2 generations and the refusal at the maximum |
| `scheduler_inline` | Same barrier with one worker | 2 callers, two kinds of failure, 3 lanes |
| `scheduler_live` | Does every call return and every shutdown join? | 2 workers, 2 callers, 2 lanes |
| `scalar_loop` | Are the locals always representable, agreeing with the history, the named limit true, nothing counted twice? | two calls, one black from the start; three different limits, of which two can exhaust a depth; five kinds of surface |
| `transport` | Is no slot lost, is every path the scalar loop's, does every batch end? | 2 slots, `MaxDepth` 2, roulette from the first bounce. Two slots are in different stages, routes and lanes at once; a third adds only more of the same, as slots share nothing but the queues' capacity |
| `cuda_transport` | The same on a workspace a failed trace has used | 2 lanes, 2 traces of one or two paths of which the first starts black; a path may use up a diffuse and a specular event in either order, so two lanes can stop for different limits |
| `scene_queries` | Do the backends and samplers answer as the scene says? | four publications over five scenes; every geometry of up to four of five triangles, every arrangement of up to three instances, three rays; five lights, three strategies; three closures, every state of the limits |
| `process_boundary` | Whose node is removed, who is reached, what does a reply mean, do exchanges end, is a library called after it is gone? | 3 servers and 2 inode numbers, so that a number returns while its first holder is still finishing; 2 exchanges and 1 foreign peer over a backlog shorter than their number; 3 paths to 2 libraries |
| `cuda_runtime` | Is each resource released once, not in use, and does a trace read its own results? | 2 devices, 4 creations (a growth needs two, a timing pair two); 2 traces, so that each meets what the other left |
| `cuda_growth` | Does a rejected growth keep the storage it had? (no) | 2 devices, 2 creations |
| `scene_inputs` | Is what goes into a scene, and what a device loads of it, consistent? | 3 image paths with 3 writes (a file, its replacement and a link), a budget both sizes can fill; record families that each vary one part of a scene; every limit exact or one short; one edit anywhere in a document or a mesh; 3 texts in a file's life |

Deadlock is checked except where the program ends: `scalar_loop`, `transport` and
`cuda_transport`, whose calls all have returned then. The other models end in an
explicit step that stutters. Every property is accompanied by a slip of the code (the
`mutants` of `PROJECT.json`) under which its run finds it violated; the
operators commented as slips in the modules exist for that and are in no
next-state relation.

### Properties

- `queues`: `ViewFaithful` (a reader between the producer's steps sees a prefix of
  the published generation), `ChannelSpec` (refinement).
- `scheduler_*`: `FrameOutlivesWorkers` (no worker holds the kernel or an outcome
  of a call that returned), `NoGenerationMissed`, `StageBarrierSpec` (refinement),
  `DispatchReturns` and `ShutdownJoins` (liveness).
- `scalar_loop`: `LocalsConsistent` (the locals always make a valid path state and
  are the history counted), `LimitNamed`, `NothingCountedTwice`.
- `transport`: `BatchSound` (types, internal checks that never fire, each slot in
  one place, every sample accounted for), `ScalarSpec` (refinement), `BatchEnds`
  (liveness).
- `cuda_transport`: `OnlyOutsideFailures` (a trace fails for data or for a call,
  never for what an earlier one left), `ScalarTraces` (refinement).
- `scene_queries`: `SnapshotServed`, `RetainedCurrent` and `ContractSpec`
  (refinement) of Embree; `TraversalSound` (both kernels answer as a search of all
  triangles does, on trees that validate); `TechniquesAgree` (a light has one
  probability, whoever asks and on whichever side); `MixtureSound` (filter, samples
  and the two sides).
- `process_boundary`: `ServingIsReachable`, `StaleOnlyAfterFault`, `OwnNodeOnly`;
  `RepliesSound` (a stop is acted on after its reply, an accepted reply answers the
  request), `ExchangeEnds` (liveness); `ExtensionsSound` (calls land in mapped
  libraries, a context has one owner).
- `cuda_runtime`: `ReleasedOnce`, `SlicesBacked`, `ReadsItsOwnTrace`,
  `NothingReleasedInUse`, `QuietUnlessPoisoned`.
- `scene_inputs`: `OneSnapshotPerSource`, `ResidentBytes`;
  `AcceptsWhatHoldsTogether` (a scene for what is in order, and a true reason
  otherwise), `InstancesPlaced`; `DocumentsKept` (what was saved
  loads under the same limits, an edited document does not pass for it);
  `DeviceReadsScene`; `MeshSaysFile`.

### Disagreements

`cuda_growth` finds one. `DeviceMemory.hpp:164` says of a scratch buffer "Growth is
explicit and preserves the existing allocation if CUDA rejects the request."
`DeviceMemory.cpp:244` closes the old storage before it adopts the new one; when
only the switch back to the thread's device is rejected, the old storage is already
freed, `close` reports a failure, and `reserve` returns it with no storage at all.
Nothing leaks and the capacity is reported as what it is (`ReleasedOnce`,
`SlicesBacked`): the promise is what fails.

Two observations that no run states as a violation, because the words are open to
a reading that agrees. `LocalTransport.hpp:86` says `Run` runs "until a handler asks
to stop"; it also returns with the first error of any connection, so one client
that leaves in the middle of a frame ends the service of the others (modelled; it
is why `ExchangeEnds` promises an end and not an answer). And
`LocalTransportPosix.cpp:349` refuses an endpoint that "changed while it was being
configured"; a node replaced between `bind` and the first `lstat` is taken for the
server's own (`OwnNodeOnly` speaks of the servers that inspected their own node, `seen[s] = s`).

### Fairness

`CpuWavefrontScheduler!FairSpec` assumes that a thread which can take a step
eventually takes one, for each worker, for each caller inside a call and for the
owner once it has begun to shut down: the operating system runs runnable threads
and kernels return. Nobody is obliged to call, to wake a sleeper without a
notification or to destroy the pool, and the mutexes need no strong fairness
because a refused caller returns instead of waiting.
`CpuWavefrontTransport!FairSpec` assumes that the calling thread runs and that
each lane of an accepted stage runs, which is what `DispatchReturns` and the
barrier establish for the scheduler. `LocalIpcExchange!FairSpec` assumes that the
server thread and each exchange run when they can, and that a foreign peer
eventually leaves: a read has no deadline, so a peer that connects, sends nothing
and never leaves holds the only serving thread for ever, and without that last
assumption `ExchangeEnds` is false. Nobody is obliged to start a server. The other
components run in the caller's thread and are given no fairness.

## 5. Proofs

Each proof follows one pattern: the initial state satisfies an invariant, one step
per action preserves it, the property follows from it, and a last temporal step
combines the three. A refinement adds one step per action that maps it to a step of
the abstract module or to a stutter. What the invariants had to say, and why:

**`WavefrontQueuesProofs`**: `SpecTypeOK`, `SpecIInv`, `SpecWithinStorage`,
`SpecGenerationIntact`, `SpecViewFaithful`, `SpecChannel`. `IInv` adds to the types that
sizes stay within storage, that a compaction's output index never passes its input
index and works on the write buffer of a live object, and that a span covers exactly
the pending buffer. Without the last two, a compaction could be writing where the
span reads. The refinement of the channel needs `RefInv` besides: both buffers of an
object have the same storage, a read buffer that is not pending is empty (so that
publishing leaves an empty write buffer), and a running compaction has moved the k-th
lane it kept to cell k and has not touched the cells it has yet to read. When it
ends, what is left is the chosen entries in their order, which is the channel's step.

**`CpuWavefrontSchedulerProofs`**: `SpecTypeOK`, `SpecIInv`, `SpecFrameOutlivesWorkers`,
`SpecNoGenerationMissed`, `SpecLaneInv`, `SpecStageBarrier`. `OwnershipInv` ties the
dispatch mutex, the published kernel and the caller's place; `LifetimeInv` says that
nobody exits before shutdown; `BarrierInv` that during a dispatch each worker is at
work on this generation, has counted itself, or is exactly one generation behind, and
that `completed_workers` is the number that counted themselves. When it reaches the
number of workers all have, so nobody can still call the kernel. The refinement of
`StageBarrier` needs to know which lanes have run: `LaneInv` says of each worker's
partition that exactly the lanes below its place have, once each, and that its
outcome is the first failure among them. The partitions adjoin and cover the lanes
(`PartitionAdjoins`, `PartitionCovers`, integer arithmetic for every number of lanes and
workers), so the first failing partition names the lowest lane that failed.

**`SceneMisPathLoopProofs`**: `SpecTypeOK`, `SpecIInv`, `SpecRepresentable`,
`SpecHistoryAgrees`, `SpecLocalsConsistent`, `SpecLimitNamed`, `SpecNothingCountedTwice`.
The counters are the cardinalities of the events' positions by category, so appending
one accepted event keeps counters, flags and history in step (`OneMore`), an accepted
event keeps the state valid within the limits (`AcceptedKeepsState`), and the limits a
blocked surface names are used up (`BlockedAreUsedUp`). For the light, `LightInv` adds
that what a path has collected comes from the vertices up to the current one, and that
the emission and the light sample of the current vertex are still missing at the
places where the loop is about to add them.

**`WavefrontTransportProofs`**: `SpecIInv`, `SpecTypeOK`, `SpecBatchSound`,
`SpecScalar` of the CPU transport, `DeviceConsistent`, `DeviceOnlyOutsideFailures`,
`DeviceScalarTraces` of the CUDA transport. On the CPU, `found(k, q)` and
`left(k, q)` say what a runtime `q` is when the kernel of stage `k` finds it and when it leaves it; every kernel is shown
to lead from the one to the other. `StageInv` adds where the slots are: no two queues
share a slot, each slot is finished or in a queue, only the queues of `in_use` hold
any, and behind the barrier a slot is as its kernel left it. Entries are distinct, so
no queue is longer than the batch and none overflows; what a kernel left has a route,
so no slot is lost; the statistics follow by counting. For the refinement, the camera,
ray, hit and continuation stages and all routing are stutters of the slot's scalar
path, a miss is its escape, shading is one of `end_at_surface`, `bounce_unlit` and
`query_light`, and the shadow stage answers the query. Steps of one slot leave the
scalar paths of the others alone because a kernel writes only the runtime of its slot.
The theorems of the scalar loop then hold of each slot's path.

On the device, `DeviceInv` says what each reason to refuse work would contradict:
`Ready(k, q, n)` what a lane `q` in the queue of stage `k` is when `n` rays have been
dispatched, `Leaves` what a finished work item leaves; `PlaceInv` that a slot of the trace
is over or in one queue, once, so no append overflows; `WorkInv` that what was routed
is ready for its stage, so a compaction, which filters the work items by their route,
loses no lane. A path has bounced at every surface its rays have found, and each
bounce counts in a family, so the rays dispatched stay below the bound the host
derives from the limits. `CleanInv` is what makes one trace independent of the one
before: between traces nothing is known of a workspace that failed but that it is
dirty, and that is enough, because every step of the next trace until the camera stage
overwrites what it would read. Threads of a failed trace may still run while the
workspace is idle; they write lanes and outcomes only.

That each trace makes the steps of the scalar loop (`ScalarTraces`) needs to know who
wrote each lane, and also of a trace that has failed, whose threads go on. `DeviceInv`
says nothing of that, so `TracedInv` stands on its own: a lane the trace owns is what its
phase says (`Underway`: its bookkeeping agrees with its events, at a surface it has one,
and one that waits for its shadow ray has gone onward from the throughput it kept), and
a lane it does not own is, if it is of one of the trace's paths, in no phase that a
kernel after the camera's claims. So a kernel that meets a lane of an earlier trace
refuses it or works beyond the trace's paths, where no call is. A thread that claims a
lane makes the escape, the end, the light query or the bounce of that lane's call
(`ThreadFollows`), one that refuses it makes the call fail, the seed, camera, ray, hit
and continuation stages are stutters, and a new trace puts every call back at its start
because no lane has its number yet.

**`EmbreeAccelBackendProofs`**: `SpecIInv`, `SpecTypeOK`, `SpecSnapshotServed`,
`SpecRetainedCurrent`, `SpecContract`. `PublishedInv` says what is retained between updates
and, while the backend is queryable, during them. It is only inductive with
`CandidateInv` (one mesh per geometry met so far and one mapping per instance attached,
so the swap publishes the whole snapshot), `RefitInv` (instances before the next one
hold the new transforms, later ones the old, and in a rollback the ones before the
next hold the old again; nothing is known of the rest, which is why a rollback starts
at the first) and `UpdateInv`. A refit that changed nothing commits nothing, and is
right because equal transforms and equal geometries make equal instances. A failed
refit is invisible to the contract while it is rolling back, and only the end of a
failed rollback is the contract's `lose`.

The same module then proves `TraceConsistent`, `TraceTypeOK` and `TraceSound` of the
CUDA hierarchy: whatever the scene, the ray and the kernel, what `build_host_bvh` makes
passes its own validation, no stack overflows, none of the checks that end a query with
an error can fire, and a query ends with the answer of testing every triangle of every
visible instance. A miss of the ordering, of the culling or of a stack entry would show
in one scene among very many; here it is excluded for all of them.

For the builder, a tree `Hangs` in the node array: it is a preorder of `2k - 1` nodes in
which the `span` of a node is the size of its subtree, children lie where the spans say,
boxes nest, each item has one leaf and the leaves' references are a permutation. The
sort is a permutation because ranks in a strict order are distinct (`Ranked`); a call
of `build_node` splits its items into halves that differ by one at most, so a tree of
no more than 2^h leaves has at most h levels (`Shape`), whatever the coordinates, and
the trees of a scene lie one after the other in the shared arrays (`BuiltUpTo`). For
the validation, the subtrees on the stack of the search adjoin (`Adjoin`), so it pops
the nodes in the order of the array, each once.

For the traversal, `Going` says of a stack that the nodes visited plus the spans of its
entries are no more than the tree has, that entry j and the levels below it fit in the
stack (which is enough although both children may be pushed, the nearer last), and that
every item has its leaf below an entry or is done with. An item is done with when the
candidate kept `Answers` it: its hit, if the ray has one, comes no earlier in the order of
`candidate_precedes` than that candidate. A box that is missed may be dropped with
all it encloses because `traversal_t_max` is the parameter of that candidate and the
comparison is strict: a triangle inside that is met at all is met beyond it, and one
that ties is still visited (`MissedBox`). `TraceIInv` puts both stacks together: the
outer one is done with the instances whose triangles are all answered and with the one
being traversed, the inner one with the triangles that are. When an inner stack is
empty its instance is done with, and when the outer one is, every hit is answered.

**`LocalIpcProofs`**: `SpecIInv`, `SpecTypeOK`, `SpecServingIsReachable`,
`SpecStaleOnlyAfterFault`, `SpecOwnNodeOnly` of the endpoint, `ExchangeRepliesSound`,
`LifecycleExtensionsSound`. For the node, inode numbers return, so comparing them proves
nothing by itself: `DistinctInv` says that a server which inspected its own node and
still holds its listener finds no other node with the number it recorded, because a
number is taken as long as a socket is bound to it. `AloneInv` (nobody else touches the
path, so it names the node of whoever is between bind and unlink) gives reachability,
`OwnerInv` (nothing to excuse yet, so the maker of the node is there and will recognise it) gives the
absence of stale nodes. For the exchanges, `WireInv` says that what waits to be read
first is the frame the client wanted to send, and `HeaderInv` that the server works on
the frame of the client it is connected to. For the extensions, the invariant counts
the positions of each library in the Engine's list, plus one for the load in progress,
and gives each live context one owner. Growing the vector, asking every backend for its
devices and destroying the list are folds over it; each is shown equal to a closed form
(`FoldFollows`), which for the destruction says what is left after any set of positions.

**`CudaRuntimeProofs`**: `SpecStreamsInv`, `SpecReadsItsOwnTrace`,
`SpecNothingReleasedInUse`, `SpecQuietUnlessPoisoned` of the streams,
`ResourcesReleasedOnce`, `ResourcesSlicesBacked` of the owners. What a stream holds is the
end of a fixed list of operations of which so many have been given (`Given`), so `Done`
says how much of a trace has executed; `WaitInv` is the argument proper: every
synchronisation and every event wait gives a lower bound of one stream's progress in
terms of the other's, and `MemoryInv` what each buffer holds at that point. That an event
wait means what it should rests on `RecordInv`: a queued wait is for the last record of
its event, and records of one event have rising versions. `OpenInv` orders the releases.
Of the owners, no resource has two (`Distinct`), and each one that exists has one or was
refused by CUDA when its last owner went; a growth has two storages for a moment.

**`SceneInputsProofs`**: `SpecIInv`, `SpecOneSnapshotPerSource`, `SpecResidentBytes` of the
image cache, `CompilationCorrect`, `CompilationAccepts`, `CompilationPlaces` of the
compilation. What loads have returned is not enough to go by, since a later load reads
the maps and not the earlier results. `HeldInv` says that every image held and every
image returned shows the source held for its path; it is only inductive with `LoadInv`:
the load that holds the mutex either carries the source held for its path, or has
decoded one while none is held, which it inserts before anybody else can. A failure
between the two insertions leaves a source without an image, which both allow. For the
budget, a source that was decoded but not inserted fits beside what is resident. The sum
over a map does not depend on the order in which it is taken (`AnyFirst`), so inserting
one key adds its bytes.

For the compilation, the promise (`HoldsTogether`, `Lineage`) is said of the sets of
records the caller passed; the code works on sorted vectors, and finds a cycle, a
missing parent or a transform out of range where its climb happens to meet it. Two
things bridge that. The first is what each check of a sorted scene says of the input:
sorting rearranges (`SortsRecords`, ranks again), neighbours differ exactly if all do
(`Unrepeated`), the binary search finds what is there (`Finds`), and the merge of two
registries meets every identifier they share (`SharesIdentifier`); so each validation
is equivalent to its part of the promise (`DescriptionValid`, `FrameValid`,
`SpectralRecordsValid`). The second is the invariant of the loops, `Hierarchic`, of
three parts. `Descends`: a resolved instance has a resolved parent and the parent's
transform followed by its own, and no transform is longer than there are resolved
instances, so no lineage is longer than the scene (`ClimbsToWorld`) and an instance
with the shortest transform of a set has its parent outside (`RootedIfResolved`).
`Chained`: the chain lists what is being resolved, once each and each before its
parent, so a climb that meets what is being resolved has closed a cycle (`Cyclic`).
And the place of the loop: whose parent the climb is at, and that the parent of the
chain's last entry is resolved on the way back, which makes the code's internal error
unreachable. What a chain of checks answers is the first refusal of its list
(`FirstRefusal`), and a status is true of the input if each check's is (`Says`).
A transform the way back refuses is already the lineage of its instance,
so what is refused ought to be. An order of the records in which a subtree is resolved
before, after or between its ancestors needs no case of its own.

The theorems hold for every value of the constants under the modules' named
assumptions. They say that sizes are natural numbers, bounds and numbers of workers at
least one (`QueueAssumption`, `SchedulerAssumption`, `TransferStreamsAssumption`), null
values none of the proper ones (`CallAssumption`, `TransportAssumption`,
`EndpointAssumption`, `ExchangeAssumption`, `CudaHostResourcesAssumption`,
`LibraryAssumption`), limits representable (`DepthAssumption`, `LoopAssumption`,
`CudaTransportAssumption`), an
image's limit no larger than the whole budget (`HostImageCacheAssumption`), a
scene's instances a sequence of known geometries and transforms (`EmbreeAssumption`),
a compiled scene's records of the types the headers declare, with a null that is none of
them (`CompilationAssumption`; that identifiers are unique or references resolve is not
assumed), and, for the device hierarchy (`TraversalAssumption`), geometries that are not empty, no
more leaves than a stack of the capacity holds the path to (2^63, of which indices of 32
bits allow 2^32), and a ray that meets a triangle only inside the triangle's box.
TLC evaluates each on the runs' values. The theorems about the CUDA transport have one
hypothesis more, `LimitsCountable`: the limits of the four families add up to at most
2^32 - 1. The code accepts limits that add up to more, and its shade kernel, whose
depth filter asks the limits only, would then refuse the bounce that cannot be counted
where the CPU transport ends the path; it takes 2^32 - 1 bounces to get there. The
proof modules of components that run side
by side extend the `MC` module of their run or, as `EmbreeAccelBackendProofs` and
`SceneInputsProofs` do, the modules that one extends, so that they state the very properties the run checks; the theorems are about the component's own specification, and
`LocalIpcProofs` instantiates `ExtensionLifecycle` once more, with libraries and paths of
any kind.

Sequences, sums and folds need induction. The library's induction theorems take the
property as an operator, which the provers here cannot instantiate; but the
well-foundedness of the natural numbers can be cited, and yields the first-order forms
the modules use: a set of numbers has a least element, a set that holds 0 and each
successor is the whole range (`UpTo`), a family of sets that is closed under adding an
element holds every subset of a finite set (`SubsetInduction`). A recursive function is
first shown to exist, by such an induction or by giving its closed form, then to have
the property. `build_node`, which calls itself twice and places the second half where
the first one ended, is the longest: functions that answer all calls of at most n items
exist and agree, and together they are the function that CHOOSE picks.

Only model-checked:

- the liveness properties and everything under fairness, which the prover does not
  support;
- what documents, mesh files and device records say of a scene (`DocumentsKept`,
  `MeshSaysFile`, `DeviceReadsScene`): functions of their texts and records, checked over
  families of inputs;
- lights and closures (`TechniquesAgree`, `MixtureSound`). `LightSampler` and
  `SceneDescriptionJson` declare recursive operators, with which the prover cannot work;
  the other modules would need arithmetic of rationals.

## 6. Not modelled

- Floating point: shading, colour, texture filtering, mip chains, normal and bump
  maps, estimator values, rounding and representability errors. Their control
  reaches the models as nondeterministic outcomes or as exact small numbers.
- The Russian roulette decision (one pure function, whose outcome the path modules
  choose) and the random and low-discrepancy sequences.
- The loops with next-event estimation only or BSDF sampling only: ablations of the
  MIS loop.
- Film, tiles and image writers: sums and bytes, without interaction.
- The Windows pipe transport, which follows the steps of the POSIX one over another
  system interface.
- Characters: JSON escapes, UTF-8 and number formatting, the bytes of IPC frames,
  the layout of serialized device records.
- Headless application, Core, render session and capabilities, the reference
  plugin, the DCC bridge, tests and benchmarks: no state of their own.
- Traversal inside Embree, and CUDA itself, which are modelled by what the code
  relies on.
- Memory order: the scheduler's shared fields are accessed under a mutex or handed
  over through one, and a worker's outcome is read after the barrier. A kernel that
  calls back into its own single-worker scheduler, which the language leaves
  undefined, does not exist in the repository and is not an action.

`PROJECT.json` gives the reason for each component.
