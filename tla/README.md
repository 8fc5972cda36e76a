# shortcog in TLA+

Verification development for `shortcog`, a C++ library that reads tiles of
cloud-optimised GeoTIFFs without opening them: a file is indexed once into a
small header blob, and every later read needs the blob and the path only.
The modules here are translated from the sources under `src/core`; line numbers
in this file and in `PROJECT.json` are those of that tree.

## 1. The system

| component | source | state it keeps | operations |
|---|---|---|---|
| thread pool | `thread_pool.hpp` | `jobs_`, `stop_`, worker threads; per batch `pending_` | construct (first caller decides the size), `submit`, `enqueue`, `wait`, worker loop, destructor at `exit()` |
| executor | `plan.cpp` 143-169 | one flag `ok` per run | `Executor::run`, on the pool or inline |
| tile task | `plan.cpp` 17-138 | a scratch buffer and a ZSTD context per thread | `execute_task`: fetch, inflate, predictor, `copy_rect` |
| blob format | `shortcog.hpp` | none | tile grid, `tile_index`, encodings |
| blob parser | `parser.cpp` | the `Header` it fills | `parse_blob` |
| indexer | `builder.cpp` | loop counters, `counts`, `expected_offset` | `build_blob_from_file` |
| layout compiler | `pattern.cpp` | groups, current group, strides | `compile_layout` |
| stateless read | `read.cpp`, `capi.cpp` 270-407 | a plan | `shortcog_read`, `shortcog_read_stack`, `read_window`, `read_stack`, `build_plan` |
| predictor | `predictor.cpp` | a register, a carry | `apply_horizontal_predictor` |
| C interface | `capi.cpp`, `shortcog.h` | last error per thread, CPL handler stack, handles | every `shortcog_*` function |
| GDAL driver | `image.cpp` | an open dataset and its file, a staging buffer, the band's recursive mutex over GDAL's block cache | `register_driver`, `Open`, `IRasterIO` (direct or staged), `IReadBlock`, `GetLockedBlockRef`, `TryGetLockedBlockRef`, `FlushBlock` |
| Python binding | `bindings/python` | a `Spec` handle | `read`, `read_stack`, `index` |
| build, release, tests | `Makefile`, CMake, workflows | none at run time | |

How they interact.  `shortcog_index_file` runs the indexer; a catalog outside
the library keeps the blob; `shortcog_spec_parse` runs the parser on it.
`shortcog_read*` compiles the layout, checks the size of the caller's buffer,
and per image builds a plan of tile tasks and hands it to the executor, which
queues one job per task in the process-wide pool and waits for its batch.  A
job decodes its tile into the caller's buffer, directly or through the thread's
scratch, with no lock: the plan has to keep the tasks apart.  The GDAL driver is
a second way into the same plans: a window at its own size and type is planned
straight into GDAL's buffer, any other is planned into a staging buffer of whole
tiles that GDAL's in-memory dataset then resamples, and a block is one task
under the band's mutex.  Failures come
back as a flag, a status, and a message in a thread-local string that GDAL's
error callback may have written first.

What is hard here:

* **Threads.** Two mutexes, two condition variables, batches on the stack of
  their callers, several callers in one pool, `exit()` at any time.
* **Order.** The blob stores one offset and a list of lengths.  Builder, parser
  and reader must enumerate tiles alike, or samples come from another tile.
* **Ends of integers.** uint16, uint32, uint64, int, int64 and size_t arithmetic
  on fields of a blob and on what a caller passes.
* **Partial failure.** A tile, an image of a stack or an allocation fails in the
  middle; the outcome must be reported, once, to the right caller.
* **Reused memory.** Scratch buffers are never cleared.
* **Callbacks.** GDAL enters a block in its cache before it asks the driver to
  read it, and calls the driver's overrides from inside each other.

What each component has to guarantee is in section 3, next to the run that
checks it; the hazards, each at its line, are in `PROJECT.json`.

## 2. The modules

| module | models | extends |
|---|---|---|
| `ThreadPool` | pool and batch, one action per critical section | |
| `ParallelRun` | abstract: what `Executor::run` promises | |
| `Executor` | `Executor::run` on top of the pool | `ThreadPool`, instantiates `ParallelRun` |
| `ExecutorFaults` | the same, with allocations of `submit` that fail | `Executor` |
| `BlobFormat` | integer widths, tile grid, tile index, encodings | |
| `PrefixSums` | running sums, which the properties of three modules share | |
| `Parser` | `parse_blob` | `BlobFormat`, `PrefixSums` |
| `Builder` | `build_blob_from_file` | `BlobFormat` |
| `Indexing` | file to blob to header | `Builder`, `Parser` |
| `Layout` | `compile_layout` | |
| `TilePlan` | `build_plan` and `execute_task`: from a window to the bytes written | `BlobFormat` |
| `Read` | a stateless read, from the request to its plans | `TilePlan` |
| `Driver` | the GDAL driver: registration, `Open`, `IRasterIO`, `IReadBlock` | `TilePlan` |
| `FrontEnds` | both ways into a plan, in one process | `Read`, `Driver` |
| `BlockCache` | the band's overrides around GDAL's block cache | |
| `Predictor` | `apply_horizontal_predictor` | `PrefixSums` |
| `Algorithms` | the two algorithms that run alone, side by side | `Layout`, `Predictor` |
| `CApi` | `capi_call`, last errors, handlers, handles | |
| `ArithmeticProofs` | lemmas: rounding, wrapping, mixed radixes, induction, sums, orders of the axes | `PrefixSums` |
| `ExecutorProofs` | theorems about the pool and the executor | `Executor` |
| `IndexingProofs` | theorems about the parser, the builder and both together | `Indexing`, `ArithmeticProofs` |
| `PredictorProofs` | theorems about the predictor | `Predictor`, `ArithmeticProofs` |
| `CApiProofs` | theorems about the C interface and about the layout compiler | `CApi`, `Layout`, `ArithmeticProofs` |
| `FrontEndsProofs` | theorems about plans, open files and staging windows | `FrontEnds`, `ArithmeticProofs` |
| `ReadProofs` | theorems about what a plan and a stateless read write | `FrontEndsProofs` |
| `DriverProofs` | theorems about what the driver and its block cache give | `ReadProofs`, `BlockCache` |
| `MC*` | instances for TLC | |

State and actions.

* **ThreadPool.** `life`, `jobs`, `wpc`, `wjob` are the pool and its workers;
  `cpc`, `count`, `next`, `pending`, `bmutex` are, per caller, its loop and its
  batch.  A batch lives on its caller's stack, so it is named by its caller and
  exists while `cpc[c] # "idle"`.  A critical section of the pool mutex is one
  action.  The batch mutex is a variable, because a worker holds it across
  `--pending_`, `notify_all` and the unlock, and the waiter may see zero and try
  to leave in between.  Sleeping is a control state; `notify_one` picks any
  sleeper; both condition variables may wake for no reason.
* **Executor.** Adds the flag, the destination of each tile ("blank",
  "writing", "good", "bad") and the result.  A job body is two steps (start,
  end), so tiles overlap.  The load of `ok` in `plan.cpp:155` is relaxed: a job
  may start although the flag is cleared.  It may skip its tile only when it is.
* **Parser.** The field checks are one step that yields the first error due, in
  the order of the code; the prefix sum is one step per tile, with its two early
  returns as actions.
* **Builder.** The profile is one step; `collect_tile_byte_counts` is one step
  per tile, in the nested order of its loops.  `Overrun` is the write past a table
  that a wrapped product sized; nothing is said of what follows it.  GDAL is what it
  answers of a file.
* **Indexing.** Runs the builder, hands its blob to the parser; also parses
  blobs of any other origin.
* **Layout.** One action per kind of character (any axis letter, parentheses,
  anything else), the end of the scan, then one step per stride.
* **TilePlan.** `PlanTile` is one turn of `build_plan`'s loops, `PlanOverrun` the one
  that reads past the tables of a header whose tile count has wrapped (`Entries`),
  `Fetch`/`Inflate`/`Deliver` the parts of `execute_task`, by any number of
  workers.  The buffer is a function from byte offsets to what sample lies there,
  by tile, position and whether it went through the predictor.
* **Read.** `ReadBegin` is the request (layout, `checked_read_size`, stack
  checks), `Open` is `validate_request` and the start of a plan, `RunEnd` the next
  image or the end.
* **Driver.** `ds` is how far `Image::Open` got, one action per acquisition, with
  every way it may end; `files` counts open handles.  `RasterIO` refuses, plans
  into the caller's buffer (`ReadFast`) or into the staging window
  (`ReadStaging`), which `Resample`, the external in-memory dataset, picks from.
  `ReadBlock` plans one task, or reads past the tables (`ReadBlockOverrun`).  What
  leaves the driver as an exception is answered "thrown": everything that
  `image.cpp:72` does not catch.  Which workers decode is left to `TilePlan`.
* **FrontEnds.** One call at a time, of either kind, the stateless ones while no
  dataset is open: the two have no state in common but the thread pool, whose
  sharing is the subject of `ThreadPool` and `Executor`.
* **BlockCache.** One action per entry, GDAL step and exit of the three
  overrides; `owner` and `depth` are the recursive mutex, `cache` is external.
* **Predictor.** One action per block load, shift-and-add, store, and scalar
  sample.
* **Algorithms.** A pattern is compiled or a tile is decoded, in any order; the two
  share no state.
* **CApi.** Threads enter and leave functions; GDAL errors are raised on the
  calling thread or on a thread of the pool.

A definition whose comment begins with `slip:` is no part of a specification:
it is a plausible mistake in the definition that follows it, kept so that each
property can be shown to notice one.  `PROJECT.json` ("mutants") pairs them.

## 3. The runs

| run | property | what it says of the code |
|---|---|---|
| `pool` | `NoUseAfterReturn` | after `wait()` no queued job and no worker, not even one about to unlock, refers to the batch |
| | `WaitIsBarrier` | `wait()` returns only after every body has completed |
| | `JobTakenOnce` | no tile is decoded twice at a time |
| | `EveryJobHasAWaker` | `notify_one` after the unlock loses no wake-up |
| | `BlockedIsPending` | nobody sleeps on `done_` after the last decrement |
| | `ShutdownDrains` | no worker leaves while a job is queued |
| | `EveryBatchReturns` | every `wait()` returns, also across `exit()` |
| | `PoolComesDown` | the destructor terminates |
| `executor` | `SuccessMeansComplete` | "ok" means every tile was decoded, although jobs may skip |
| | `FailureIsOwn` | "failed" means a tile of this run failed |
| | `RunSpec` | the run implements `ParallelRun` |
| | `ExInv` | the inductive invariant of the proofs |
| `indexing` | `ExtentsDisjoint` | the tiles of an accepted header lie apart and end in uint64 |
| | `VerdictIsExact` | accepted are exactly the well-formed blobs of the library's own format, `BlobHeader` (while the tile count fits uint64) |
| | `GridIndexable` | `tile_index` is injective and inside the tables |
| | `BuiltFromOneRun` | a blob is only built of a file that is one run in tile order |
| | `RoundTrip` | parsing what was built gives back the place and size of every tile |
| | `IXInv` | the inductive invariant of the proofs, builder and parser together |
| `algorithms` | `AxesOnce` | no axis is lost or taken twice, whatever the parentheses did |
| | `LayoutDense` | the strides map the box one-to-one onto 0..total-1 |
| | `ShapeAgrees` | they are the strides of an array of the promised shape |
| | `NativeIsCanonical` | "native" needs no copy |
| | `OverflowIsReal` | a refusal for size is never spurious |
| | `TileDecoded` | SIMD, carry and rest give the running sums |
| | `PRInv` | the loop invariant of the shift-and-add scan, inductive over the whole tile |
| `read` | `WritesInside` | every byte written is in the caller's buffer |
| | `TasksDisjoint` | tasks share no byte of it |
| | `ReadComplete` | success means every requested sample, decoded, in its place, and nothing else |
| | `PlanTypeOK` | no task reads outside the tile buffer or the tables; planning leaves the tables only where uint64 cannot count the tiles |
| | `DRTypeOK` | however `Open` ended, a file is open while something owns it, and no longer |
| | `StagingCovers` | the staging window has every sample asked for and stays inside the image |
| | `DriverWritesInside` | every byte written is in GDAL's buffer, the staging buffer (as large as its wrapped size says) or the block |
| | `DriverReadExact` | direct or staged, each position gets the sample it would get from the whole image |
| | `BlockIsTile` | a block is the decoded tile of its place |
| `block_cache` | `RefIsDecoded` | a block handed out has been decoded and stays |
| | `FreshIsBeingRead` | an unread block is in the cache only while the owner of the mutex reads it |
| | `EveryGetReturns` | the overrides, which call each other, do not lock themselves out |
| `capi` | `MessageIsOwn` | a thread's last error is about its own last call |
| | `HandlesDelivered` | out-pointers are set by success only; nothing leaks |
| | `CAInv` | handlers are popped on every way out; the inductive invariant |

Five more runs end in a violation, on purpose; section 5.

Bounds, and why they are enough.

* `pool`: two workers, two callers, batches of two jobs, no symmetry, since
  liveness is checked on the same graph.  One worker can sleep while the other
  runs, a batch can be part run and part queued, a second caller gives foreign
  jobs in the queue.  Every safety property of this run is also proved, for any
  number of each.
* `executor`: two callers, two workers, up to two tiles (0 and 1 run inline).
* `indexing`: integers of 4, 5 and 10 bits keep the inequalities between the real
  widths (`WidthAssumption`) and let TLC reach every end: payloads that end
  exactly at the last uint64 and one past it, 31 and 32 tiles, a tile product
  past uint64.  Grids have up to four tiles in every shape.  Three files have
  more tiles than the scaled uint64 counts: 1040, so that the table has 16 entries,
  of which the files place 3, 16 or 17.
* `algorithms`: boxes of up to 2x3x3x3, int64 ends at 24, so that some boxes fill it
  exactly.  Patterns are unbounded in the code; a pattern is over when an axis
  repeats or four were read, so all of them are covered.  Two-bit samples, four
  lanes (two shifts, as many as it takes for the distance to double), rows with no,
  one and two registers and every rest.
* `read`: an image of two by two tiles cut at both edges, every window of four
  alignments per axis, repeated and reordered bands, five orders, stacks of two
  with repeated and refused images; two workers.  The driver's requests: windows
  at both tile edges into buffers that are equal, smaller and larger, three kinds
  of spacing, one that makes a task write directly, converted types, floating
  windows that begin between two samples, six that are refused; every block.  One
  image has 13 by 15 tiles of one sample each, in an uint64 of six bits: its tables
  have three entries, and reads of either kind leave them.
* `read_edge`: an int that ends where the image does.
* `staging_wrap`: two bands of 32 bytes in a size_t of six bits.
* `block_cache`: three threads, two blocks: one reads, one finds the block there,
  one flushes or evicts.
* `capi`: two threads of two calls, one worker.

Fairness.  `TPFairSpec`: weak fairness of each started thread,
of job bodies, and of `exit()` once begun.  Threads are preemptive and no lock
is held for ever, so a step that stays possible is taken; a body is a read and
a decode, which return.  Nothing is assumed of spurious wake-ups, of new
batches, or of `exit()` ever being called.  `BCSpec`: weak fairness of a thread
inside an override, which holds the mutex; nothing makes a thread enter one.

Deadlock is checked in every run but those of `CApi`, where a thread that made
its `MaxCalls` calls stops.

## 4. The proofs

`tlapm` proves every safety invariant that a passing run checks, and the
refinement, for any number of workers, callers and jobs, integers, images,
windows and buffers of every size, and any set of files, blobs, calls and
requests.  Where a theorem has a hypothesis of its own, it is named below.

* **Pool and executor** (`ExecutorProofs`).  `TPInvariant` and, from it, type
  correctness, `NoUseAfterReturn`, `WaitIsBarrier`, `JobTakenOnce`,
  `ShutdownDrains`, `BlockedIsPending`, `EveryJobHasAWaker`.  None of these is
  inductive.  `TPInv` adds what makes them so: `PendingInv`, that `pending_` is
  the number of counted jobs whose decrement is outstanding; `JobInv`, that a
  pushed job not yet run is queued or held; `MutexInv`, that a worker between
  decrement and unlock owns the mutex, which is why a waiter that sees zero
  cannot leave before the unlock; and the bookkeeping of loop, queue and workers.
  The central lemmas are `AllHaveRun` (nothing pending: everything has run) and
  `DecrementStep` (the set of unfinished jobs loses exactly one).  On top,
  `ExInvariant`, `ExSuccessMeansComplete`, `ExFailureIsOwn` and
  `ExRefinesParallelRun`: `PoolBelow` shows that every step is a step of the pool,
  so `TPInv` is kept; `ExInv` ties tiles to jobs (`PooledInv`) and the flag to the
  tiles (`FlagInv`); in the refinement the pool's own steps stutter and `Return`
  needs the barrier.  Assumptions: `PoolAssumption`, `NoJobAssumption`,
  `FiniteThreads`.
* **Parser and indexer** (`IndexingProofs`).  `PSInvariant`, type correctness
  (the tables are exactly as long as the grid), `PSExtentsDisjoint`,
  `PSGridIndexable`, `PSVerdictIsExact`.  `PSInv` says that the running offset is
  the end of the previous tile (`PrefixInv`), in what order the earlier tiles lie
  (`OrderInv`), that their offsets are the prefix sums (`SumInv`), and that a
  refused blob is not well-formed (`WellFormed`: the format of `BlobHeader` in closed
  formulas).  The tile index is read as a number
  in the mixed radix of rows, columns and samples, which the check of the tile
  count keeps inside uint32.  `IXInv` adds the walk of the builder: while a file
  is walked, the tiles seen so far are one run that begins at the payload, and
  when its blob is parsed the offsets summed so far are those of the file
  (`SameOffsets`).  From it `IXBuiltFromOneRun` and `IXRoundTrip`, and
  `IXOverrunIsWrap`: the walk leaves its table only for a file whose tiles uint64
  cannot count.  Exempt from
  `VerdictIsExact` and `GridIndexable`, in the properties themselves, are blobs
  whose tile count is past uint64 (section 5).  Assumptions: `WidthAssumption`,
  `BlobAssumption`, `FileAssumption`.
* **Layout** (`CApiProofs`).  `LOInvariant`, and from it all five properties of the
  run.  `LOInv` holds the strides in difference form (`DealtInv`): each axis that
  has its stride has that of the next axis times the next one's extent.  So
  `AxesOnce` makes `Flat` one of the orders of three or four axes, an offset
  becomes a mixed-radix number over it, which fills `0..total-1`, and the
  product so far is a lower bound of the total where int64 is exceeded.
  `ShapeAgrees` is an induction over the groups: the row-major position in the
  grouped shape and in its axes one by one are the same Horner sum.
  Assumption: `LayoutAssumption`.
* **Predictor** (`PredictorProofs`).  `PRInvariant`, `PRTileDecoded`.  `ScanInv`, its
  core, says that lane `l` of the register holds the sum of the `shift` lanes that
  end at `l`, as the difference of two prefix sums modulo the sample width; a
  shift-and-add joins two such differences, whether or not the number of lanes is
  a power of two.  Assumption: `PredictorAssumption` (the accumulator is a
  multiple of the sample's width; the rows of a tile are equally long).
* **C interface** (`CApiProofs`).  `CAInvariant`, the handler stacks
  (`CATypeCorrect`), `MessageIsOwn`, `HandlesDelivered`.  `CAInv` adds that a call
  in progress has given out nothing (`CallInv`) and that no handle is of a call to
  come (`NoneToCome`), without which a new call could find its handle alive.
  Assumption: `CApiAssumption`.
* **Plans** (`FrontEndsProofs`).  `FEPlanInside` (`PlanTypeOK`), `FEFileOwned`
  (`DRTypeOK`), `FEStagingCovers`.  `PlanInv` adds to `PlanTypeOK` that the job
  being planned is a window of its image (`JobOk`) and that the planner is at one
  of its tiles (`Planning`); `TileInGrid` puts the tile in the grid, `IndexBelow`
  its index in the tables unless the count of tiles has wrapped (`PlanTypeOK` counts
  the entries as the parser does, and says that a plan leaves them for no other
  header), and `ClipInTile` the clipped rectangle in the tile,
  whichever way an overflowing edge came out (`IntSum`).  `CallInv` and `StagedInv`
  say that the checks of a call or a request still hold when its plan is built,
  possibly images later.  `AllInv` joins these.
* **Stateless reads** (`ReadProofs`).  `FEWritesInside`, and `FEReadComplete`.
  - `GeoInv`, while a plan is built: every task is the part of the window in one
    tile and one band and goes to the places of that part (`Labeled`); if no two
    positions have one place (`Apart`) no two tasks share a byte (`Separate`); and
    every position of a tile already passed is in a task (`Covering`).
  - `DelInv`, while it runs, by any number of workers: no two hold one task, a
    worker that has inflated its tile holds that tile's samples, and, unless a
    task failed, every task taken and let go has been delivered.
  - The place of an element is its mixed-radix rank in the order of the pattern;
    `SpotCounts` shows it to be the number of elements before it, which is what
    `ReadComplete` says of it, by a bijection of the earlier elements onto the
    numbers below.  It also shows that positions are `Apart`.
  - `ReadInv` is `AllInv`, `GeoInv` and `DelInv` in `Working`, what all images of a stack
    before the current one have brought in `Filling`, and what nobody touches
    between calls in `Resting`.

  `FEReadComplete` has the hypothesis `EdgesFit`, that the edges of the tiles of
  the image fit in int; the run `read_edge` shows what happens where they do not.
  `FEWritesInside` has none.  Assumption: `ReadAssumption`.
* **Driver** (`DriverProofs`).  `FEDriverWritesInside`, `FEDriverReadExact`,
  `FEBlockIsTile`, and `FEWorkersApart` (`TasksDisjoint`, for every kind of plan).
  `DriverInv` is `ReadInv` and what each stop of the driver owes: the request is
  one that was accepted (`Asked`); the plan under way is that of its window, or
  the task of a block (`Fetching`, `Blocking`), so that `GeoInv` and `DelInv` apply;
  the staging buffer has what the plan brought (`Staged`); an answer is the
  answer the whole image gives (`Answered`), a block its tile (`Given`).  The
  staging buffer is packed, its places a mixed radix; a resampled position is in
  it because moving a window by whole pixels moves the nearest sample with it
  (`QuotientShift`, `NearestMoves`).  Hypotheses, each where it is needed only:
  `EdgesFit`; for a direct read, that the caller's spacing gives each position
  its own place (`Distinct`; section 6); for a staged one, that size_t can
  count the bytes of its window (`RoomCounts`; section 5, `staging_wrap`) and that a floating
  window lies in the window it was made from (`FloatInside`).  `FEDriverWritesInside`
  assumes none of them: it says that a write outside is that of a staged read
  without `RoomCounts`.  `FEBlockIsTile` has none.  Assumption: `DriverAssumption`.
* **Block cache** (`DriverProofs`).  `BCInvariant`, `BCRefIsDecoded`,
  `BCFreshIsBeingRead`.  `MutexInv` says that a thread inside is the owner and how
  deep it is at each place, so that an unlock releases the mutex exactly at the
  way out; `OwnBlockInv` says what the block of the thread inside is at each
  place.  Assumption: `BlockAssumption`.

Induction over data.  Sums, products, positions and the flattening of a pattern
are recursive functions or folds.  The library's induction rules take an operator
as a parameter, which the provers here cannot instantiate.  `ArithmeticProofs`
states induction for a set of naturals instead (`SetInduction`, `InductionUpTo`), from
which it shows that a function defined along `0..n` exists and satisfies its
equations (`RecursionExists`, `SumInOrder`, `ProductInOrder`); a claim about all
lengths is then membership in a set.  For the same reason the model writes these
as recursive functions and never as `RECURSIVE` operators.

Two assumptions on constants hold for the real values and are used throughout:
in `WidthAssumption`, that a tile's side (uint16) fits in int and that an int
plus a tile fits in uint32.

Checked by TLC only: liveness (`EveryBatchReturns`, `PoolComesDown`,
`EveryGetReturns`), which needs fairness and ENABLED; and the five claims that
section 5 refutes.

## 5. Findings

* `executor_throws`: `submit()` allocates.  If that throws after a first job was
  queued, `Executor::run` unwinds the batch, the flag and the plan while the
  job is under way; `Batch` has no destructor that waits, and `capi_call`
  reports the exception as an ordinary error.
* `parser_product`: the tile count is compared with its limit after it was
  formed in uint64, so a product past uint64 is accepted with the rest that
  wrapping leaves.  This is the exemption in `VerdictIsExact` and `GridIndexable`.
  Two accesses out of bounds follow from it: `build_plan` (`read.cpp:127`) and
  `IReadBlock` (`image.cpp:166`) index the tables by tile, and the builder, which forms
  the same product, writes past its own (`builder.cpp:150`) if GDAL opens such a file.
  The runs `read` and `indexing` reach all three; their properties say that
  nothing else leads there.
* `read_edge`: `tile_px + tw` in `build_plan` is int.  For the last tile of an
  image within one tile of the largest int the sum overflows; where the build
  wraps, the tile is left out and the read reports success.
* `staging_wrap`: the bytes of a staging buffer (`image.cpp:66-71`) are a product in
  size_t that nothing checks.  Past size_t the buffer is too small and the plan
  writes beyond it.  With 64 bits this takes a window near 2^62 samples times its
  bands, whose plan needs gigabytes of tasks first; with 32 bits a few gigabytes.
  Below that but past the vector's `max_size`, `resize` throws `length_error`, which
  `image.cpp:72` does not catch.
* `capi_routing`: CPL errors raised on a thread of the pool do not reach the
  caller's last error, against the comment at the top of `capi.cpp`.

Beside these, `SPEC.md` describes another format than the code has, and the models
follow the code.  `SPEC.md` is about "rumi": magic "RUMI" (line 128), a header of 30 bytes with
no predictor (96, 111-124), `Predictor` fixed at 1 (52, 84), OpenZL frames (51, 56), and no limit on
the raster size (136).  The code has "<3<3" (`shortcog.hpp:23`), 31 bytes with a
predictor byte of 1 or 2 (`builder.cpp:259`, `parser.cpp:99`), ZSTD frames, and the limit of
the largest int (`parser.cpp:119`).  A blob that either accepts, the other refuses.  What the two
agree on is the grid, the number of entries and the contiguous run of tiles, and
these are the only lines of `SPEC.md` that the modules quote.

## 6. What the models assume

* `exit()` is not called while a thread is between two submits (guard of
  `Shutdown`): such a thread would use a destroyed pool, which the code does not
  prevent.  All workers start in one step: the pool is handed out complete.
* Threads that cannot be spawned end the process; `fork` is outside the model.
* `FetchFails` in `Read` also stands for a task that is skipped, or not reached
  inline, after another one failed: all leave the destination untouched.
* Signed overflow yields the wide or the wrapped sum (`IntSum`).
* Tiles of a real file end below the last uint64 (`FileShape`).  GDAL's answers,
  the file system and ZSTD are external; a frame may decode to the whole tile, to
  less, or fail.
* Between two calls nothing is assumed of a scratch buffer (`Stale`).
* `parse_blob` running out of memory is in `CApi` (`Throw`), not in `Parser`.
* `GDALRegister_SHORTCOG` runs outside `capi_call` and belongs to the driver.  It
  is called by one thread: what a second registration of the name does is up to
  GDAL's driver manager.
* GDAL resamples by nearest neighbour, and asks for blocks of the grid only.  Its
  in-memory dataset, its block cache and its driver manager are external.
* Spacings under which two positions of a caller's buffer overlap are not
  requested.
* After an access outside a table nothing is said of the process (`AfterOverrun`,
  `AfterPlanOverrun`).  A write outside a buffer is kept as one more place of it.
* The band stride of a staging buffer is a GSpacing, signed; one past int64 is kept
  as it is.  An exception that leaves the driver is an answer ("thrown"); what it does
  to GDAL's C frames is not modelled.
* GDAL asks for a block in order to read it: `just_initialize`, with which an unread
  block would stay in the cache and be handed out, is for writers, and the
  driver is read-only.
* The predictor is given samples, not addresses: the alignment it asserts
  (`predictor.cpp:217-220`) is left to its callers.  A direct read decodes into the
  memory a caller supplied, which nothing in the driver checks for it.
* A call of the C interface that passes no bands asks for all of them; requests have
  the bands that this resolves to.
* A thread holds at most one lock on a block at a time.
* In `CApi` a call raises at most one CPL error and out-pointers start null.
* Messages are known by thread, call and origin, not by their text.

Not modelled.  The Python binding: it resolves a selection and calls the C
interface; what of it has state, the lifetime of a handle against concurrent
reads, is kept by CPython, whose reference counts free a handle when the last
reference goes, and a call in progress holds one.  Wording of errors, the build,
packaging and fixtures, vendored and generated code.

## 7. What could be added

1. **Abstract specifications**: a stateless read as an atomic copy of samples, a
   driver read likewise, and the detailed plans shown to implement them; the
   invariants of `ReadProofs` and `DriverProofs` say at each step what has been
   copied so far, which is the refinement mapping.
2. **Composition**: `Read` takes the strides of a layout as the closed products
   `Stride`; a theorem that they are those `Layout` ends with would join the two.
   Likewise two plans under way at once over the pool, with the samples of both.
3. **Hypotheses**: GDAL's promises about a floating window (`FloatInside`), and
   that the caller's spacing keeps positions apart (`Distinct`), are hypotheses of
   the driver's theorems; they could be conditions of `DriverAssumption`, with a
   run of a request that does not meet them.
