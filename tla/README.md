# TLA+ models of RPP

RPP (Radeon Performance Primitives) is a C++ library of image operations for
computer vision with a host back end (OpenMP) and two GPU back ends (OpenCL,
called OCL here, and HIP). An application makes a *handle* on a command queue or
stream, calls entry points such as `rppi_brightness_u8_pln1_batchPD_gpu` on it
with batches of images, and destroys it. What the pixels become is arithmetic;
what makes the library hard is everything between the call and the kernel: how
the arguments of a call reach the device while the host thread has already
returned, whether each of some seven thousand hand-written entry points passes
on what it is given, how kernels and programs are cached, how processes share the
binaries on disk, how queues and memory outlive or do not outlive a handle, and
where in a buffer the images of a batch lie. That is what the modules here
specify.

Paths below are relative to `src/` of the repository (`src/modules` is the
library's own code).

## 1. Inventory

| Component | State it keeps | Operations | Hard because |
|---|---|---|---|
| Entry points (`src/modules/rppi_*.cpp`, declared in `include/rppi*.h`) | none of their own; the arrays of the handle between one helper and the next | for each operation, type, format and batch form one function for the GPU and one for the host | nothing checks that a function stages what its kernel reads, passes on what it is given, or that the kernel exists for a back end |
| Kernel wrappers (`cl/cl_*.cpp`, `hip/hip_*.cpp`) | none | grid, `AddKernel`, launch | two back ends written apart from each other; some wrappers are empty |
| Argument staging (`rppi_validate.hpp`) | per handle and kind of argument a host array (`mem.mcpu`, `mem.mgpu.c...`) and a device array (`mem.mgpu...`), one element per image | `copy_*`, `get_*BatchIndex` in a fixed order per entry point, then a kernel launch | the copies are asynchronous (OCL) or wait for other streams (HIP), host arrays are reused by the next call, errors are ignored |
| Command queue / stream (the OpenCL and HIP run-time) | commands in order, device memory | copy, run a kernel | external; executes at any time |
| Kernel cache (`kernel_cache.cpp`) | `program_map`, `kernel_map` of the handle | `AddKernel`, `GetKernels`, `HasKernels`, `ClearKernels` | normalised keys, growth by index, exceptions half way |
| Program store (`binary_cache.cpp`, `clhelper.cpp`, `Handle::LoadProgram`) | a directory of binaries shared by processes | `LoadBinary`, `LoadProgram`, `SaveProgramBinary`, `SaveBinary` | concurrent builders, crashes, short writes; nothing is locked |
| Handle lifecycle (`handleocl.cpp`, `handlehip.cpp`, `handle_api.cpp`) | the handle, its arrays, batch size, stream | create (four constructors), set stream / batch size / allocator, two kinds of destruction | arrays are sized once, batch size can change; destruction with commands pending |
| Handle lock (`handle_lock.hpp`) | a mutex and a lock file | lock with a time-out | compiled only with `RPP_GPU_SYNC`; time-outs leave one of two locks behind |
| Batch layout (`get_*BatchIndex`, `copy_roi`, `max_size`, index arithmetic of the kernels) | offsets, increments, regions, grid | computed anew for each call | four places must agree on what an image takes up; one grid for images of different sizes; inclusive and exclusive ends; 32-bit products; output sizes confused with input sizes |
| Host back end (`cpu/*.hpp`) | none but a global random state | one function per operation | OpenMP loops share the random state |
| GPU kernels (`cl/kernel`, `hip/kernel`) | none | pixel arithmetic, some reductions | barriers and atomics in the reductions |
| Logger, md5, error codes, temporary directories | none to speak of | | |
| Test and performance programs (`utilities/`) | | | show how the queue is drained, or not |

How they interact: an entry point runs on the application's thread. It stages
its arguments in arrays of the handle, computes the launch grid from the host
arrays, asks the handle's kernel cache for the kernel, and enqueues it; the
kernel cache asks `Handle::LoadProgram` for a program that it does not hold; that
looks in the cache directory or builds the program and saves the binary. The
device works through the queue meanwhile. Threads share nothing if each has its
own handle (as `include/rpp.h:167` asks for profiling), except the
device's null stream in HIP and the cache directory.

What makes each component correct:

* **Staging**: a kernel computes with the arguments of the call that launched
  it; a host array is not touched while a write from it is pending; calls
  appear atomic and in order; no call waits for ever.
* **Kernel cache**: a caller gets a kernel of the program it named with the
  parameters it gave; a program is loaded once and kept; the kernel map is a
  table by key and index; queries never throw.
* **Program store**: a request is answered by the program asked for or an
  exception that is to be expected; nobody sees half a file; nobody waits.
* **Batch layout**: every image is written completely, where the application
  looks for it, and nothing else is written.
* **Entry points**: a kernel gets every argument of its call and nothing of another
  call, for the images and planes the call is about; success means that it ran.
* **Handle lifecycle**: a queue lives as long as a handle or the application has it;
  memory is not freed under a command that reads it, and is freed in the end.
* **Handle lock**: at most one thread of one process holds it; whoever calls gets
  past it.

## 2. Modules

| Module | What it is |
|---|---|
| `CallIsolation` | abstract: what an application expects of the calls of a handle |
| `ParamStaging` | the life of a call's arguments, both GPU back ends, and the device |
| `RppiCalls` | the staging sequences of six entry points, as data for `ParamStaging` |
| `ParamStagingInv` | the inductive invariants for OCL, for HIP, and for both without waiting; guards and ranks of the steps |
| `ParamStagingMC` | instances for TLC |
| `ParamStagingProofs` | type correctness, the three inductive invariants, own arguments and no stale ones, and that nobody gets stuck, for all constants |
| `ParamStagingRefinement` | that `ParamStaging` implements `CallIsolation`, and that arrays are not reused, for all constants |
| `EntryPointShapes` | what entry points have in common: batch forms, helpers, kernels, and the records that describe a function |
| `OclWrappers`, `HipWrappers` | which arrays the wrappers of each back end read, and what they ignore or leave out |
| `ImageAugmentations`, `EffectAugmentations`, `AdvancedAugmentations`, `GeometryTransforms`, `WarpTransforms`, `ArithmeticOperations`, `AccumulateOperations`, `LogicalOperations`, `ColorModelConversions`, `FilterOperations`, `MorphologicalTransforms`, `ComputerVision`, `StatisticalOperations`, `FusedFunctions` | the functions of the `rppi_*.cpp` files, one definition for each group of functions of an operation with one body |
| `RppiLibrary` | all of them together: 7184 entry points of 87 operations |
| `EntryPoints` | calls one after the other on a handle, for any table of entry points |
| `EntryPointProperties`, `EntryPointsMC` | what the functions of this library promise and which do not keep it; the instance, and that `RppiCalls` says the same as the table |
| `EntryPointsProofs` | type correctness and own arguments, for any table; the promises of `EntryPointProperties`, from assumptions on the table |
| `HandleLifecycle`, `HandleLifecycleMC`, `HandleLifecycleProofs` | handles, queues and memory of the OpenCL back end |
| `HandleLock`, `HandleLockMC`, `HandleLockProofs` | `handle_lock.hpp`: threads of several processes, time-outs and crashes |
| `KernelRegistry` | abstract: a table from key and index to kernel |
| `KernelCache`, `KernelCacheMC` | `kernel_cache.cpp` and its instance |
| `KernelCacheProofs` | its invariants, for all requests, sources and keys |
| `ProgramService` | abstract: a request is answered or throws |
| `BinaryCache`, `BinaryCacheMC` | the program store, several processes, and its instances |
| `BinaryCacheProofs` | its invariants and its refinement, for all constants |
| `BatchLayout`, `BatchLayoutMC` | offsets, increments, grid and writes of one call, and all small calls |
| `BatchLayoutProofs` | a safe call writes in place and completely, for all sizes and words |

Operators whose comment begins with "Faulty:" are plausible mistakes; they are
used by no specification. Each stands before the definition it would replace,
and shows that a property notices the mistake.

### ParamStaging

State: `call`, `op`, `pc`, `step`, `img` are the host thread of a handle (which
call, which entry point, where in its sequence of helpers, which iteration of
the loop over the images). `host` and `dev` are the arrays of `InitHandle`. `log`
and `done` are the in-order queue: all commands ever enqueued, and how many are
complete. `copied` is how far the device is with the write it is executing.
`ran` is what the kernels computed with. `failed` is a history variable: the calls
of which a transfer failed; no guard looks at it.

The data is abstracted to *ownership*: an array element is the number of the call
whose arguments it was computed from, 0 if there is none (never staged, freed,
or computed from elements that did not belong to the call). That is all that
"computes with its own arguments" depends on.

| Action | Code |
|---|---|
| `Begin` | the application enters an entry point |
| `Fill` | one iteration of the loop in a helper of `rppi_validate.hpp` |
| `EnqueueWrite` | OCL: `clEnqueueWriteBuffer(..., CL_FALSE, ...)` |
| `CopySynchronously` | HIP: `hipMemcpy` on the null stream |
| `TransferFails` | either fails; the status is not looked at |
| `Launch` | `max_size` over the host arrays, `AddKernel` and `run()` succeed, the entry point returns |
| `LaunchThrows` | `AddKernel` or `run()` throws |
| `Destroy` | `rppDestroyGPU` |
| `DeviceCopies`, `DeviceRuns` | external: the device executes the head of the queue, a write element by element |

`RppiCalls` gives for each entry point its helpers in program order, which host
arrays a helper reads besides the arguments (`copy_roi` reads `csrcSize`,
`get_srcBatchIndex` the elements up to the image of `cmaxSrcSize`), which arrays
the kernel reads and which the launch grid is computed from. One slot stands for
all the arrays one helper fills.

`Waits` says what the *application* does: `"call"`, it drains the queue before it
uses the handle again; `"destroy"`, before it destroys it. (Reading the output
back in order does the first, and so does profiling, which makes `run()` wait
for its event.) Every passing OpenCL run has `"destroy"` in `Waits`, since
`rppDestroyGPU` frees the host arrays without waiting for the writes from them
(`handleocl.cpp:585`): for a client that destroys a handle with work in its queue
neither `HostArrayNotReused` nor `NeverStale` holds. No document states that rule,
so this is an assumption about clients and not a finding.

### EntryPoints and the table of the library

`ParamStaging` asks *when* the device reads an array, for six calls. `EntryPoints`
asks *which* arguments get to a kernel, for all calls; the two share the
description of a call, and `EntryPointsMC` assumes (TLC evaluates it) that
`RppiCalls` says of its calls what the table says (`FewCallsAgree`).

An entry point is a record: operation, type, format, batch form (`plain` or the two
letters of `batchXY`: how sizes and how parameters are given), region (whole, one, one
for each image), device, arguments, the staging steps, and for each back end the
arguments passed to the wrapper and the kernel that is started: the arrays it reads,
the arguments it ignores, whether it goes over the batch, and whether there is one.
The steps are the calls of the helpers in `rppi_validate.hpp` in program order; a
step says which array it fills, from which arguments and which other arrays, and
whether it reads one element per image from the caller. The functions of an
operation differ in their name only, or in what the name says, so a definition such as
`GpuBatch(...)` stands for all functions with one body; where one function of a group
differs (there are many such slips), the data module has a definition of its own
for it. The values of arguments are left out, and so is the order in which host
functions receive their arguments.

| Action | Code |
|---|---|
| `Begin` | the application enters any function, with `nbatchSize` images or one |
| `Stage` | a helper of `rppi_validate.hpp`: a loop over `GetBatchSize()` that fills an array of the handle |
| `Launch` | the wrapper starts its kernel, or the host function runs |
| `SkipLaunch` | the wrapper is empty or there is no call for this back end; `RPP_SUCCESS` |
| `LaunchThrows` | `AddKernel` or the launch throws through the entry point |
| `Return` | the call is over; what the arrays hold is old from now on |

`EntryPointProperties` states each promise as an equivalence: a call deviates *if and
only if* it is in a named set, such as `ReadsOldArrays`. So the sets are exact, a
repaired function has to leave its set, and a new slip shows. They are listed in
section 3. What the table alone says of a function, without any calls, is stated there
too, as assumptions on the table: which array is filled where (`Fills`, `Feeds`), which
arguments therefore flow into it (`Carried`) and into the kernel (`Reaching`). The
invariants are about the calls: that a call on a used handle comes to the same.

### HandleLifecycle

`stage` and `kind` are the handle, `queue` is `impl->queue`, `refs` the reference count
that OpenCL keeps, `client` whether one of the references is the application's,
`blocks` and `freed` the memory, `inFlight` the commands that read the memory of a
handle.

| Action | Code |
|---|---|
| `CreateWithStream`, `CreateHost`, `Create` | the constructors behind `rppCreateWithStream...`, `rppCreateWithBatchSize` and `rppCreate` |
| `CreateWithStreamFails`, `CreateFails` | they throw |
| `SetStream` | `rppSetStream`: retain, release, replace |
| `Call`, `Complete` | an entry point enqueues and returns; the device gets there (external) |
| `ReleaseQueue` | the application gives up its reference (external) |
| `DestroyMemory` | `rppDestroyGPU` or `rppDestroyHost` |
| `Destroy` | `rppDestroy` |

The application waits for the queue of the handle (`rppGetStream`) before it replaces
it, frees the memory or destroys the handle, as the test programs do by reading the
output back. The question is whether waiting for *that* queue is enough after
`rppSetStream` and whatever else came before.

### HandleLock

Each thread runs `get_handle_lock` (the static `handle_mutex`, made by the first
thread of the process), `try_lock_for`, its work, and the destructor of the lock. A
file is named by the process that made it, since two files may be at the same path one
after the other. `holder` and `depth` are the recursive mutex, `locked` the lock of the
operating system on a file, `gaveUp` a history variable.

| Action | Code |
|---|---|
| `Call`, `UseStatic`, `MakeStatic` | entering `get_handle_lock`; the guard of the static object |
| `Exists`, `CreateTemp`, `Rename` | `get_handle_lock_path`: look, make a file under a unique name, rename it |
| `Open` | `file_lock` opens what is at the path now |
| `MakeStaticThrows` | an exception anywhere on that way, from the file system or from the constructor of `file_lock`: the static object is not made |
| `TakeMutex`, `MutexTimesOut`, `TakeFile`, `FileTimesOut` | `try_lock_for`, twice with a time-out |
| `FileThrows` | `timed_lock` throws: the caller gets the exception, the mutex stays locked as after a time-out |
| `Leave` | `~unique_lock` unlocks what is owned |
| `Crash` | a process dies, the system releases its file lock (external) |

`RPP_GPU_SYNC` is 0 in `config.h`, so that the lock is compiled out by default; the
module is about builds that turn it on.

### KernelCache

`program_map` and `kernel_map` are functions on the keys present. `AddKernel` has
three outcomes (found, loaded, load throws), each followed by the construction of
the kernel, which may throw as well, and the insertion under a key with two
non-empty parts. `ClearKernels` is an action; `GetKernels`, `HasKernels` and the
conditions on which they throw are operators. `returned` records the last
request and what it got.

### BinaryCache

Handles belong to processes; a process uses the cache or has it disabled
(`RPP_DISABLE_CACHE`). `pc` follows `Handle::LoadProgram`: lookup, then load, or
build, create a file at a unique path, write it, rename it into place; then
`AddKernel` remembers the program. A path is built from device, parameters and
name; md5 is taken to be injective. `file` survives a `Crash`, everything else
of the process does not. A temporary file nobody will use again is forgotten.

### BatchLayout

One call. `call` is what the application passes, together with the entry point and
the back end; it never changes. `max`, `roiEnd`, `batch_index`, `inc` are the host
arrays the helpers fill, `grid` is `max_height` and `max_width` and then the number
of work items, `written` the addresses that each layer of the grid has written.

| Action | Code |
|---|---|
| `CopySizes` | `copy_srcMaxSize` or `copy_dstMaxSize`, and `copy_roi` |
| `NextIndex`, `IndexDone`, `NextInc`, `IncDone` | the two loops of `get_srcBatchIndex` or `get_dstBatchIndex`, one iteration each |
| `NextMax` | one iteration of `max_size` |
| `Launch`, `LaunchThrows` | the launch: OCL and HIP modules take work items, `hipLaunchKernel` takes blocks; HIP `brightness` rounds up to 32 |
| `RunImage` | all work items of one image, in any order of the images; they write where `brightness_batch` or `resize_crop_batch` lets them |

What the application may rely on is stated apart from the code: `PlacedInARow` and
`Address` say where it looks for a pixel. `IsCall` is what the documentation asks
of a call. Products of sizes are taken modulo `Word` where the code computes in
`Rpp32u`; `IsCall` asks only that one image fits into the word, the sum need not.
Planar images of one channel with the format toggle are left out: the kernel then
steps by three pixels for one channel, and what the caller should expect is not
said anywhere.

`Safe` is a sufficient condition, by entry point and back end, for the code to handle
a call correctly: resize with `maxSrcSize = maxDstSize` (or through the one entry
point that passes the right argument), and brightness either with a region that ends
before the last row and column of every image's place, or in OCL with a grid that no
image's place is smaller than.

## 3. Runs

| Run | Question | Result |
|---|---|---|
| `entry_points` | every entry point, both back ends, handles for one and two images | own arguments, all arguments, all images and planes, and success only if something ran, each but for the functions listed below |
| `ocl_waits` | OCL, five entry points, three calls, the queue drained between calls | own arguments, arrays not reused while a write is pending, the inductive invariant, implements `CallIsolation` |
| `ocl_pipelined` | OCL, drained only before the destruction, transfers may fail | an older argument, or freed memory, only if a transfer of its own call failed |
| `hip` | HIP, two handles, no waiting | own arguments, the inductive invariant, implements `CallIsolation`, every call completes: no deadlock over the null stream |
| `ocl_reuse` | OCL, calls in a row | **violated**: a kernel gets arguments of the next call |
| `kernel_cache` | all orders of `AddKernel` and `ClearKernels` | six properties, implements `KernelRegistry` |
| `binary_cache_shared` | three processes, the third without the cache, a crash | files whole, files in place stay, implements `ProgramService` with exceptions only for what does not build |
| `binary_cache_faults` | two processes, short writes, failing renames, a crash | right program, every request ends, implements `ProgramService` |
| `batch_layout` | all safe calls on three small images | images apart, in place and complete, with sums beyond the word |
| `batch_roi` | brightness, any call | **violated**: work items on the inclusive end of the region write into the next image |
| `handle_lock` | two threads of a process and one of another, a lock file or none at the start, files that cannot be made, opened or locked, crashes | owners exclude each other unless each process made a file of its own; a time-out or an exception of the file's lock leaves the mutex locked for good; every call returns |
| `handle_lifecycle` | two handles, two queues, all four ways to make a handle | reference counts add up, memory is freed but for the `InitHandle`s, no command reads memory that is gone |

The two violations are described under "findings" in `PROJECT.json`; each says
what the code does and which sentence of the repository it disagrees with.

### Where the entry points do not do what their names and parameters say

Run `entry_points` fails if this list is too long or too short. The sets are in
`EntryPointProperties`.

* **An array is read that the call did not fill** (`ReadsOldArrays`): GPU
  `crop_and_patch` indexes with `dstSize`, which no helper stages
  (`cl/cl_advanced_aumentations.cpp:197`); `bilateral_filter` in batches and with a
  region reads sigmas that are not staged; the OpenCL wrapper of `noise` sizes a copy
  with the host arrays of the last host call (`cl/cl_image_augmentations.cpp:383`);
  the HIP wrapper of `channel_combine` passes `uintArr[0]` as an argument that the
  OpenCL one does not have (`hip/hip_color_model_conversions.cpp:185`).
* **An argument reaches nothing** (`LostArguments`): `nbatchSize` of every batched
  function, for which `GetBatchSize()` of the handle is used; the region of `vignette`,
  `snow` and `random_crop_letterbox` on the GPU and of `look_up_table`, `color_twist`
  and `random_crop_letterbox` on the host; sizes or maximum sizes where the wrapper or
  host function uses only the other; the kernel size or the sigmas of
  `bilateral_filter`; `xRoiEnd` of `resize_crop_mirror`
  (`rppi_fused_functions.cpp:5143`); `maxDstSize` of `resize`, which passes
  `maxSrcSize` in its place; `percentage` of `scale` in OpenCL.
* **Success without doing anything** (`DoesNothing`): functions without a body
  (`hough_lines`, `reconstruction_laplacian_image_pyramid`), and in HIP the wrappers
  with an empty one.
* **One plane of three** (`PlanesAsNamed`): the single-image `pln3` functions pass
  channel 1, but for the operations named in `AllPlanes`.
* **The whole batch instead of one image** (`ImagesAsAsked`): the single-image
  functions of `median_filter` and `nonlinear_filter` start the kernel for batches.

Two more things a reader of the code may stumble on are in the models without a
property against them: `KernelCache::ClearKernels` leaves an entry without kernels, on
which `HasKernels` throws (`kernel_cache.cpp:142`), though nothing in the library calls
`HasKernels`; and
`PreInitializeBuffer` makes an `InitHandle` which `PreInitializeBufferCPU` replaces,
`rppCreate` allocates before there is a context, so that its handle has no device
arrays, and a failing `rppCreate` keeps what it allocated (`HandleLifecycle`).

### Bounds

* Entry points: handles for one and two images and callers with one and two, so that
  a caller can have fewer, as many, or more than the handle; calls follow each other
  for ever (`Return` forgets what the call filled, so one call stands for all).
* Handle lock: three threads in two processes, the smallest system with a rival in the
  process and one outside; two calls each, so that a lock that stayed behind is met
  by a later call. The number of time-outs follows from the calls.
* Handle lifecycle: two handles that can share a queue, two queues that a handle can
  change between, two calls so that one can follow a change. `Spec` has no deadlock
  check since a history of handles ends.
* `NImages = 2`: the smallest batch with a first and a last image; a write can be
  half done, a loop can miss its last element, and `get_srcBatchIndex` has an
  element that depends on an earlier one.
* `MaxCalls` is 3 in `ocl_waits`: a call, one before it and one after it. It is 2 with
  two HIP handles and where failing transfers multiply the states, which still
  gives every call a predecessor or a successor.
* Two handles: waiting for each other needs no third.
* Kernel cache: one program name with three parameter strings (none, and one with
  and without the leading space), two kernels of which one source lacks one, two
  keys with both parts and those with an empty one, indices 0 and 1. The number
  of loads is bounded by the program map itself.
* Binary cache: two keys that differ in their parameters only, and one that does
  not build; three handles, one per process, the third not caching; one crash. Two
  builders of one key, a reader, and a death in the middle of each fit into that.
  With faults, two handles and the two keys that build.
* Batch layout: three images, the smallest batch with a last image that depends on
  a sum; images and places of up to two rows and columns, so that an image may be
  smaller than its place in either dimension and two images may each be the larger
  in one; blocks of 2 for 32 and 16; `Word = 13` is just above the largest image
  (2 x 2 x 3), so that offsets exceed it. The violation needs two images only.
* `StagingOcl*.cfg` and `StagingHip*.cfg` do not check deadlock: the application
  may stop calling. A call that is stuck shows in `EveryCallCompletes`. The
  `BatchLayout*.cfg` follow a single call, which ends.

### Fairness

`ParamStaging!FairSpec`: weak fairness of a host thread inside an entry point and
of the device on each queue. The thread is an ordinary thread of the process and
waits for nothing but HIP copies, whose guard stays true once the queues are
empty *and nobody launches in between*: in the model a thread that waits is
overtaken only by the finitely many calls of the others (`MaxCalls`), so the run
shows that handles do not wait for each other in a circle, not that they are
treated fairly. The device executes a queue that is not empty. Nothing obliges
the application to call or to destroy.

`HandleLock!FairSpec`: weak fairness of each thread's next step, time-outs included.
Waiting for the mutex or the file is bounded by `try_lock_for`, so that a thread that
waits always has a step: it gets the lock or its time is up. Nothing obliges a thread
to call.

`BinaryCache!FairSpec`: weak fairness of a thread inside `LoadProgram`, which
never waits.

## 4. Proofs

All theorems hold for every value of the constants that satisfies the named
assumption of the module (`StagingAssumption`, `EntriesAssumption`,
`KernelCacheAssumption`, `BinaryCacheAssumption`, `LayoutAssumption`,
`LifecycleAssumption`, `LockAssumption`), which TLC evaluates in the runs.

**ParamStagingProofs.** `TypeCorrect` is by induction alone. *Own arguments* is not
inductive: it speaks of kernels that have run, and one has to know what the
arrays hold when a kernel runs. For OCL (`OclInv`) the argument is: because the
queue is drained before a call begins, every pending write is of the current
call and of a step already taken (`WritesOwn`); what is filled belongs to the
call (`HostOwn`, which needs the steps to be in an order in which what a helper
reads has been filled: `WellStaged`); so what was handed over has arrived or a
write for it is pending (`SentOwn`), a write that is half done has copied the
call's elements (`CopiedOwn`), and a kernel is last in the queue (`KernelLast`),
so when it is at the head all writes have arrived. For HIP (`HipInv`) a copy finds
every queue drained, so the device arrays of a pending kernel cannot change
(`KernelsOwn`). TLC evaluates `OclInv` and `HipInv` in the runs `ocl_waits` and `hip`,
and `WellStaged` for every entry point of `RppiCalls` as an assumption of
`ParamStagingMC`: all are well staged but HIP `channel_combine`.

* `OclOwnArguments` assumes `WellStaged`, an application that always drains, and no
  failing transfers; `HipOwnArguments` assumes `WellStaged`, streams that synchronise
  with the null stream, and no failing transfers. The run `ocl_reuse` shows that
  draining cannot be dropped; that failing transfers matter is what the exception in
  `NeverStale` is for. Both follow from the invariants, which are theorems of their own
  (`OclInvariant`, `HipInvariant`). That the calls of the library are well staged is run
  `entry_points`: all but those in `ReadsOldArrays`.

* `ArgumentsNeverStale` assumes `WellStaged` only, and for OCL that the queue is drained
  before the handle is destroyed: either back end, any stream, no waiting between calls,
  transfers that fail. The invariant is `FreshInv` (`FreshInvariant`). Calls only ever put
  newer arguments in a host array, and the device array is never ahead of it
  (`HostAhead`), so a write that comes late brings something newer, never something
  older. For every array that a queued kernel will read, the device has arguments of its
  call or later, or a write before the kernel is pending, the host array has them, and
  so have the elements copied already (`Arrives`). A transfer that fails adds its own
  call, and no other, to those that are excused.

**ParamStagingRefinement.** From the same assumptions:

* `OclImplementsIsolation` and `HipImplementsIsolation`, which assume too that the kernel
  of every entry point reads an array (`KernelsRead`, which TLC evaluates in
  `ParamStagingMC`): every step of `ParamStaging` is a
  step of `CallIsolation` or leaves its variables alone. A kernel that runs has the
  arguments of its call and no others, which is the invariant of the back end; that it
  is newer than all that ran before is `Order`, an invariant of both back ends: kernels
  are queued and run in the order of the calls, and what has run is of a call that is over.
* `OclArraysNotReused`: with a drained queue a write that is pending when a helper fills
  an array is of the same call. If it reads that very array, the array holds already what
  the helper puts there (`FillKeepsPending`); and no handle is destroyed while a write is
  pending.

*Nobody gets stuck.* Liveness is beyond the prover, but what it rests on besides fairness
is not. `NobodyGetsStuck`: in every reachable state the guard of some step of a host thread
in a call holds, unless the thread is a HIP copy that waits for queues to drain, and then
the guard of a step of the device does; so handles never wait for each other in a circle,
for any number of them, either back end, any stream, with or without failing transfers.
`EveryCallRunsOut`: each step of a call lowers `StepsLeft`, a number that no other step
changes, and each step of the device lowers `WorkLeft` of its queue, to which only a call
in progress adds. The guards are written out, since `ENABLED` is beyond the prover.

**EntryPointsProofs.** For any table, `EntryPointsTyped`, and
`WellStagedCallsUseOwnArguments`: what an earlier call left behind never reaches the
kernel of a call whose arrays are all filled before they are read. The invariant adds
that the arrays of the steps taken are filled (`filled` has them in its domain) and,
if the call is well staged, that none of them holds anything old. It is why one pass
over the table settles all sequences of calls.

`KernelsRunAsTheTableSays` goes on from there: a kernel that ran got `Reaching(entry)`,
which is computed from the table, and nothing else, whatever calls on whatever handle came
before and however they ended. The invariant is that every array filled so far holds what
`Carried` says (`HoldsCarried`), that a finished call ran so or says that it did not
(`RanAsTable`), and that arguments of other images are read only by a step that reads one
for each (`OverOnlyByEach`). It assumes of the table that helpers fill each array once,
before it is read, and that nothing is computed at third hand
(`EntryPointProperties!StagingAssumption`). The five promises of `EntryPointProperties`
follow, each from one more assumption on the table, which speaks of entries only and not of
states: `OldArraysAreTheListed` from `OldArraysAssumption`, `LostArgumentsAreTheListed` from
`LostArgumentsAssumption`, `SuccessRanUnlessEmpty` from `DoesNothingAssumption`,
`PlanesAreTheListed` from `PlanesAssumption`, `ImagesAreTheHandles` from
`OneImageAssumption`. TLC evaluates all six on the 7184 entries in run `entry_points`, so
that the theorems are about this library with any handle, batch size and sequence of
calls, and the run's bounds are no restriction.

**HandleLifecycleProofs.** `HandlesTyped`; `HandlesAccounted`, with its two halves as
theorems of their own; and `MemoryRests`. `QueuesCounted`: for any handles and queues the
reference count of a queue is the number of handles that have it and one for the
application, by the lemma that changing one value of a function moves one element from one
preimage to another. `MemoryIsAllocatedLessFreed`: `Accounted` says what is left of a handle
that is gone, which is not inductive; `MemoryAccounted` says it of every handle at any
time, including one whose constructor threw: what its constructor allocated, less what the
call that freed it knows of. `MemoryRests` is what `ParamStaging` takes for granted when it
gives each handle one queue: an application that waits as described never has commands of
a handle on two.

**HandleLockProofs.** `LockTyped`, `LockAccounted`, and `LockExcludes`. The invariant says
that an owner holds the mutex of its process and the lock of the file that the process
has open (`OwnersHold`), and that the lock file of an earlier run is either the only
one or open nowhere (`OldOrNew`). Two owners of one process would both hold its mutex,
two that have the same file open would both hold its lock. `NobodyGetsStuck`: a thread
inside the lock can take a step, or waits for the static object of its process, and then
the thread that makes it can. That needs that whoever is registered as the maker is at
work on it (`MakerAtWork`), so that a thread that throws before the object is
made must give up its place, and that processes die as a whole (`DieTogether`). `CallsRunOut`: each step of a thread lowers
`StepsLeft`, and no step of another raises it, so that a call takes nine steps at most.

**KernelCacheProofs.** `CacheTyped`, `CacheFits`, `CacheLoadsOnce`, `CacheLive`,
`CacheKeeps` and `CacheImplementsRegistry`. The invariant adds to the properties that a program is found under its own
name and parameters (`UnderOwnKey`, without which a found program need not fit the
request) and that the program map is finite (for counting loads). What
storing a kernel does to the vectors is `StoredElements`: every element of the new one
is the new kernel, a default kernel, or was at that place before. `StoredInPlace` is
the other half, for the refinement: no other place gains, loses or changes a kernel, so
`AddKernel` is `Register` of the table, or leaves it, and `ClearKernels` is `Clear`.
`CacheImplementsRegistry` assumes finitely many program names and parameters, since
the table's kernels are numbered by the loads there can be. That a parameter
string is never a lone space is part of `KernelCacheAssumption`: a lone space would
have the same text as the empty string in the record that stands for it.

**BinaryCacheProofs.** `Inv` adds to the types that what a handle has in hand is of
the key it loads (`InHand`) and that the file at the path of a key was built for it
(`FilesRight`, which rests on paths being different for different keys). From it
follow `TypeCorrect` and `RememberedIsRight`, whatever fails. `FilesInv` adds, if no
write is cut short, that a temporary file is whole when it is renamed; from it
follow `FilesAreWhole` and `FilesRemain`. For `ImplementsService` one more fact is
needed: a file that was found is still whole when it is read (`LoadsWhole`); then
every step is a step of `ProgramService` or leaves its variables alone. `RequestsRunOut`:
a request inside `LoadProgram` can always go on, whatever others do to the files, and is
over after six steps at most.

**BatchLayoutProofs.** `TypeCorrect` holds for every call. The other three theorems
are about an application whose calls are all `Safe`: `SafeCallsStayInPlace`,
`SafeCallsKeepImagesApart`, `SafeCallsWriteEveryPixel`. `IInv` says what the helpers
have computed so far: sizes and offsets are the application's (`Placing`), strides
belong to the sizes (`Strides`), the grid covers the images looked at and, without
rounding, no more than any place (`GridRight`), and layers not run have written
nothing (`Layers`). The core is arithmetic: a pixel's number is below the number of
pixels (`PixelNumber`), so the address the kernel computes is the one the application
expects, does not overflow, and lies in the image's place (`WhereInPlace`); and a
work item that writes lies inside the place (`SelectedInside`), the lemma that
fails for calls that are not safe. Sizes, batch size, blocks and word are arbitrary.

Only model-checked: liveness (`EveryCallCompletes`, `EveryRequestEnds`,
`EveryCallReturns`), since the prover can derive nothing from fairness. What is proved of
each is its safe half: that some step can be taken, and that there are not infinitely
many. TLC also settles the assumptions about the table of the library, which is finite.
Every other property of a passing run is a theorem.

## 5. Not modelled

* Pixel arithmetic of the host back end and of the GPU kernels (but for what two
  kernels write in `BatchLayout`), and the random state that its OpenMP loops share.
* Values of arguments in `EntryPoints`, the order in which arguments are passed on, and
  the spelling of parameters (the crop points of all functions go by one name).
* The 21 `rppi_tensor_...` functions, the `..._control_flow` helpers and
  `rppi_utilities.cpp`: they take all they use as arguments and stage nothing.
* `rppSetBatchSize` and `rppSetAllocator`. Every helper reads `GetBatchSize()`, and the
  arrays are sized when the handle is made: an application must not set a larger one.
* Handles of the HIP back end, which take a stream without counting references.
* An application that changes or destroys a handle while its queue works, other than
  in `ocl_pipelined`.
* `lock`, `try_lock` and `try_lock_until` of `handle_mutex`, which have no callers.
* Device memory that some wrappers allocate for themselves, work sizes (other than in
  `BatchLayout`), logging, wording of exceptions, profiling results.
* The HIP variant of `LoadProgram`, which differs in how the temporary file comes about
  (`copy_file`, HSACOO builds only).

The run-time systems, the file system and the compilers are external: renaming is
atomic, a queue is in order, a binary that is cut off is refused. A full disk may
leave a short file in the cache, after which every request for that key throws
until the file is removed; `ProgramService` allows it (`MayThrow`) because no
document says otherwise.

## 6. Plan

Done: `ParamStaging` and `CallIsolation`; `EntryPoints` with the table of the library;
`KernelCache` and `KernelRegistry`; `BinaryCache` and `ProgramService`; `BatchLayout`;
`HandleLifecycle`; `HandleLock`; each but the abstract ones with proofs.

Next:

1. `rppSetBatchSize` in `HandleLifecycle`, with the sizes of the arrays; HIP handles.
2. A composition of `KernelCache` and `BinaryCache`: one request through both caches.
3. `BatchLayout`: the input side of resize (no read outside the source), crops
   (`is_padded` false), the kernels of other operations that take regions.
4. The grids of the wrappers, in `OclWrappers` and `HipWrappers`.
5. The random state shared by OpenMP threads, and the reductions in the kernels.

Questions that later modules ask replace runs that a theorem has made redundant or
that one configuration can ask together, so that the runs stay few.
