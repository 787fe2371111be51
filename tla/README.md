# Nyuzi in TLA+

Nyuzi is a multithreaded GPGPU processor (`src/hardware`, SystemVerilog) with a
small multithreaded kernel, runtime libraries, a software renderer and host
tools (`src/software`, `src/tools`). This directory holds TLA+ models of the
parts whose correctness depends on the order of events, TLC configurations that
check them on small instances, and TLAPS proofs. `PROJECT.json` lists
components, runs, mutants, the source lines behind each definition, findings,
hazards and theorems.

    tlc -workers 2 -config MCKernelSafety.cfg MCKernelSafety   # one run
    tlapm SchedulerProofs.tla                                  # the proofs

## 1. Inventory

### The kernel (`src/software/kernel`)

| part | state | operations | interacts with |
|---|---|---|---|
| reader/writer lock (`rwlock.c`) | `write_locked`, `active_read_count`, two wait lists, a spinlock | lock/unlock for reading/writing | sleeps through `reschedule()`, wakes through `make_thread_ready()` |
| scheduler (`thread.c`) | `ready_q`, `dead_q`, `cur_thread[]`, `thread.state` | boot, spawn, timer tick, `reschedule`, `make_thread_ready`, `thread_exit`, `grim_reaper` | every blocking operation; one `thread_q_lock` for all hardware threads |
| processes (`thread.c`, `syscall.c`, `main.c`) | `ref_count`, `thread_list` | `exec_program`, `spawn_user_thread`, `thread_exit`, `destroy_thread`, `dec_proc_ref`, the shutdown watch | reaper, parent, boot thread |
| demand paging (`vm_address_space.c`, `vm_cache.c`, `vm_page.c`) | page caches, frames with `busy`, `dirty`, `ref_count`, page table entries | `handle_page_fault`/`soft_fault`, `destroy_area` | the space's rwlock, the global cache lock, the file system |
| area map (`vm_area_map.c`) | ordered list of areas | `create_vm_area` (exact, search up, search down), `destroy_vm_area`, `lookup_area` | called with the space's rwlock held |
| translation maps (`vm_translation_map.c`, `util.c`, `vm_page.c`) | page directories and tables, free frames, the identifier bitmap, `map_list` | create, destroy, map a user or a kernel page, query | `kernel_space_lock`, each map's lock, the free page list |
| heap and slabs (`kernel_heap.c`, `slab.c`) | free ranges linked through their own memory, the wilderness, slab free lists | `kmalloc`, `slab_alloc`, `slab_free` | a slab calls `kmalloc` with its own lock held |
| SD card, file system, loader, trap entry, console | | | not modelled, section 7 |

### The hardware (`src/hardware/core`)

A core runs several hardware threads through one pipeline. A load that misses, a
store that finds the thread's one-entry store queue full, a synchronized access
and an I/O access *roll the thread back* and *suspend* it; a response from the
L2 cache *wakes* it and the instruction is issued again.

| part | state | interacts with |
|---|---|---|
| data cache stages (`dcache_tag_stage`, `dcache_data_stage`) | tags, valid bits, data, `dd_load_sync_pending` | both queues, writeback |
| store queue (`l1_store_queue`) | one entry per thread | L2 interface, load bypass |
| load miss queue (`l1_load_miss_queue`) | one entry per thread with the set of waiting threads | L2 interface, thread select |
| L2 interface (`l1_l2_interface`) | three-stage response pipeline | tags, data, both queues |
| thread select, writeback | `thread_blocked`, rollback and suspend wires | all of the above |
| L2 cache and bus interface, fetch, scoreboard, execution, TLB, control registers, I/O queue, debugger, FPGA peripherals | | not modelled, section 7 |

### Libraries and tools

| part | state | operations | interacts with |
|---|---|---|---|
| parallel jobs (`libos/*/schedule.c`) | `current_index`, `max_index`, `active_jobs` | `parallel_execute`, `dispatch_job`, `worker_thread` | every hardware thread, without locks |
| renderer (`librender`) | draw queue, a queue per tile, vertex parameters | `drawElements`, `finish` and its three kinds of job, `append`, the recursive rasterizer | parallel jobs |
| emulator (`tools/emulator`) | threads with two levels of saved trap state, TLBs, interrupt lines, reservations, breakpoints | instructions, interrupts, debugger commands | devices, the gdb stub |
| serial boot (`tools/serial_boot`, `software/bootrom`) | where each side is in a request | ping, load, clear, execute, resynchronise | a serial line |
| C library, applications, benchmarks, tests | | | not modelled |

### What is hard here

* **Windows around locks.** `wait()` and `thread_exit()` give up a spinlock
  before the thread has left its stack; `reschedule()` reads
  `current_hw_thread()` before it disables interrupts; `soft_fault` reads the
  file without the cache lock; `bitmap_free` takes no lock at all.
* **Hand-over.** The rwlock is given to threads that have not run yet.
* **Reference counts dropped on different paths**, by the parent, the reaper, the
  fault handler and `destroy_translation_map`.
* **Lock-free code**: `append` and `dispatch_job` read, compare and swap variables
  other threads change in between, and start a new batch while stragglers of the
  last one are still inside.
* **Machine words that wrap** at the end of the kernel's address range.
* **Events of one clock cycle**: suspend and wake, fill and miss, send and
  combine, response and barrier; tags updated a cycle before data.
* **Instructions done in several passes** (synchronized accesses, gathers), with
  evictions, interrupts and nested misses in between.
* **A line that loses bytes** between two sides of which one takes whatever comes
  for the next byte of what it expects.

`PROJECT.json` lists these as hazards, at their lines, with the properties that
watch them or the reason none does.

## 2. Modules

| module | models | state and actions |
|---|---|---|
| `RWLockAbs` | what callers of the lock rely on | sets of readers and writers inside |
| `RWLock` | `rwlock.c` | the struct's fields and where each thread is; one action per function, two for those that sleep |
| `QueueTheorems` | facts about queues that the proofs share | |
| `SchedulerProofs`, `PageFaultProofs`, `L1CacheProofs`, `EmulatorProofs` | proofs about the module of that name | |
| `LocksAndProcessProofs` | proofs about `RWLock` and `ProcessRefs` | |
| `KernelMemoryProofs` | proofs about `TranslationMap`, `KernelHeap` and `VmAreaMap` | |
| `ParallelJobsProofs` | proofs about `ParallelJobs` in the programs `RenderContext` draws with | |
| `Scheduler` | `thread.c`, idle loops, blocking path of the lock | queues, states, `cur_thread`, and `exec`, the stack each hardware thread is really on; code that holds `thread_q_lock` is one action, each window is a location |
| `ProcessRefs` | reference counts and shutdown | `struct process`, `struct thread`, reaper |
| `PageFault` | demand paging | caches (as slots at one offset), frames, page table entries, the locals of each faulting thread |
| `VmAreaMap` | the area map | the list as a sequence; each loop is the first index at which it stops |
| `KernelHeap` | `kmalloc` and slabs | the free list and the size field every address would have if a range started there; a call is one step, because the locks cover it |
| `TranslationMap` | page tables, frames, identifiers | directories as functions from regions to tables; code under a spinlock is one step, the gaps between are locations of each hardware thread |
| `L1Cache` | the memory pipeline of a core | flip-flops and memories as variables, wires as definitions with the names of the source, one step per clock edge |
| `CommandQueue` | `append`, iteration, `sort` | one step per access to a volatile variable |
| `ParallelJobs` | batches of jobs | the same |
| `RenderContext` | frames: composes the two above | a job is the body between taking an index and returning; triangles are the tiles they touch |
| `Rasterizer` | culling, binning, rejection, `subdivideTile` | integer coordinates; a stack of blocks instead of recursion |
| `Emulator` | one core under a debugger | `struct thread` as a record; one instruction, or one lane of a gather, per step |
| `SerialBoot` | host, boot loader, line | bytes in two queues; each side reads one byte per step |

`MC*.tla` instantiate them. A definition marked `mutant` is a variant with a
plausible bug in it; no specification uses it. It replaces the definition that
follows it to show that a property would notice.

**Side by side.** `kernel_progress`, `kernel_safety` and `host_tools` check several
independent components at once. Their MC module has a variable `part`, chosen in the
initial state: the steps of a behaviour are those of one component, the variables of
the others keep their initial values. Nothing interacts; every property means what
it means for the component alone, and each one's fairness is stated for the steps of
the part that runs. The renderer's run does the same for frames (`RenderContext`,
which really composes two components) and pixels (`Rasterizer`), and the cache's for
two programs.

**Ends of behaviours.** A failed assert is a value of the variable `machine`
(`power` in `ProcessRefs`, `fault_machine` in `PageFault`); the behaviour ends
there. In `Scheduler`, so do the first memory errors (two processors on one stack, a
stack freed in use, a switch away from the wrong thread), and in `RenderContext` a
job with an index its batch does not have: the program's state means nothing
afterwards. In `PageFault` a read that fails goes on while another fault has a
reference to the page; when it frees a page that is still cached, the usual case,
the behaviour ends too. The kernel does go on then, and may map the frame after it
was given to somebody else: the paging properties claim nothing of that, and their
comments and theorems say so.

**History variables** guard nothing in the code's steps. `owed`, `linked`
(`L1Cache`): stores retired and not yet done, and what a thread's last
synchronized load returned. `raced`, `written`, `ran`, `overrun` (renderer):
which items appends have finished with, which indices ran, and whether one of the
known races struck. `raced`, `kernel_mapped`, `user_mapped`,
`kernel_tables` (`TranslationMap`): a `bitmap_free` overlapped another change of the
bitmap; what `vm_map_page` was asked for, and the frames it took for tables of the
kernel. `next`, `depth`, `stored` (`Emulator`). `kind` and `request` tags,
`stale` and `astray` (`SerialBoot`): the host took the answer to an earlier request
for the current one; the boot loader took some other byte for an address, a length or
the command of a store or a start.

**Views of the same code.** `Scheduler` has stacks and queues and no processes,
`ProcessRefs` has the processes and lets every thread take its next step at any
time. `RWLock` lets a sleeping thread leave its processor in one step;
`Scheduler` has the window that hides. `PageFault` and `TranslationMap` both use
`vm_page.c`, the first for pages of data, the second for pages of tables.
`Scheduler.spawn` makes a thread ready and queues it in one step: nobody can see the
thread in between. `Scheduler.DestroyStackArea` is one step for the two `destroy_area`
calls of `destroy_thread`, and `VmAreaMap` takes its caller to hold the lock of the
space it changes (but see section 4).

`L1Cache` leaves out: the stages before the tag stage (an instruction of an
unblocked thread may enter in any cycle, which includes every delay of the front
end), the instruction cache, I/O accesses, faults other than a TLB miss,
scatter/gather, and the success bit a synchronized store returns. `iinvalidate`
behaves like `flush` on the data side and is represented by it. The L2 cache does
an accepted request in the cycle its response reaches the core, in any order. An
invalidated line is assumed to have been written back. LRU and round-robin
choices are arbitrary.

`Emulator` has one core, one set of each TLB and one word that synchronized
accesses are to. Its programs are those of `MCHostTools`: enter user mode, use
the timer, increment or gather, trap; a trap handler that saves a register and
uses the stack (so that it may miss in the TLB itself), and a miss handler that
inserts the entry, like the kernel's. Accesses to device registers do not go through
the TLBs in the model; the code translates their addresses like any other
(`processor.c:1277`), and the programs are taken to have them mapped. Programs set the
trap handler before anything can trap, so the half of the crash condition that says
`trap_handler_pc == 0` (`processor.c:742`) is left out.

`SerialBoot` has one byte for an address, a length or a checksum instead of four,
and a checksum that no two contents share. Timeouts of 15 and 5 seconds on a
whole block are assumed not to beat an answer that is under way; the short ones
of the ping and of the resynchronisation may, `MAX_LATE` times. Every byte may be
lost, every byte to the target damaged, and the data in the run holds codes of
commands.

`KernelHeap`: `kfree` exists and is not called by anything in the kernel, so the
heap only grows. `insert_free_range` is reached through growth, and its merging,
which the model has too, finds nothing to merge without `kfree`.

## 3. Runs

| run | instance | shows |
|---|---|---|
| `kernel_progress` | lock: 5 threads; processes: 3 with 4 threads; paging: 3 threads, 2 frames, the stack destroyed at any time | the lock's inductive invariant, asserts, no lost wakeup, refinement of `RWLockAbs`, no starvation of either side; a process is destroyed once, after its last user, and the machine shuts down when the init program ends and not before; every fault on a read-only or anonymous page completes |
| `kernel_safety` | scheduler: 2 hardware threads, 2 workers, reaper; area maps: a user map and the kernel map, 8 pages each (and an unused one for the other parts); heap: 30 words, two slab allocators; tables: 2 hardware threads, 2 maps, 3 frames, 2 identifiers, a kernel region with a table from boot on and one without; paging: 2 threads, 3 frames, read errors, the stack destroyed at any time | up to the first failure, queues, states and processors agree and `ready_q` is never empty in `reschedule()`; areas are ordered, aligned and disjoint and every placement equals first fit, last fit or "free"; no memory is handed out twice; every space sees its own mappings and the kernel's in regions that have a table from boot on, no frame is used twice or lost except for kernel tables; until a failed read frees a cached page, file pages stay clean, only finished pages are mapped, collided faults share one page, and references are counted |
| `scheduler_uniprocessor` | 1 hardware thread | nothing fails at all, and ready, waiting and dead threads make progress |
| `l1_cache` | 2 threads and another core with two programs: 2 lines for 1 way, 2 lanes; synchronized accesses, 2 ways, TLB misses | stores, barriers and wakeups are never lost; a load is never older than the thread's own store; the hardware's assertions, atomicity of load-linked/store-conditional, agreement of L1 and L2 |
| `renderer` | 3 threads, 2 frames of 4 and 2 triangles, 2 tiles, buckets of 2; every convex polygon on 9 corners, drawn with and without backface culling | a batch is complete when `parallel_execute` returns, set-up reads shaded vertices, tiles are drawn in submission order, frames end; two triangles with a common edge fill their polygon without gap or overlap, or nothing of it when they face the culled way |
| `host_tools` | emulator: 2 threads in 6 sessions; serial: 2 segments, 2 lost or damaged bytes, 5 early timeouts | programs resume exactly, no pending interrupt is left behind, no increment is lost, no address has two translations; what the host counts as copied is in memory; both tools end, the host after finitely many faults of the line |
| `early_wake` | 2 hardware threads | **finding**: a thread woken between `release_spinlock` and `reschedule()` in `wait()` fails `thread.c:290` |
| `collided_cow_read` | 2 threads | **finding**: a second read fault on a copy-on-write page waits forever on a dummy page |
| `spawned_thread_assert` | 2 processes, 3 threads | **finding**: a program with two threads loses its last reference early |
| `append_lost` | as `renderer` | **finding**: two appends to an empty queue write one slot, although `append` "is reentrant" |
| `jobs_after_return` | 2 workers, batches of up to 3 | **finding**: jobs run after `parallel_execute` has returned, when a batch is smaller than the one before |
| `kernel_tables_shared` | 2 maps, a kernel region without a table | **finding**: kernel pages there are not seen by every address space |

Some properties of the passing runs have a proviso, and each names the code that
makes it necessary: `BatchComplete`, `VerticesReady` and `TilesInOrder` hold until a
worker compares with the old `max_index` between the two stores at
`schedule.c:50-51` (`jobs_after_return`), the last also only if no `append` raced
(`append_lost`); `MappingsSeen` asks of a kernel region without a table from boot only
that nothing wrong is seen there (`kernel_tables_shared`); `AsidsAndFramesExact` claims
different identifiers only while no `bitmap_free` overlapped; the paging properties
hold until a failed read frees a page that is still cached, `PagesAccounted` until any
read fails; `MapWellFormed` and `PlacementsCorrect` are about requests that meet
`CallersAssumption`; `AcceptedIsStored` is claimed while the host has not taken a stale
answer and the boot loader no byte for an address, a length or a command that it is
not: the checksum covers the data only, so the code promises no more. `ToolsEnd` is
about a line that loses or damages finitely many bytes: `send_segment` retries without
limit (`serial_boot.c:662-690`), and on a line that damages every attempt and lets the
pings through it never ends.

**Bounds and why they suffice.** The lock's decisions depend on whether a queue is
empty, has one element or more, and on who owns the lock: five threads give an owner
with two readers and two writers queued. Every window in `thread.c` needs two
hardware threads, one in the window and one acting, and two workers. A collided
fault needs two threads; three frames cover source, dummy and copy, so that a frame
freed early is used again. Three threads fault in `kernel_progress`, and the
theorems have any number. The area map's arithmetic is exercised by every size and
address of a 32-word machine with the wrap at the end. The heap is small enough to
run out and large enough for two growths and their splits; one slab holds one object
and a piece left over, the other two. Three frames make a frame of a destroyed map
return in another's tables, and two identifiers make them be reused; one physical
address is enough to tell a mapping from none, and the theorem has any. In the L1
cache each race is between at most two threads, or a thread and a response; one way
makes every fill an eviction, two let a duplicate appear. Buckets of two with four
appends make a thread allocate while others append, and a batch that is smaller than
the one before follows. The corners lie on the screen, on the edges of tiles and
beyond all sides of the screen; every direction of an edge occurs. Two lanes let an
interrupt fall inside a gather, two ways and two address spaces replace entries that
are in use. Two faults of the line include the loss of a command and of the answer
to its retry, of an address or a length, and a byte of data taken for a command.
`MaxSpawns`, `HEAP_SIZE`, `MAX_LOST`, `MAX_LATE`, and the characters and debugger
commands of a session bound behaviours, `MAX_INDEX` the indices of a batch that was
overrun; no run uses a state constraint.

**Deadlock** is checked for the uniprocessor scheduler, the cache, the renderer
and the host tools (the end of the work is an explicit stuttering step or a state
in which the debugger may still continue). It is off where the system may stop:
after a failed assert, a panic, shutdown, or when memory is exhausted.

**Fairness.** `RWLock`: a thread that has been made ready runs (round-robin queue)
and critical sections end; nobody is obliged to ask for the lock. `Scheduler`, one
hardware thread: the timer interrupt comes and a thread with interrupts disabled
goes on (weak); a thread that gets the processor again and again takes its next
kernel step and leaves its critical section (strong, because preemption disables the
step in between: a time slice is long enough to do something). Spawning, locking and
exiting are never forced, except for the spawn of the reaper at boot. `PageFault`: a
file read ends and a thread whose page is not busy maps it. `ProcessRefs`: the
reaper, the boot thread and a parent returning from `SYS_exec` take their steps; a
program need not do anything. `RenderContext`: every hardware thread keeps running,
which the processor's thread selection gives; nothing is assumed about who gets a
lock or wins a swap. `Emulator`: round robin (`next_set_bit` goes down the enabled
threads and wraps) gives every enabled thread its turn, and the user of the debugger
goes on. `SerialBoot`: both sides run, and the line is obliged to nothing, but its
faults are bounded (`MAX_LOST`). `L1Cache` claims no liveness; `NoLostWakeup` is the
safety half.

## 4. Findings and observations

Six findings have runs (section 3). Modelling or reading for it also showed the
following; some are hazards in `PROJECT.json`, the rest is recorded here.

Kernel:

* `thread_exit` queues the thread before it is `THREAD_DEAD` (`thread.c:379-381`):
  the reaper's assert (`thread.c:162`) can fail, and its stack can be freed in use.
* A voluntary `reschedule()` preempted at `thread.c:279` uses a stale hardware
  thread number.
* `soft_fault` decides before it maps (`vm_address_space.c:405`): a read-only page
  may be mapped over a newer private copy.
* `destroy_area` drops references and leaves the page table entries
  (`vm_address_space.c:195-202`): a store through one would reach whatever its frame
  is used for next. `PageFault` takes nobody to use the stack of a thread that has
  exited.
* A failed read frees a page that is still cached and leaves it busy
  (`vm_address_space.c:308`). The frame may be handed out again, and a later fault
  finds it in the cache. `PageFault` ends there.
* `destroy_thread` destroys the kernel stack's area through `th->proc->space`
  (`thread.c:179`): the kernel's area map changes while only the lock of the process's
  space is held. `VmAreaMap` takes the map's own lock to be held.
* Exact placement does not align, although the map's own checks require it
  (`vm_area_map.c:282`).
* The init process is freed while `kernel_main` polls it (`main.c:61`).
* A kernel region without a page table (run `kernel_tables_shared`): `vm_map_page`
  should "allocate a new one and stick it into all page directories"
  (`vm_translation_map.c:206`), but walks `map_list`, which `kernel_map` is not on. Each
  page mapped there gets a new table over the last one, so that earlier pages of the
  region are lost with a frame each, and directories created later have no table at
  all. With no map on the list the entry is written through table address 0.
  `boot_setup_page_tables` makes tables only for what it maps; the ramdisk
  (`fs.c:78-81`) and a heap of 16 MB reach further.
* `bitmap_free` (`vm_translation_map.c:174`) is not locked: two maps may get one
  identifier. Nothing flushes TLB entries when an identifier is reused, and other
  cores' TLBs are not told of a changed mapping (`vm_translation_map.c:223`).
* The remainder of a split range keeps whatever its memory holds as its size
  (`kernel_heap.c:67`). Pages are cleared when they are mapped and nothing is given
  back, so that it reads 0 and the remainder is never used again: a leak rather than
  an overlap, which is what `AllocationsDisjoint` shows.
* In a map that ends at the last machine word the address after its last area wraps
  to 0. A search up that starts above the low end of that area would take its own
  start for a hole (`vm_area_map.c:59`) and place the new area over it; the only
  search up in the kernel's map starts at the bottom (`fs.c:80`). An empty map is not
  checked for room once the address has been clamped to its limits
  (`vm_area_map.c:48`). `CallersAssumption` leaves both out.
* `allocate_contiguous_memory` takes pages by their count alone (`vm_page.c:121`),
  while `dec_page_ref` may be about to put one of them on the free list.
* `read_sd_device` returns on errors with `sd_lock` held (`sd_card.c:157`).

Hardware:

* A synchronized store that misses the TLB on its second pass would fail
  `l1_store_queue.sv:199` if the handler stored; the kernel's handler does not,
  and the L1 runs assume it (`MissOpsAssumption`).
* A synchronized load that misses the TLB toggles `dd_load_sync_pending`, so its
  restart may skip the trip to the L2 cache (`dcache_data_stage.sv:533`).
  `l1_cache` shows that atomicity survives this.

Libraries and tools:

* `parallel_execute` stores `current_index` before `max_index`
  (`schedule.c:50-51`): a worker in between compares with the old size and may take
  an index a smaller batch does not have. `current_index` then passes `max_index`, and
  workers go on with further indices after the return (run `jobs_after_return`), until
  the next batch stores 0. The batches of `finish()` shrink too, from
  tiles to the next frame's groups of vertices.
* The swap in `append` compares the index and not the bucket
  (`CommandQueue.h:69`).
* The restart flag of a breakpoint is shared by the threads (`processor.c:2063`):
  after a continue another thread may pass it unseen.
* `invalidate_sync_address` loops over the threads of all cores in the array of
  one (`processor.c:678`); right with one core, as in the run.
* Writing the interrupt masks while interrupts are enabled does not look for
  pending ones (`processor.c:1759`); programs unmask first.
* The checksum of a block covers its data and not its address (`boot.c:101`): a request
  with a damaged address is acknowledged and stored elsewhere; and after a loss a byte
  of data that is the code of a command is taken for one (`astray`).
* `send_segment` retries a block without limit (`serial_boot.c:662-690`).
* Four early timeouts with a lost byte let the host take an answer to an earlier
  request for the one it waits for (`stale`).

## 5. Proofs

Eight modules hold theorems (`QueueTheorems` only the lemmas that others share).
Each proof module defines an inductive invariant, shows that the initial states have
it and that every action keeps it, and derives the properties from it. TLC has
checked each invariant on the bounds of the runs before it was proved; a theorem
holds for every value of the constants that satisfies the module's named ASSUMEs.
These say that names are distinct, that a "no such thing" constant is none of the
things, and, where code counts members of a set, that the set is finite (threads,
hardware threads, workers); three are about the callers of the code
(`CallersAssumption`, `MissOpsAssumption`, `ProgramsAssumption`). All of them are
evaluated in the runs.

| module | theorem | states | for every |
|---|---|---|---|
| `LocksAndProcessProofs` | `Invariance` | `[]IInv` | finite set of threads |
| | `NoAssertionFails`, `OwnersCounted`, `NoWakeupLost` | asserts, owners, no lost wakeup | |
| | `Refinement` | implements `RWLockAbs` | |
| | `ProcInvariance` | `[]ProcIInv` | processes, threads, spawns |
| | `ProcessesOutliveUsers`, `ShutdownIsLate` | `[]ProcOutlivesUsers`, `NoEarlyShutdown` | |
| `ParallelJobsProofs` | `JobsInvariance`, `BatchesComplete` | `[]BatchComplete` | finite set of workers, frames |
| | `OnlyShrinkingOverrun` | an overrun begins between the two stores of a smaller batch | workers, batches |
| `SchedulerProofs` | `SchedInvariance` | `[]SchedIInv` | finite set of hardware threads, workers |
| | `ReadyQueueIsExact`, `OneProcessor`, `NobodyLost` | `[]ReadyQueueExact`, `[]OneProcessorPerThread`, `[]NoThreadLost` | |
| | `OneHardwareThreadIsSafe` | `[]NeverFails` | workers, on one hardware thread |
| `PageFaultProofs` | `FaultInvariance` | `[]FaultIInv` | finite set of threads, frames |
| | `FilePagesStayClean`, `MappingsComplete`, `PagesAreAccounted` | `[]FilePagesClean`, `[]MappedComplete`, `[]PagesAccounted` | |
| | `CachedPagesStay` | the action property `CachedPageStays` | |
| `L1CacheProofs` | `L1Invariance` | `[]L1IInv` | threads, lines, ways, lanes, values, programs, stores of other cores |
| | `CacheIsCoherent`, `LoadsAreCoherent` | `[]L1Coherent`, `[]LoadsCoherent` | |
| | `StoresAreDelivered`, `BarriersWait`, `WakeupsAreKept` | `[]StoresDelivered`, `[]BarrierWaits`, `[]NoLostWakeup` | |
| | `AssertionsNeverFail`, `SyncIsAtomic` | `[]AssertionsHold`, `[]SyncAtomic` | |
| `KernelMemoryProofs` | `TranslationInvariance` | `[]TranslationIInv` | hardware threads, maps, frames, identifiers, regions, regions with a table from boot on |
| | `FramesConserved`, `MappingsAreSeen` | `[]AsidsAndFramesExact`, `[]MappingsSeen` | |
| | `AllocationsNeverOverlap` | `[]AllocationsDisjoint` | heap size, page size, request sizes, slabs |
| | `AreasNeverOverlap`, `PlacementsAreRight` | `[]MapWellFormed`, `[]PlacementsCorrect` | word size, page size, map limits, requests that meet `CallersAssumption` |
| `EmulatorProofs` | `EmulatorInvariance` | `[]EmulatorIInv` | threads, lanes, ways, trap levels, programs of the assumed form |
| | `ProgramsResume`, `InterruptsAreDispatched` | `[]ResumesExactly`, `[]InterruptsDispatched` | |
| | `IncrementsAreCounted`, `TranslationsUnambiguous` | `[]IncrementsCounted`, `[]TlbUnambiguous` | |

### Why the invariants are what they are

**RWLock.** "Readers and a writer are never inside together" is not inductive: a
thread that has been handed the lock and has not run would be allowed in by any
counters. `CountsMatchOwners` therefore counts owners, inside or handed to.
`UnlockWrite` adds the length of `reader_wait_list` to `active_read_count`, so the
list must hold each sleeping reader once and nobody else (`WaitListsExact`);
`QueueLength` turns that into a cardinality. In the refinement, taking the lock
maps to entering, unlocking to leaving, and queueing and hand-over to stuttering.

**ProcessRefs.** Two layers. What the lists hold (`ListInv`) is true whatever the
programs do. What the counts count (`RefsExact`) is true only while nobody has
called `SYS_spawn_thread`, which takes no reference; with one thread and one
holder per process a count of one comes with an empty `thread_list`, and that is
what keeps the assert of `dec_proc_ref`. `ShutdownIsLate` needs only the first
layer.

**ParallelJobs.** "Every index ran once when `parallel_execute` returns" needs to
know of threads between reading `current_index` and taking it: none of them holds
the index at which the batch ends (`NobodyPastEnd`), and a late worker that enters
between two batches finds nothing (`QuietBetween`). `active_jobs` is the number of
workers past `enter`. All but the counting is claimed until the first overrun, which
run `jobs_after_return` exhibits and after which the claim is false.
`OnlyShrinkingOverrun` says how narrow this is: as long as no overrun has happened no
thread is past the larger of the two sizes (`Bounded`), so that the first one happens
between the two stores and only when the new batch is smaller than the last.

**Scheduler.** The queues are exact (`QueuesExact`), `cur_thread` is where each
thread really executes (`OneEach`), and `PlaceOK` says at which locations a thread
in each state can be; the reaper and the owner of the lock need a clause each
because they wake others. All of it is claimed while the machine runs: with two
hardware threads a thread may be woken before it has switched away, the finding of
section 4, and the behaviour ends there. `OneHardwareThreadIsSafe` shows that with
one the failures are unreachable: there nobody is woken while still executing
(`NotWokenEarly`), because the thread that releases the lock is the one that runs.

**PageFault.** `FilePagesClean` and `MappedComplete` depend on where each fault
under way found its page: a thread that reads the file holds the page busy
(`ReaderOK`), one that waits has a page of its own area's cache or a dummy that has
left it (`WaiterOK`), and a busy page has a reader (`ReadersOK`). `CountsOK`
relates `ref_count` to the sets of mappings, cache slots and faults that use a
frame; the one reference a failed read of the program's text loses is a term of it. All
of it is claimed until a failed read frees a page that is still cached, where the model
ends.

**L1Cache.** The parts describe one structure each and need one another.
`ResponseOK` and `CacheOK`: a way holds what the L2 cache held before the response
in stage 2, so that the write of stage 3 and the snoop of the next response are
never a cycle late. `RequestsOK`: an entry that was sent is either a request in the
L2 cache or the response in stage 2, never both, and did not change since it was
sent; this is what makes write combining safe. `WaitsOK` and `MissesOK`: a suspended
thread waits in exactly one entry, and only suspended threads wait, so that a thread
that issues has no entry of its own in the load miss queue. `OwedOK`: what a thread
has stored and the L2 cache has not done is exactly its entry's lanes. `SyncOK`:
between the two passes of a synchronized store its thread can only come back with
the same instruction, and a reservation and the value that was loaded belong
together. The proof first describes what a clock edge does to a store entry
(`StoreCases`: kept, combined, enqueued, received or cleared) and to a miss entry
(`MissCases`: opened, joined or answered), and the parts are proved from these
cases.

**TranslationMap.** Every frame has one user: it is free, a directory, a table of
one directory (or of the kernel's), a page somebody mapped, or in the hands of the
hardware thread that is about to install or to free it. The last case is what makes
the invariant inductive, because a frame belongs to nobody the other threads can see
while `create_translation_map` fills it and between `dec_page_ref`'s two halves. Tables
of the kernel made after boot are never freed and never reach the kernel's directory
(`kernel_tables`); at most the latest of a region is in directories, the others are
lost. So `MappingsSeen` promises the kernel's mappings in the regions of the boot code,
and elsewhere the latest or none.

**KernelHeap.** A block handed out and a free range are apart because the *sizes* in
the free list are right, and a size is written in one place only: when the heap grows.
The range left by a split has a size nobody wrote; pages are cleared, so it reads 0.
The invariant says that the size fields that are not 0 belong to ranges within the
heap that are apart from each other, from what was handed out and from the wilderness,
and that unwritten memory has size 0. Objects of a slab are inside its blocks, and
those on the free list are apart from those in use.

**VmAreaMap.** The invariant is `MapWellFormed` with the areas' types; the work is
in the three placements. The provers do not reason about `%` for a symbolic page or
word size, so a few lemmas first turn it into multiples: `AlignedSums` (two
different multiples of the page size are a page apart) and `Wraps` (when a sum or a
difference wraps, and to what). Each loop of the code stops at the least or greatest
index with a property, so no induction over the list is needed: an area that fits
between its neighbours is in order with the whole list (`PlacedBetween`), and a free
block lies in one hole, which the search reaches or passes only for a better one
(`SearchUpFits`, `SearchDownFits`, `InsertFixedFits`). Two comparisons are off by
one, at `vm_area_map.c:117` (one address too many) and in `insert_fixed` (the last
address of a neighbour where the one after it is meant); both are harmless, because
holes and sizes are whole pages of at least two addresses, and the proof uses just
that. `CallersAssumption` says what is asked for: at least one byte, searches for no
more than the map holds, no sum or difference of address and size that wraps, page
boundaries for exact placement. The kernel's own calls are of this form; the system
call passes a program's arguments on unchecked, so for a user space the theorem is
about programs that keep to it. Section 4 says what happens outside.

**Emulator.** A trap saves a state that is read again when the handler returns, maybe
after a second trap. A thread, or a state it saved, is in one of four places (the
start, the program, the trap handler, the handler of misses) with the flags that go
with it, and `Levelled` says which may lie under which: a miss interrupts the program
or the trap handler, the trap handler interrupts the program only, and nothing
interrupts the handler of misses, which runs with translation off. Two levels are
therefore enough (`TRAP_LEVELS >= 2`), provided the trap handler's own code and stack
are mapped (`ProgramsAssumption`), and a page fault inside it is excluded by that. For
`IncrementsCounted` the register that was loaded is followed through the scratchpads
(`ProgramReg`): while a thread holds a reservation it is the value of the counter.
`TlbOK` keeps the flags of each entry those of its page, because a global entry
matches every address space. That an interrupt is never left pending (`Served`) is kept
by every instruction that changes flags, by the devices and by a return.

### What is only model-checked

* All liveness (`EveryoneEnters`, `ProcessesEnd`, `FaultsComplete`,
  `EverythingProceeds`, `FramesFinish`, `ToolsEnd`): fairness and ENABLED are
  outside the prover.
* `RenderContext.VerticesReady`, `TilesInOrder`: what `append` and `sort` compute
  needs induction over the command queue.
* `Rasterizer.FilledOnce`: the recursive subdivision, for every triangle.
* `SerialBoot.AcceptedIsStored`: after a loss the boot loader takes whatever comes for
  the byte it expects; an invariant would have to follow every shift of the bytes of
  several requests through the line.

## 6. How to read the mutants

For every property of every passing run `PROJECT.json` names a definition and a
variant of it: a guard dropped, a wakeup forgotten, a bypass removed, a near miss
not recognised, a checksum not compared. With the variant in place TLC finds that
property violated.

## 7. Not modelled

* **L2 cache, bus interface, I/O queue, instruction fetch, scoreboard.** In
  `L1Cache` the L2 cache is an atomic memory that answers in any order; a model of
  its own pipeline (no line filled twice, no store lost between writeback and
  refill, queues that do not overflow with `L2REQ_LATENCY` requests in flight)
  would refine that and is the first candidate for an extension. The hardware TLB
  and trap levels are modelled through the emulator, against which the hardware is
  compared by cosimulation.
* **What the TLBs keep** of the page tables, contiguous memory, wired areas.
* **SD card, file system, loader, trap entry code, console, video**: device
  protocols, input formats and assembly language without shared state of their
  own, except for the lock named in section 4.
* **Arithmetic**: execution pipelines, shading, textures, the C library. This is
  data; tests compare it with the emulator.
* **Applications, benchmarks, tests**, debugger and JTAG hardware, FPGA device
  timing, build tools.

The share of the repository's lines with a model is small because most lines are
of this last kind: the game in `apps/doom` alone has about 43,000, the image in
`apps/colorbars/cb.h` 19,000 lines of data and the third-party `dlmalloc.c` 6,000.
The models cover the concurrent core that the rest relies on.
