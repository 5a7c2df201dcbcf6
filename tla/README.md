# A TLA+ model of rheo-os

rheo-os is a capability-based operating system in `no_std` Rust for three instruction
sets. This directory holds TLA+ specifications of the parts of it whose correctness
depends on orders of events that are hard to test, TLC configurations that check them on
small machines, and proofs, checked by TLAPS, that hold for machines of any size.
Paths below are relative to the root of the repository; `PROJECT.json` maps every
definition to the lines it models.

- [The system](#the-system): its parts and how they interact
- [Modules](#modules): state and actions against the code
- [Runs](#runs): what TLC checks, with which bounds
- [Fairness](#fairness)
- [Proofs](#proofs)
- [Where code and documents disagree](#where-code-and-documents-disagree)
- [Behaviour worth knowing that no run checks](#behaviour-worth-knowing-that-no-run-checks)
- [Not modelled](#not-modelled)
- [Plan](#plan)

To repeat a run or a proof, in this directory:

    tlc -workers 2 -config MCVaSpace.cfg MCVaSpace
    tlapm VaSpaceProofs.tla

## The system

A *cell* is an isolated program with its own address space, capability table, queue pair
and one or more execution contexts (*vcores*). The kernel is allocation-free: its tables
grow by frames charged to the cell they serve. A cell enters the kernel by a trap, which
runs to completion; on one CPU the contexts of all cells are scheduled cooperatively, with
an optional timer preemption. Inside a cell, *strands* (futures) are driven by one
executor per vcore.

| Part | State | Operations | What is hard about it |
|---|---|---|---|
| Capability core, `kernel/src/capability` | object table with epochs; per cell a table of slots with rights, budget, generation | mint, derive, delegate, drop, revoke, use; copied at a fork, cleared at teardown | rights through long chains; handles kept past the life of their slot; revocation in between |
| Frame pool, `kernel/src/mm/frames.rs`, `bitmap.rs`; copy-on-write, `mm/mod.rs` | bitmap, one-byte reference counts, NUMA ranges; a lock, one request slot per CPU, a pending mask | alloc, free, share, break copy-on-write, contiguous alloc, each run by its caller or by whoever holds the lock | publish, claim and withdraw race; counts at their limit; pages shared by two CPUs |
| Address-space layout, `mm/vaspace.rs` | table of regions, high water mark, hint, ceiling | place, place in a window, fix, release one, release a range, fund, reset | partial releases; growth that fails halfway; what the scans do not see |
| Cell memory calls, `user.rs`, `mm/grant.rs` | page tables, grant records, frame charge, over the three above | mmap, munmap, grant create/share/seal/commit, reserve | several resources taken in turn, and given back on failure |
| Native processes, `nproc.rs`, with `idle.rs`, `input.rs`, `net_rx.rs` | process table, one entity and one wait record per context, arbiter slots | spawn, wait, sleep, read, receive, yield, switch, preempt, exit, fault; wake, pick, idle | who is woken for what; one timer slot for many sleepers; everyone waiting |
| Scheduler entities and SMP, `sched/entity.rs`, `vcore.rs`, `smp.rs` | owner and occupant of every entity; claim cursors | claim, enter, leave, park, wake, steal, exit | two CPUs in one entity |
| Timer arbiter and wheel, `ktimer` | a deadline per client; buckets of timers by level | register, cancel, service, park; arm, cancel, advance, cascade | a halt nothing will end; stale handles; level boundaries |
| Queue pair, `kernel/src/queue`, `librheo/src/sys.rs` | submission and completion ring | submit, doorbell, drain | a full completion ring |
| Strand executor, mutex, channel, `runtime/src` | slab, ready queue, tokens; waiters; buffer | spawn, poll, park, complete, join; lock, unlock; send, receive | completion before park; slots reused; futures dropped while they wait |
| Cell reactor, `librheo/src/rt.rs`, `time.rs` | one request slot per kind of blocking call | block_on, the waits, timeout | two strands and one slot; a timeout against the call it guards |
| Linux personality, `kernel/src/linux` | threads, futex words, descriptors, pipes, processes | futex, clone, exit, read, write, fork, exec, wait | timeouts against wake-ups; the last thread; the last end of a pipe |
| Network stack, `net/src` | connections, timers, caches | segments, retransmission, the protocols' clients | loss, duplication, reordering |
| Observability, `kernel/src/obs` | single-writer rings | push, read from another CPU | torn records |
| Hardware graph and drivers, arch layer, boot, loader, entropy, terminal, tiles, file systems, POSIX, JSON | | | parsing, arithmetic or hardware |

They interact like this. A system call names a capability by a handle; the capability core
says whether the cell may. The memory calls take addresses from the layout, frames from
the pool, and records from the cell's budget. A blocking call parks its context in the
native scheduler, which arms the timer arbiter and idles the CPU. Completions come back
through the queue pair or as the return value of the blocking call, and the reactor turns
them into wake-ups of strands.

## Modules

### Capability

`Capability.tla` has the object table and the tables of all cells, and one action for each
way they change: `LauncherMint` and `Boot` (a launcher installs the first cells),
`SysGrant`, `SysReserve`, `SysUse`, `SysCapDerive`, `SysCapRevoke`, `SysCapDrop`,
`SysMunmap`, `SysGrantShare`, `Spawn`, `SpawnUnwound`, `Fork`, `FreeCell`, and the kernel's
own `DeriveSubset` and `Delegate`. One trap is one step, because it runs to completion on
the only CPU that touches the tables. Handles exist in both widths: 64 bits with the whole
generation, and 32 bits with `GenModulus` = 2^16 of it. `ceiling` (the rights a cell was
ever given) and `dead` (handles whose capability is gone) are history variables that no
guard reads.

Data abstracted: rights are a set; an object is its id, kind and epoch; the address range
of a grant is not there (that is the layout's), only its record's handle.

### Frame pool: FrameClient, FramePool, FrameCombining, FrameLending

`FrameClient.tla` has the bookkeeping primitives that run under the pool lock, as operators
from pools to pools, and the callers: mappings that hold references and the calls they
make, copy-on-write included (`cow_fault` copies outside the lock, frees the old frame,
then rewrites the entry: three steps). `FramePool.tla` is the promise: a call takes effect
once, atomically, between its start and its return. `FrameCombining.tla` is the protocol of
`fc_run`, `fc_slow`, `fc_publish_and_wait` and `fc_drain`, one shared access per step, and
instantiates `FramePool` under the mapping `CallSeen`: a published request that a combiner
has executed counts as done before its publisher has read the result.

The callers of `FrameClient` take a reference with every mapping: demand paging, `fork` and
copy-on-write do. Two things in the tree do not. A sealed grant shared with a peer
(`share_ro_into`, from `user.rs:1987`) and a channel a child inherits or a launcher wires
(`share_rw_into`, from `nproc.rs:421`; `load::map_channel_into`) map another cell's frames
without `frames::share`; `free_user_frames` at the exit of the cell that borrowed them
(`nproc.rs:958`) frees them nevertheless. `FrameLending.tla` adds those two steps,
`share_into` and `exit_borrower`, to `FramePool`. `RefsAreHolders`, `PoolConsistent` and
`WritableIsPrivate` are about the pool without them; with them they fail (finding 2).

Memory is sequentially consistent in the model. In the code a slot's argument and result
are handed over by release stores and acquire loads of its `req` word, and the pool itself by
the lock, so only the relaxed loads of the pending mask may see old values; an old value
there misses a request, which the model also allows, since the load may come before the
publication. The spin bound `FC_SPINS` is a nondeterministic choice to
withdraw at any poll.

### NativeProc

`NativeProc.tla` models the whole of the native scheduler on one CPU. `cpu.at` is where the
kernel is: in user mode, waking (`wake_satisfiable`), picking (`reschedule`,
`preempt_pick`), idling, or waiting inside a trap; `done`, `deadlock` and `panic` (the
assertion of a `SYS_SWITCH` without a peer) end the run. The
calls of a cell are actions named after the functions; the clock, the console and the NIC
are `World`. A return register holds `UNSET` from the moment a call parks until something
completes it, and `HANDED` from a `SYS_YIELD` or `SYS_SWITCH` that hands the CPU on: nothing
writes it then. That is how the model sees a context resumed without its answer. A `boot` fixes which
cells are launched, how many contexts they have, and which calls each makes: this is what
keeps the runs small and what states the assumptions of each property.

### Strand and Reactor

`Strand.tla` has the executor of one vcore as a record, and each of its methods as an
operator. `Reactor.tla` composes it with the async mutex, the channel, the queue pair, the
blocking requests, a peer cell and `timeout`. A strand runs from one await to the next in
atomic operations, of which its program allows some, in any order. The completion ring drops
what does not fit, as the code does.

### VaSpace

`VaSpace.tla` has every operation of `VaSpace` in page units. The first-fit scans are
recursive functions with the code's jumps: `reserve` makes its two passes around the hint,
`reserve_in` jumps past the regions that meet the span. `release_range` computes heads,
tails and holes, and needs one record for the tail of a hole; `fund` may be refused at
every point where the code funds. Of a region's kind the model keeps whether the allocator
or the caller chose the place; tags are left out (the allocator never reads them).

### Proof modules

`CapabilityInvariant`, `CapabilityProofs`, `FramePoolProofs`, `FrameCombiningProofs`,
`VaSpaceProofs` extend
their component and TLAPS. The `MC*` modules give constants and programs for TLC.

## Runs

| Run | Checks | Bounds, and why they are enough |
|---|---|---|
| `capability` | types; `Attenuation`; `RevocationIsFinal`; `StaleHandlesFail`; `StaleLow32HandlesFail`; `SharedAttenuation`, `SharedRevocationIsFinal` across cells | one launched cell and a slot for a child, two objects, two capability slots each, three mints a slot: a slot is reused twice, a child slot is reoccupied, a table is full. Or two launched cells, one object: shares and delegations both ways against drop and revoke |
| `capability_metering` (violation) | `MeteringNotEscapable` | finding 1 |
| `frame_pool` | types; `PoolConsistent`; `RefsAreHolders`; `WritableIsPrivate` | two CPUs, three mappings, three frames, one described NUMA node, counts up to 2: sharing reaches the ceiling, the pool runs out, a contiguous pair does not fit |
| `frame_lending` (violation) | `NeverFreedTwice` | finding 2 |
| `progress` | types; `CombiningIsAtomic` (refinement of `FramePool`); `CallsReturn`; `SleepersRun`, `WaitersRun` | two CPUs over one frame with every operation: each is publisher and combiner, withdraws and is served. Apart from it, a native parent and its children, none of which polls |
| `nproc` | `ResumedWithAnswer`, `EntersRunnable`, `ArmedForNearest`, `NeverDeadlocks`, `InTrapOnlyWhenAlone`, `SleepsInFull`, `ExitCodeIsDelivered` | four boots with up to three cells or two cells of two contexts, one shared arbiter slot, deadlines up to 2, one byte, one frame: sleepers with different deadlines, slots reused by a second child |
| `nproc_yield_woken` (violation) | `ResumedWithAnswer` | finding 3 |
| `nproc_yield_answer` (violation) | `YieldIsAnswered` | finding 4 |
| `reactor` | types; `StrandsInPlace`; `OneGuard`; `NoLostWakeup`; `NoPanic`; `Returns` | seven programs of three strands with two operations each, rings of depth 1: slots are reused, rings are full, futures are dropped while they wait |
| `reactor_timed_lock` (violation) | `UnlockWakes` | finding 5 |
| `reactor_two_sleepers` (violation) | `SleepsAreKept` | finding 6 |
| `vaspace` | types; `NoneForgotten`; `NoOverlap`; `GuardGaps`; `ReleaseExact` | six pages, guards of one, three records, lengths 0 to 2, two alignments, two windows, two ceilings: holes, full tables, clipped guards; 39 148 states |

`NoLostWakeup`, `NoPanic` and `Returns` assume what the comments of `rt.rs` state as limits
(`Disciplined`: one strand per kind of blocking request) and that no timeout is around a
lock; findings 5 and 6 are what happens outside these limits. Where deadlock checking is
off (the capability runs), the bounds on objects and generations end the behaviours.

## Fairness

- `FrameCombining`: each CPU inside `frames::` keeps taking steps. It has no call to make
  that could stop it, and a spinning publisher passes `FC_SPINS`. `CallsReturn` leaves out
  the CPU that is overtaken for ever: the lock is a test-and-set.
- `NativeProc`: kernel steps are taken, time passes, and a running cell comes to a call
  that gives up the CPU. The last is an assumption about programs, not about the kernel:
  without preemption a cell that never calls keeps the CPU (`abi/src/lib.rs:261`).
- `Reactor`: the vcore runs and a blocking call returns; the peer cell does not leave its
  side of the channel alone for ever, which needs strong fairness because the ring it uses
  is only sometimes ready.

## Proofs

All proofs are for every value of the constants under the named `ASSUME`s of the
component modules, which say no more than that a number is natural, or positive.

**Capability core** (`CapabilityProofs`). `TypeCorrect`, `AttenuationHolds`,
`RevocationHolds`, `StaleHandlesHold`, `StaleLow32HandlesHold`: the run's five properties.
None of the last four is inductive. `IInv` adds: a slot in use was written at epoch 0
(so one revocation kills it, and it cannot be revived); a dead handle is older than what its
slot holds (so it never matches again); a grant record names a capability with READ or one
already gone (a share copies from it); an empty cell slot has no grant records (or the next
occupant would inherit them); epochs are 0 or 1. The lemmas `InPlacePreserves`,
`MintIntoPreserves` and `ReplacePreserves` say what a step has to do to keep it when it
changes slots in place, mints into one slot, or replaces a whole table; each action is then
shown to be one of the three. The theorems assume `MaxGeneration < GenModulus`: a slot is
reused fewer times than a 32-bit handle counts. Only the 32-bit form needs that (below), but
`GrantRecords`, on which attenuation rests, is about 32-bit handles.

**Frame pool** (`FramePoolProofs`). `PoolTyped`, `PoolStaysConsistent`, `CountsAreHolders`,
`WritablePagesArePrivate`: the run's four properties, for callers that take a reference
with every mapping. That the count is a cardinality makes no step obvious: `HoldersBecome`
gives the holders of a frame after a step as the old ones with the slots of one call and
its mappings replaced, and `SwapCard`, `HandOver` and their like say what that does to the
count. `IInv` adds what a call in progress knows of its mappings (`CallsFit`), that a mapping is in one
call at a time (`OneCall`), that a break is of a page that cannot be written, and `Owned`: a
frame held by a writable entry, a private copy or a fresh allocation has no other holder,
but for the fork that is about to take the write access away.

**Flat combining** (`FrameCombiningProofs`). `Combining`: `Spec => CombiningIsAtomic`, the
refinement of the atomic pool, for any number of CPUs, mappings and frames. The invariant
`PInv` says that only the lock's holder combines, how far a call has come by where its CPU
is, that a published slot carries the arguments of its caller's call, and that a claimed
slot is claimed by the one CPU that serves it. Then every step is a call, a return, an
execution or a stutter of the abstract pool; executions are the two lines where
`fc_execute` is called.

**Address-space layout** (`VaSpaceProofs`). `TypeCorrect`, `NeverForgotten`,
`NeverOverlap`, `AlwaysGuarded`, `AlwaysExact`: the run's five properties. No overlap alone
is not inductive: a live region above the high water mark would be invisible to the scan
that places the next one. `IInv` is the conjunction of the first three. `PutSound` and
`ShrinkSound` carry the argument: writing a region that meets none into a free slot, and
shrinking regions in place, keep the table sound. No fact about what the recursive scans
compute is needed beyond the check the code makes on their result.

Only model-checked: all liveness (`CallsReturn`, `SleepersRun`, `WaitersRun`, `Returns`),
which is out of the prover's reach together with `ENABLED`; `NativeProc`; and `Strand` and `Reactor`. What a recursive definition computes for every
input needs induction, which the installed provers cannot instantiate.

## Where code and documents disagree

1. `derive_subset_low32` lets a child have the parent's whole remaining budget without
   charging the parent (`capability/mod.rs:538`); the comment at `:535` says metering would
   otherwise be escapable by deriving. Run `capability_metering`.
2. A frame mapped into another cell as a shared grant or a channel takes no reference, and
   that cell's exit frees it (`mm/mod.rs:372-428`), so the owner's release hits the "double
   free" assertion; `user.rs:1926` says "its frames owned by the client, so never freed
   twice". Run `frame_lending`.
3. When both contexts of a cell are woken at once and one of them yields, the other is
   entered without its call having been completed (`nproc.rs:765`), the defect
   `docs/EXECUTION-MODEL.md:20` records as fixed. Run `nproc_yield_woken`.
4. A `SYS_YIELD` that hands the CPU on writes no return register (`user.rs:3552`), so the
   caller resumes with what it called with: the call number on x86-64, its first argument on
   the others. `abi/src/lib.rs:291` says "`yield_cell()` -> 0". Run `nproc_yield_answer`.
5. A lock future dropped by a timeout leaves its token among the mutex's waiters, and the
   next unlock wakes it instead of a strand (`runtime/src/lock.rs:110`; "wakes the next
   waiter", `:83`). Run `reactor_timed_lock`.
6. `set_timer` overwrites a pending request (`librheo/src/rt.rs:170`), so the first of two
   sleeping strands is never woken; `docs/NETSTACK.md:2889` says they interleave. Run
   `reactor_two_sleepers`.

## Behaviour worth knowing that no run checks

Seen while modelling. Where a property would fail because of one of these, it is stated, or
checked, for the cases in which it does not arise.

- `nproc.rs:1029` wakes every waiter of an event. Of two contexts waiting for one byte the
  second reads 0 (`input.rs:342`), which is also what end of file reads as; of two receivers
  the second is answered 0 before its deadline, where `nproc.rs:60` says "the frame length or
  0 at its deadline"; and of two contexts waiting for one child one gets no code (`nproc.rs:558`,
  `:1228`).
- `nproc.rs:773`: a yield does not look for waits that are over. Two cells that only yield
  to each other starve a sleeper.
- `nproc.rs:713`: `can_reschedule` looks at context 0 of the other cells.
- `nproc.rs:140`, `:681`: a context whose wait record could not be funded parks all the
  same, and nothing wakes it; the comment says it "stays runnable and retries rather than
  parking on a condition nobody would remember". Every boot checked funds its records.
- `user.rs:3504`: `SYS_SWITCH` enters a peer that is parked; I3 of
  `docs/EXECUTION-MODEL.md:362` excludes it. Without a peer it stops the kernel.
- `capability/mod.rs:95`: after 2^16 reuses of a slot an old 32-bit handle names the new
  capability.
- `lock.rs:5`: the mutex "hands off", but a third strand may take it before the woken one
  runs (`OneGuard` holds; order does not).
- `rt.rs:640`: a console read blocks the cell before a timer is armed, so a timeout around it
  fires only after a byte has come.
- `vaspace.rs:458`: `reserve_in` skips places that fit. With guards of 4, place one page
  (at 1), place another (at 6), release the first, place two: they land at 13 although 11
  fits, since the jump looks at what meets the span, not its guards. Beside a full window it
  can answer `Overlap` for a gap that is large enough.
- `vaspace.rs:352`: after `set_ceiling` below the hint, the second pass of `reserve` may
  place above the ceiling; `:193` calls the hint one that correctness never depends on.
  Nothing calls `set_ceiling` yet.
- `vaspace.rs:350`: `reserve` may answer `Exhausted` for a gap that straddles the hint.
- `vaspace.rs`: `release_range` of length 0 inside a region splits it; `reserve_fixed` takes no notice of
  guards; the ceiling clause of `invariant_holds` fails once a ceiling has been lowered.

## Not modelled

`PROJECT.json` lists every part with its reason. In short: the memory calls, SMP, the
timer wheel, the Linux personality, TCP and the observability ring are state machines and
are on the plan; the policies (BORE, heterogeneity, congestion control) are numeric; the rest
is parsing, codecs, floating point, register-level drivers and assembly.

Within modelled parts: weak memory orderings; several CPUs outside the frame pool; the
word-at-a-time search of the bitmap; ELF loading and argument copying within a spawn (one
step that may fail); several vcores on one injector; what the opcodes of the queue do to
files and devices; statistics and counters kept as evidence for tests.

## Plan

In order of what a failure would cost.

1. **CellMemory**: the calls of `user.rs:1274-2218` composed from the layout, page tables,
   grant records, capability mints and the frame charge. Property: a refused call leaves
   every resource as it was; what is mapped, recorded, charged and placed agrees. Hazards
   at `user.rs:1693`, `1801`, `2000`, `2081`, `2125`. Abstract specification: the set of
   resources a cell owns, changed atomically.
2. **Entities**: `sched/entity.rs` and the claims and steals of `smp.rs` on two or three
   CPUs, against invariants I1 to I9 of `docs/EXECUTION-MODEL.md`, with a proof of I1 and I3
   for any number of CPUs. `claim` overwrites the owner without looking for an occupant
   (`entity.rs:454`), and the claim cursors run past the end of their group
   (`smp.rs:1307`).
3. **TimerWheel and arbiter**: every armed timer fires, once, not early and at most a tick
   late; cancel touches one timer; a halt always has something to end it. Composed with the
   sleep path of `NativeProc`. Where it bites: the one-shot that fires between the
   re-arm and the halt (`ktimer/mod.rs:427`), and a cascade at a level boundary
   (`ktimer/wheel.rs:590`).
4. **LinuxThreads**: futex, deadlines, exit and the process-level waits, with pipes as the
   blocking source; on the pattern of `NativeProc`. A deadline against a wake-up
   (`linux/thread.rs:1128`), a cell all of whose threads wait (`:1023`), and a pipe whose other end goes
   away (`linux/pipe.rs:261`).
5. **ObsRing**: the single-writer ring, word by word, and its reader. The writer stores the
   sequence word last (`obs/ring.rs:269`), so a reader of the oldest record can see new
   payload beside the old number.
6. **TCP** connection against a peer over a lossy link, with sequence numbers modulo a small
   power of two.

Theorems to come: the pool's invariants, through `Combining`, for flat combining; `StrandsInPlace` and `OneGuard` for any number of strands;
`EntersRunnable` for `NativeProc`; the entity invariants.

The modules of the plan will bring more hazards than `PROJECT.json` lists now; for the parts
not yet modelled it has the one that matters most of each.
