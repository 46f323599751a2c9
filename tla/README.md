# ENGAGE: a verification project for the battery-free Game Boy

ENGAGE runs a Game Boy emulator on an Ambiq Apollo3 without a battery. Power
may fail at any instruction. The only memory that survives is the FRAM (and the
flash). The software in `src/software` keeps the game alive by checkpointing
volatile state to FRAM and restoring it at the next boot. This directory
models that software in TLA+, checks the models with TLC, and proves the
central results with TLAPS.

All paths below are relative to `src/software`.

## 1. The system

| Component | State | Operations | Talks to |
|---|---|---|---|
| Checkpoint core, `libs/mpatch/checkpoint` | NVM: `lclock`, two slots each for `.data`, `.bss`, stack and registers, `code_id`. Volatile: `checkpoint_svc_restore` | `checkpoint`, `checkpoint_restore`, `checkpoint_onetime_setup`, `..._set_availible`, `..._invalidate` | called by `main()` and `emulatorRun()`, calls every component listed in `checkpoint_content.h` |
| BLISS allocator, `libs/mpatch/bliss_allocator` | NVM: two allocator records, the links in each block. Volatile: the active record | alloc, free, store, extract, checkpoint, restore | called by MPatch |
| MPatch, `libs/mpatch/mpatch` | NVM: two clocks, two chain origins, the patches, the deletion record, two copies of the pending slots. Volatile: pending slots, the interval tree | stage, core checkpoint, core restore, sweep, delete, recover, apply | reads `lclock`; uses BLISS |
| Memory tracker, `libs/memtracker` | `regionTracker`, the MPU's regions and subregion bits | `initTracking`, the MemManage fault, `checkpoint_memtracker` | stages the written regions through MPatch |
| Emulator loop and JIT trigger, `libs/emulator`, `libs/jit` | `jit_checkpoint`, `jitCheckpointcount` | `emulatorRun`, the ADC interrupt | calls `checkpoint()` |
| Boot, `apps/emulator/main_emulator.c`, `config/startup_gcc.c` | - | clear, invalidate, read a cartridge, restore, first boot | drives everything above |
| Buttons, `libs/buttons` | `GB.key`, two release timers | GPIO and timer interrupts | write a checkpointed variable |
| Cartridge reader, `libs/cartridge` | the ROM image in flash, its size | read, header check, the bus | called at boot |
| FRAM driver, `libs/fram` | the completion flag, what the initialisation achieved | init, shutdown, blocking and queued transfers | external HAL |
| Display, `libs/display` | line buffer | queued line transfers | external HAL |

What makes this code hard: a power failure may come between any two writes to
NVM, during a restore and during the recovery from an earlier failure; some NVM
structures are double buffered (clock parity selects a copy) while others (the
links inside blocks and patches, the deletion record) are updated in place; the
clocks are eight bits wide; interrupts write state that a checkpoint copies or
a caller waits for; queued transfers read their buffer later. Nothing of this is
reached by the unit tests in `libs/mpatch/test/unit`, which call the functions
one after the other on a host and simulate a failure only between complete
calls.

What makes each component correct:

* Checkpoint core: a restore continues from the last committed checkpoint and no
  other, exactly in all that only the program writes; what interrupts write may be
  of any moment between the begin of that checkpoint and its commit. The slot a
  restore reads is never written.
* BLISS: an uncommitted allocation or free does not disturb the committed free
  list or the committed lists; no block is lost or in two places; what is copied
  into a list is what comes out.
* MPatch: a replay of the committed chain yields the memory of the last commit
  at every point of staging, sweeping, deleting and recovering; blocks are
  accounted for; walks end; no write to a slot's range is left out.
* Memory tracker: no region is written without being staged, and the write that
  faulted goes through.
* Emulator loop: persistent triggers lead to checkpoints.
* Boot and cartridge: a game finds the ROM it was started with, and all of it.
* Buttons: every key is released.
* FRAM driver: the flag a caller waits for tells of its own transfer; memory is
  mapped only when the device was identified.
* Display: what the game asked to be shown is shown.

## 2. Modules

| Module | Models | Theorems in |
|---|---|---|
| `AtomicCheckpoint` | what a checkpoint library promises: the abstract specification that `CheckpointCore` and `MPatch` implement | |
| `CheckpointCore` | checkpoint core and the part of `main()` that drives it | `CheckpointCoreProofs` |
| `BlissOps` | the allocator's functions, shared by `Bliss` and `MPatch` | `BlissOpsProofs` (lemmas) |
| `Bliss` | the allocator under failures with MPatch's discipline as client | `BlissProofs` |
| `BlissData` | the copies into and out of a list of blocks | `StagingProofs` |
| `MPatch` | the chain of patches with the allocator inside it and memory around it | `MPatchProofs` |
| `PatchApply` | the walk over a chain with its interval tree, as replay and as sweep | `PatchApplyProofs` |
| `MPatchSlots` | the pending slots, their ranges, and the staging loop with its retry | `StagingProofs` |
| `MemTracker` | MPU, fault handler, staging of what was tracked | `StagingProofs` |
| `EmulatorLoop` | `emulatorRun`, the ADC interrupt, resets and restores as the loop sees them | `DeviceProofs` |
| `Device` | `main()` around `EmulatorLoop`: the buttons at boot, the cartridge copy, the game in flash | `DeviceProofs` |
| `Buttons` | the two interrupts and the release timers | `UnitsProofs` |
| `Mspi` | the FRAM driver | `UnitsProofs` |
| `Display` | the line buffer and the queue of writes | `UnitsProofs` |
| `CartridgeBus` | the bus protocol through port expanders, and the bank loop | `UnitsProofs` |
| `Units` | seven of these side by side for TLC | `UnitsProofs` |
| `MCCheckpointCore`, `MCPatchApply` | values and symmetry for TLC | |

### AtomicCheckpoint

`mem` is the running image (a set with at most one member, empty without
power), `saved` the image a restore would continue from. `Take` saves the whole
image in one step; `Fail` loses it; `Continue` brings exactly it back. What an
image is differs: for `CheckpointCore` the registers and the components that
interrupts do not write, for `MPatch` the memory the tracker covers.

### CheckpointCore

`nvm[slot]` holds the copies of the N memory components (pieces of `.data`, `.bss`,
the stack and the patches, in the code's order) and of the registers. The registers
are represented by `site`, the call of `checkpoint()` a restored run returns from:
`main` or the emulator loop. `CHECKPOINT_CONTENT` is the loop of `SaveComponent`
steps followed by `LatchRegisters` (SVC 42) and `SaveRegisters`; `Commit` is
`lclock += 1`. `OutOfMemory` is the endless wait of MPatch's share, the last of the
components, which is otherwise modelled in `MPatch`. A restore is `RestoreComponent`
for each component, `RestoreEmulator` and `RestoreRegisters` (SVC 43), after which
the program continues *behind SVC 42* with `checkpoint_svc_restore` set: `Resume`.
`PowerFail` may come at any step; if it interrupts a copy that copy is torn
(`TornCopies`), that is, it holds any value. `Invalidate` is the player's reset or
a newly flashed firmware. `PromptForGame` is `emulatorSetup` without a game in
flash.

Interrupts are never disabled during `checkpoint()`, and `am_gpio_isr` and
`am_ctimer_isr` write `GB.key` (`buttons.c:34`, `138`), which is checkpointed. The
components in `Shared` are those that interrupts write: `Interrupt` changes one at
any point where `InterruptsOn`, that is, from `buttonsConfig` on, which a first boot
calls before it sets up the application and a restore after the memory is back but
before the registers are (`checkpoint_content.h:41-42`). The copy of `.bss`
is not atomic, so each of the two key codes is a component of its own; it is one
byte, which no interrupt can tear. The rest, `Private`, is written by the main loop alone
(`Work`) or is state that is set up anew by a restore (the drivers in
`restore_emulator`, the norestore sections) and of which the copy does not matter.

What a checkpoint promises under these writes is said with two history variables.
`seen` collects the values each component holds from the begin of `checkpoint()` to
its commit, and `golden` is `seen` at the last commit. For a private component this
is one value; for a shared one a copy may hold any of them, and two shared components
may be copied at different moments.

### BlissOps, Bliss and BlissData

`Pop`, `InitNext`, `InitCount`, `FreeNext` and `Push` are the bodies of
`bliss_alloc_block` and `bliss_free_block` as functions of the allocator
record. A null pointer is `Nil`, which is distinct from the index one past the
last block that lazy initialisation writes. `Bliss` performs one block
operation per step. The history variables `pool` and `committed` say, as
sequences, what the free list and the client's lists ought to be. The client is
MPatch: it allocates only while it has freed nothing since the last commit
(`AllocPhase`) and frees only committed lists. Both are facts of
`mpatch_sweep_delete_obselete` and `mpatch_sweep_delete_uncommitted`, which
commit before anything is allocated again. The discipline is needed: without it
`CommittedPoolIntact` fails (the mutant `AllocAnyTime`).

In `BlissData`, `Store` and `Extract` are one `memcpy` each; `Length`, `InBlock`
and `InBuffer` say what the j-th copy of a transfer covers, for both directions
alike, as in the code. Bytes are numbered, so that a byte in the wrong place
shows. `ExactFits` admits transfers of several blocks that end where a block
ends (section 5).

### MPatch

A patch is one subregion of the memory tracker: 512 bytes and a header, which
fit one 600-byte block (`bliss_allocator_cfg.h:14`), so that a chain of patches
is a chain of blocks and the allocation of a patch is one `Pop`. Each write to
NVM that a later boot can observe is a step: filling a patch and linking it are
two (`StageAlloc`, `StageLink`), saving the allocator and advancing the restore
clock in a sweep are two (`SweepSave`, `SweepPublish`), and a deletion is three
(`PrepareDelete`, `PerformDelete`, `CommitDelete`). The walks over the chain
(`mpatch_apply_patch_chain`, `mpatch_apply_uncommitted_chain`) are one loop with
a step per patch: `WalkPast` for a patch the pass leaves alone, `FreePatch` in
the freeing pass, the deletion steps in the deleting pass. Ranges are equal or
disjoint here, as the tracker produces them, so a patch is obsolete exactly when
a newer one for its region has been seen. What happens to a patch on a walk is
decided in `MPatch` by its region alone; `PatchApply` shows what the interval
tree really decides, for any ranges.

The whole of `mpatch_core_restore` is one step: it copies the committed
origin and allocator to the other slot and nothing reads that slot before the
copy is complete, so a failure in the middle is the same as one before it.

Three constants bound or restrict the behaviours:

* `ClockMod` is the range of both clocks (256 in the code). It must be even,
  so that parity survives the wrap.
* `IdleLimit` is the number of consecutive checkpoints that find no region
  written. A running game always writes; with `IdleLimit >= ClockMod - 1` the
  clock wraps onto the newest patch (run `mpatch_wrap`).
* `Exposed` names the recovery windows in which power may fail. The passing runs
  leave both closed (section 5 says why), the violation runs open one each.

### PatchApply

The chain is a sequence of blocks, the fields `left`, `right` and `max` of the
patches are functions that survive from walk to walk and from owner to owner of
a block, as in FRAM. `Search` and `Insert` are the two tree functions, `Written`
and `Applied` what the recursion of `mpatch_apply` writes and returns. A replay
writes; a sweep walks twice (`free`, `delete`). The history variable `latest`
holds the patch staged last for each address. Failures are not in this module.

### MPatchSlots

The level above the chain: an application gives a slot a range
(`mpatch_new_region`, `mpatch_modify_region`), enables it and writes to it;
`mpatch_stage_cond_retry` visits the slots one by one. What the chain does
with a patch is abstracted to one unit of `room`; a sweep gives back any number
of units. `unsaved` records what was written in each slot's range since a patch
of it was stored, and `skipped` the slots a staging passed off as done.

### MemTracker

`mpu`, `enabled`, `srd` and `rnr` are the MPU's registers. A game's write to a
protected subregion becomes `writing` and takes the fault handler's steps:
count, RASR off, RASR on without the subregion, repeat the instruction, which
faults again if it is still protected. `StageDefault` is the staging of all the
memory before the first checkpoint, `StageTracked` that of every later one.
A patch is the content of its subregion, since `MPatch` shows what becomes of
patches.

### EmulatorLoop and Device

`jit_checkpoint` and `jitCheckpointcount` live in the norestore sections:
`Reset` initialises them and no checkpoint saves them. `AdcIsr` may come between
any two steps once `JitSetup` has enabled it and while the supply is `low`.
`Continue` returns from the `checkpoint()` call that was restored: to the loop's
first step or to line 95, where the flag is cleared. `Checkpoint` is one step,
since only its commit matters here.

`Device` puts `main()` before the loop. Each action of `EmulatorLoop` is a
conjunct of an action of `Device`, so that the device implements the loop by
construction of its steps (`DeviceImplementsLoop`). The two samplings of the
buttons, the header check of the game in flash, and the copy of a cartridge are
actions of their own, with power failures in between. A unit of flash is one
16 KB bank, programmed as two pages; the header is in the first page of the first.

### Buttons

One `timer` per group of keys. `processPress` restarts the timer if the key that
is pressed is the one already held and otherwise starts it, which does nothing
to a timer that runs or has expired. All keys are compared with `code_btn`, as in
the code, so that for cursor keys either outcome is possible (`SameCode`).

### Mspi

`InitSteps` and `DeinitSteps` list the calls of the vendor's functions in order;
any may fail (`InitCallFails`, `DeinitCallFails`). The queue of transfers and the
interrupt are external: transfers end in order, high priority ones first, with or
without an error. A transfer is its callback and whether it is the waiting
caller's `own`.

### Display

A write in the queue is the next line and the number of lines left. `SendLine`
reads the buffer when the line is sent, not when the write was queued. The line
addresses are the bit-reversed bytes of `reverseBitsTable`, and `PanelLine` is
the panel's reading of them.

### CartridgeBus

The operations on the port expanders are lists of register writes and samples
(`WriteData`, `ReadData`, `SwitchBank`), executed one per step, with the
cartridge's bank controller as the external party that sees every intermediate
state. A `Sample` reads what the cartridge shows for the expanders' address and
control registers as they are at that moment (`DataLines`), not for the address the
operation was called with; while RDn is high or the two halves of the address differ
that is no bank at all (`NoBank`).

### Units

The seven components that share no variable with each other are in one state
space for TLC: `active` chooses one in the initial state, and the others keep
their initial values. A property of a unit therefore means the same as in a run
of its own, and its theorems are about its own specification; the theorem
`UnitsImplementEach` says that a behaviour of the whole is one of each unit.

## 3. What is checked

| Run | Instance | Shows |
|---|---|---|
| `core` | 3 components, the second written by interrupts, 2 contents, clock of 4 values | restores are consistent; the restorable slot is stable; validity implies a slot of one committed checkpoint; boots end in the application or in one of the two endless loops; refinement of `AtomicCheckpoint` for what interrupts do not write |
| `bliss` | 4 blocks, lists of up to 2 | committed and running pools stay whole; an allocation never fails half way |
| `mpatch` | 3 blocks, 2 regions, 2 contents | committed memory intact, blocks accounted for, boots end, refinement of `AtomicCheckpoint` |
| `mpatch_rounds` | 2 blocks, 1 region, clock of 8 values, up to 3 idle checkpoints | restores exact through several rounds of the clock; two blocks per region are enough |
| `patch_apply` | 4 blocks, 3 addresses | a replay writes each address from its newest patch; a sweep deletes no needed patch, both its passes agree, and no patch stays that an equal range makes obsolete |
| `device` | skip of 5, ROM size codes 0 to 3, bank counts modulo 16, 4 units of flash | which game a boot runs, that it is whole, that requests for checkpoints are answered |
| `units` | see below | the seven units |
| `bliss_exact`, `mpatch_slots`, `mpatch_sweep_window`, `mpatch_recovery_window`, `mpatch_wrap` | the above with one restriction lifted | disagreements, section 5 |

The instances in `units`: buttons A, B, Start and Up; an MPU of two regions with
two subregions each and two contents; blocks of 4 bytes and lists of up to 3 of
4 blocks; two slots, two addresses, room for one patch, three calls of the
application; three lines, a bar of two, a queue of two writes and two pictures;
a transfer queue of three; up to six banks, of which the low register selects
two.

Why the bounds are enough. Two contents tell the newest patch of a region from
an older one. Three components give a first, a middle and a last copy, with
interrupts writing between private components that are copied before and after; the
properties speak of each shared component by itself, so that one is enough. Two slots
and the parity of the clock repeat with period 2, so a clock of 4 values covers
the wrap. Three blocks for two regions make memory run out after the second
checkpoint, so sweeps happen with zero, one or two obsolete patches, with a
staged patch at the head of the chain, and with a deletion at the head, in the
middle and at the end. Four blocks in `Bliss` allow two two-block lists to be
freed in either order with uninitialised blocks left. Four patches over three
addresses give a tree with a left and a right subtree and a fourth patch that is
searched in it, with ranges that overlap in part, nest or cover several others.
Lists of three blocks have a first, a middle and a last copy. Size codes up to 3
with a byte of 16 values give a cartridge that fits exactly (code 1, four
banks), one that fits with room to spare, one that is too big, and one whose
bank count overflows to zero, as code 7 does in eight bits. Three buttons of one
group and one of the other meet every case of `processPress`. Two subregions in
each of two regions tell a handler that works on the wrong region from one that
opens the wrong subregion. With room for one patch two enabled slots run out of
memory in the first staging. A queue of two writes overflows with the third and
a queue of three transfers holds a late one, the caller's own and one more of
high priority. Six banks with a low register of two wrap twice.

Fairness. In `CheckpointCore` and `MPatch` `FairSpec` is weak fairness of
`Progress`, the steps the processor takes of itself while it has power: there is
one thread and no blocking call. Nothing is assumed about `Work`, `Write`,
`BeginCheckpoint`, `Interrupt`, `OutOfMemory` or `PowerFail`; `EventuallyRuns`
therefore reads: either power fails again and again, or the application is reached
again and again, or the program is in a loop the code never leaves: of
`emulatorSetup` without a game (`emulator.c:49`; in `Device` it is `Prompt`), or of
a staging without memory (`mpatch.c:334`; `MPatch` shows when that cannot happen).
`DeviceSpec` is weak fairness of `main()`'s and the loop's steps; the supply, the
interrupt and the player, who decides whether there is a cartridge and
`Sanity` succeeds, have none. `RequestsServed` takes power that stays and requests
that keep coming as its premise. `DisplayFairness` is that of the IO master,
which sends what is queued, and of its interrupt.

Deadlock is checked in every run: power can always fail or the game write on, and
where a behaviour is over (`BusDone`) the module says so.

Beside each definition there are operators marked *Mutant*: the code with a
plausible mistake. Each property was checked to fail when the definition is
replaced by its mutant; `PROJECT.json` lists which.

## 4. What is proved

The assumptions are those named in each module's `ASSUME` on its constants. In
every case the property alone is not inductive; what has to be added is given.

* `CheckpointCoreProofs`, for every number of components, every choice of those that
  interrupts write, every non-empty set of contents and every even clock range. A
  restore reads `nvm[RestoreIdx]` component by component, so the invariant `Inv` has
  to say that this slot is a complete copy made by the last committed checkpoint
  whenever it is declared available (`CommittedImage`), that what is restored so far
  agrees with it, but for shared components once interrupts are on (`RestoredSoFar`),
  that each copy of the checkpoint in progress holds a value its component has had
  since that checkpoint began (`CopiedSoFar`), that those values are just one for
  what interrupts do not write (`SeenSoFar`, so that the commit commits the current
  image of it), and that a valid checkpoint exists from the first return to `main()`
  on (`ValidWhenRunning`, so that a slot is only written to while the other is the
  valid one). `SlotKept` is the lemma that no step writes the slot a restore reads.
  From these: `TypeCorrect`, `RestoreIsConsistent`, `AvailableIsCommitted`, the action
  property `RestoreSlotIsStable`, and `Refinement`, `Spec => ImplementsAtomic`, step
  by step (`StepRefines`; an interrupt is a stutter of it). The evenness of the clock
  range is used once, in `Tick`: adding one modulo an even number swaps the two slots.
* `BlissOpsProofs` has the lemmas on the allocator's functions: what `Pop`, `Push`,
  `InitNext` and `FreeNext` make of a free list that is known as a sequence, and
  what they leave alone. The next two modules rest on them.
* `BlissProofs`, for every number of blocks and every length of the lists:
  `CommittedPoolIsIntact`, `RunningPoolIsIntact`, `BlissTypeCorrect`. The history
  variables `pool` and `committed` say which sequence of blocks each list is;
  `BlissInv` relates them to the links. What the properties lack is: the blocks
  that were never initialised are the end of the free list, in the order of their
  numbers (`Fresh`), so that lazy initialisation writes no link in use; the
  running allocator has initialised no less than the committed one (`RunningInv`),
  so that it overwrites no link the committed one follows; the list being
  allocated shares no block with any other (`Allocating`), and neither does what
  is left of a list being freed, which is a committed list (`Freeing`). The client's
  discipline, allocate first and free only what is committed, is used there: the
  run's mutant that drops it breaks the property.
* `MPatchProofs`, for every number of blocks and regions, every set of contents and
  every even clock range: `MPatchTypes`, `MemoryIntact`, `RestoresExactly`,
  `EveryBlockAccounted`, `SweepFrees` and the refinement `AtomicImplemented`. They
  are about what the passing runs are about and state it as the hypothesis
  `Sheltered`: no recovery window is exposed to a power failure and fewer
  consecutive checkpoints find nothing to stage than the clock can count. Each of
  the two is needed (section 5 has a run that drops it), and both hold of the
  instances of `mpatch` and `mpatch_rounds`. The argument is below.
* `PatchApplyProofs`, for every number of addresses and patches, any ranges, and
  whatever the links of the patches hold when a walk begins: `ReplayWritesTheNewest`,
  `SweepLosesNothing`, `SweepPassesAgree`, `SweepKeepsNoDouble` and
  `TreeAnswersSearches`. The argument is below.
* `DeviceProofs`, for every length of the skip: `SkipIsBounded` and
  `FirstIsAnswered` of the loop. `LoopInv` says that counter and passed-over
  requests make up at most `Skip` together (`Budget`), and that the counter stands
  at zero until a request is seen (`FreshCounter`), which is what the norestore
  section is for. Then, for any cartridges, any byte range and any flash:
  `DeviceImplementsLoop`, by which both theorems about the loop hold of the
  device; `RestoredRomIsUnchanged`, by an invariant that a boot that was asked to
  restart has no checkpoint left (`RestoreInv`); `GameIsWhole`, by one that
  relates the units programmed so far, the sizes and the cartridge
  (`ImageInv`); `DeviceTypeCorrect`.
* `StagingProofs` is about three components.
  - `MPatchSlots`, for any number of slots, addresses and calls:
    `AllButFirstAreStaged`, by what the slots behind the loop's index have stored,
    `NoWriteIsForgotten`, for which every copy of a slot must cover its own
    range (`Covered`), and `SlotsTypeCorrect`.
  - `MemTracker`, for any MPU layout: `WholeMemoryIsCommitted`,
    `EveryWriteIsTracked`, `RepeatedWriteSucceeds`. `TrackInv` says that what is
    open or differs from the last checkpoint is counted, that every region is on but
    between the two accesses to RASR, and that what the staged patches leave out is
    committed already or still to come.
  - `BlissData`, for any size of a block, any header, length and offset:
    `CopiesStayInside`, and `TransfersRoundTrip` where no transfer of several blocks
    ends with a block (the finding `bliss_exact` is that it may not). The base of a
    block, counted over the list, turns the divisions of the code into sums:
    `Size2Blocks` is the only number of blocks whose last one has the last byte
    (`BlocksBound`, `BlocksUnique`), and with it `CopyPlaced` shows that `InBlock`,
    `InBuffer` and `Length` cover neighbouring pieces of block and buffer.
    `DataInv` then says how far the blocks are stored and the range is extracted.
* `UnitsProofs` is about the others that `Units` puts side by side.
  - `Buttons`, for any keys: `KeyIsReleased`, for which a timer that has
    expired must have its interrupt pending (`ExpiredIsPending`).
  - `Mspi`, for any length of the queue: `XipIsIdentified` by what each step
    of the initialisation can rely on (`HwInv`), `FlagIsTheEnd` by where the
    caller's own transfer is (`CallInv`), `SuccessIsAnEnd`, and `MspiTypeCorrect`,
    which includes that the queue never outgrows its buffer.
  - `Display`, for any height, bar and length of the queue: `LinesAreShown` and
    `DisplayTypeCorrect`. The property says nothing of lines whose write is still
    queued; `DisplayInv` adds that all writes but the first have lines left, that
    they stay on the panel, that the interrupt is pending exactly when the first is
    done, and that the panel reads back the number of the line it was sent,
    though the driver reverses its bits.
  - `CartridgeBus`, for any number of banks and any range of the low register:
    `BusProtocolIsKept`, by which nothing but WRn itself changes while it is low,
    `ImageIsInOrder`, `BusTypeCorrect`. What is left of an
    operation determines its position in it; `BusInv` says for each position of a
    write (`WriteAt`) and of a read (`ReadAt`) what the expander's registers hold
    and which of the bank controller's registers are loaded already. The image is
    in order because both, and the address, are when the two halves are read.
  - `UnitsImplementEach`, and `UnitsTypeCorrect` from it.

The invariant of `MPatchProofs`. The properties speak of what a replay of the
chain would write, which is a walk over links. `MPatchInv` describes the chain by
sets instead: there are ranks of the blocks, distinct and growing with the time of
staging, and sets of patches, `K` the committed ones, `U` those staged since, `V`
those of them that a restore would still find, together with two sequences, the
free lists of the program and of the committed copy, such that (`Chained`)

* the links from each origin lead through `U \cup K` and `V \cup K` in the order of
  the ranks (`Linked`), so that a write to one link is a change of one set;
* patches of `U` carry the current clock and the newest of `K` does not
  (`Places`, with `Behind`): this is what tells them apart at the next boot, and
  where the bound on idle checkpoints is used;
* the newest patch of each region in `K` has the region's contents at the last
  commit (`Committed`), and the newest in `U \cup K` has those in memory, but for the
  regions that are still to be staged (`Staging`);
* a block is in the chain, on the free list, or the one being staged (`Active`,
  `Claimed`), in both copies; a patch of the chain is on a free list only while a
  sweep or the repetition of a deletion is on its way, and which ones are is said
  by `Dooming` and `Pending`;
* a walk has passed just the patches above its position, and what it has seen are
  their regions (`Walking`); `prev` is the last link it passed (`Unlinking`);
* the deletion record is empty, or tells of a deletion that was done, or of one
  that the recovery has to do (`Pending`), and doing it again changes nothing.

That patches can be taken out without harm is then a lemma about sets: the newest
patch of a region is never hidden, and taking a hidden one away hides no other
(`Hidden`). Inductions along the chain are needed where
the model's operators unfold it (what a replay writes, which blocks are free); they
are done with the least counterexample (`LeastNat`), for the library's induction
rules cannot be used here. The
refinement maps the saved state to what a restore would find (`Restorable`) and the
memory of the program to `mem` from the moment all of it was restored (`Visible`).

The invariant of `PatchApplyProofs`. The patches of the chain have ranks, the newest
the highest. The tree is never balanced, so its shape is given by the set `T` of
the patches in it, their ranges and their ranks: the subtree of a node is what no
patch before it separates from it (`Sub`), its links lead to the newest on either
side and `max` is the highest end in the subtree (`TreeOf`). A patch that enters is
older than all in the tree and becomes a leaf of it (`DescentPasses`, `LeafKeeps`).
A search follows one link only; that this is enough is `SearchAnswers`, from the
lower end of the range in the left subtree that ends highest. Hence `Written` is exactly the
part of a range that no patch of `T` covers (`WrittenIs`), and whether a patch is
obsolete depends on `T`, the ranges and the ranks (`AppliedIs`), not on the fields.
The invariant (`Safe`) then speaks of sets: what the walk has passed is covered by
`T`, from patches no older (`Walking`); a replay has written each address from the
latest patch if that was passed (`Writing`); the freeing pass has freed what is
obsolete where the tree holds the newer patches that it kept (`Freeing`), and these are
the very patches the deleting pass has in its tree when it comes to the same patch
(`Deleting`). An obsolete patch lies inside a newer one of the tree and so is the latest for
no address (`ObsoleteIsCovered`). `SweepKeepsNoDouble` is about equal or disjoint
ranges only, as its property is; the others are about all.

What the operators compute that recur along links or over ranges is shown in two parts.
A function of the recursive form exists, because what is met on the way
from a node is a closed set (`Ends`, `Met`), also where links
form a cycle, which in a walk they do not; and any two such functions agree on
the patches of a tree, by the one of least rank on which they would not.

What is left to TLC: liveness (`EventuallyRuns`, `RequestsServed`,
`LinesShownInTheEnd`), which is out of the prover's reach. Every other property of
a passing run is proved.

## 5. Disagreements between the code and what it promises

* **Sweep window** (`mpatch_sweep_window`). A sweep first frees the obsolete
  patches, then publishes the allocator (`mpatch.c:594`), then unlinks them one
  by one. The deletion record covers one unlinking. If power fails after the
  publication and before the last unlinking, a freed patch stays in the chain and
  its block is given out again.
* **Recovery window** (`mpatch_recovery_window`). The recovery of uncommitted
  patches publishes in the same manner, but the deletions that follow are made
  in the active copy of the chain only. A second failure before the next
  checkpoint finds the patches again, with a free list that already holds them.
  The window stays open until the next commit.
* **Clock wrap** (`mpatch_wrap`). A patch is taken to be uncommitted when its
  8-bit stage clock equals the current one, so 255 checkpoints after the newest
  patch it, and all that follow with the same clock, are taken for staged.
* **Exact fit** (`bliss_exact`). The length of the last copy of a transfer is
  computed with `%` and is zero where the data ends with a block
  (`bliss_allocator.c:265`, `327`): the last block of such a list is neither
  written nor read. Patches of the memory tracker fit one block and do not meet
  this; any other client may.
* **First slot skipped** (`mpatch_slots`). After a sweep `mpatch_stage_cond_retry`
  sets `id` to the first slot and continues (`mpatch.c:363`), so that the loop's
  increment goes on with the second. The staging reports success without the
  patch of the first slot. What does hold is `AllButFirstStaged`.

In the passing MPatch runs the first two windows are closed to power failures
(`Survivable`) so that everything else can be examined: all other steps,
including those of a sweep before its publication, of a single deletion
and of a recovery that finds nothing to publish, are exposed.

Observations that no run states, because nothing in the repository promises
otherwise:

* `mpatch_stage_patch` records `origin->max_range` and says that data outside of
  it is discarded (`mpatch.c:302-304`, also `mpatch.h:107`), but nothing reads the
  field. All patches of the chain are applied, which is what the tracker, whose
  regions share one chain, depends on.
* A cartridge image that was cut off by a power failure, or because the ROM is too
  big, is accepted at the next boot by its header (`cut` in `GameWhole`).
* Buttons pressed between the two samplings of `main()` replace the game in
  flash under a checkpoint that is then restored (`lateRead` in
  `RestoredRomUnchanged`).
* What interrupts write during `checkpoint()` is saved as it was at some moment of
  it, and a key that is pressed between `restore_emulator` and the registers'
  restore stays as pressed: a restored run need not have the keys of the commit
  (`Shared` in `AsCommitted` and `RestoreConsistent`).
* A key that a restore brings back has no timer and stays pressed until another
  key of its group is (`orphans` in `KeyReleased`).
* The callback of a transfer ignores its status, and a transfer that timed out
  may set the flag for the next caller (`others` in `FlagMeansEnd`).
* A shutdown of the FRAM driver returns with all interrupts of the processor
  disabled (`masterIrq`), also where it ends well; nothing calls it.
* A write to the display that does not fit in the queue is dropped, for nobody
  looks at the result.

## 6. Not modelled

The vendored SDK and CMSIS (their functions appear as external steps that
succeed or fail), the emulator core (it appears as the writer of memory and of
lines), pin configuration and timing constants, text output. Of modelled
components: failing I2C transfers, which the cartridge reader ignores, and the
title it reads; the settings of the FRAM for single data rate; the
black-and-white buffer of the display and the timer of its COM signal; the types
of slots that nothing stages (`MPATCH_TYPE_UNCHANGED`). `CheckpointCore` and
`MPatch` are not composed: both implement `AtomicCheckpoint`, with the commit of
`lclock` as the one step they share.
