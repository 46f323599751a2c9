------------------------------- MODULE MPatch -------------------------------
(***************************************************************************)
(* MPatch under power failures, as the emulator drives it: the memory      *)
(* regions written since the last checkpoint are staged as patches at the  *)
(* front of a chain in NVM, the checkpoint's clock commits them, a restore *)
(* replays the chain from the newest patch to the oldest.  When no block   *)
(* is left a sweep frees the patches that newer ones hide; after a failure *)
(* recovery removes patches that a sweep published but no checkpoint       *)
(* committed.                                                              *)
(*                                                                         *)
(* Every write to NVM that matters is a step of its own and the power may  *)
(* fail between any two.  A patch is one 512-byte subregion with its       *)
(* header, which fits one block: a chain is a chain of blocks.             *)
(***************************************************************************)
EXTENDS BlissOps, FiniteSets

CONSTANTS
  NRegions,    \* subregions the memory tracker watches, numbered 1..NRegions
  Value,       \* contents a region can have
  ClockMod,    \* size of the type of both clocks (uint8_t: 256)
  IdleLimit,   \* consecutive checkpoints that find no region written
  Exposed      \* the recovery windows in which the power may fail

ASSUME MPatchAssumption ==
  /\ NRegions \in Nat \ {0}
  /\ ClockMod \in Nat \ {0} /\ ClockMod % 2 = 0
  /\ IdleLimit \in Nat
  /\ Exposed \subseteq {"obsolete", "uncommitted"}

VARIABLES
  \* NVM
  lclock,      \* the checkpoint clock
  mlclock,     \* mpatch_lclock[2], one clock per parity of lclock
  origin,      \* mpatch_patch_origin[2]: the newest patch of each copy of the chain
  bliss,       \* bliss_allocator_nvm[2]
  next_free,   \* next_free_block of every block
  patch,       \* the patch header and data in every block
  del,         \* {<<del_modify_patch, new_next>>} while del_modify_flag is set, else {}
  available,   \* code_id is valid
  \* volatile
  alloc,       \* bliss_allocator
  ram,         \* the tracked memory regions
  dirty,       \* regions written, and not yet staged by the checkpoint in progress
  new,         \* the patch being staged
  retry,       \* this is the second try of mpatch_stage_patch_retry
  mode,        \* which sweep the walk belongs to
  at, prev, skip, seen,  \* a walk: patch, pointer to it, still skipping, applied regions
  pc,
  \* history
  golden,      \* the regions at the last commit
  idle,        \* consecutive checkpoints that staged nothing
  doomed,      \* patches freed by the sweep in progress and still in the chain
  window       \* the recovery windows that are open

nvmVars  == <<lclock, mlclock, origin, bliss, next_free, patch, del, available>>
walkVars == <<at, prev, skip, seen>>
ghosts   == <<golden, idle, doomed, window>>
vars == <<nvmVars, alloc, ram, dirty, new, retry, mode, walkVars, pc, ghosts>>

Region  == 1..NRegions
Pointer == {"origin", "next"} \X Index
Patch   == [next: Index, stage_clock: 0..ClockMod-1, region: Region, data: Value]
Memory  == [Region -> Value]

\* Mutant: a clock that is not reduced to its type.
IncUnbounded(n) == n + 1

\* checkpoint_selector.h and the mpatch_*_lclock macros.
ActiveIdx     == lclock % 2
RestoreIdx    == (lclock + 1) % 2
Inc(n)        == (n + 1) % ClockMod
ActiveSlot    == mlclock[ActiveIdx] % 2
CommittedSlot == mlclock[RestoreIdx] % 2

\* mpatch_core_restore: continue from the committed copy in the other slot.
\* The copy is idempotent and nothing reads the active slot before it is done.
CoreRestore ==
  LET active == Inc(mlclock[RestoreIdx])
      this   == active % 2
      other  == (active + 1) % 2
  IN  /\ mlclock' = [mlclock EXCEPT ![ActiveIdx] = active]
      /\ alloc' = bliss[other]
      /\ origin' = [origin EXCEPT ![this] = origin[other]]

\* A walk starts at the origin in the active slot.
StartWalk(first, slot) ==
  /\ at' = first /\ prev' = <<"origin", slot>> /\ skip' = TRUE /\ seen' = {}

NoWalk == at' = Nil /\ prev' = <<"origin", 0>> /\ skip' = TRUE /\ seen' = {}

\* Mutant: a patch is staged but not committed when its clock is not behind.
UncommittedAhead == at # Nil /\ skip /\ patch[at].stage_clock >= lclock

\* The walk is at a patch of the head of the chain that carries the clock of
\* the checkpoint in progress, so it is taken not to be committed.
Uncommitted == at # Nil /\ skip /\ patch[at].stage_clock = lclock

\* Mutant: every committed patch is applied, the oldest last.
ShowsAlways == ~Uncommitted

\* No newer committed patch covers the region (mpatch_apply).
Shows == ~Uncommitted /\ patch[at].region \notin seen

\* One covers it (mpatch_apply is false).
Obsolete == ~Uncommitted /\ patch[at].region \in seen

Init ==
  /\ lclock = 0 /\ mlclock = [i \in 0..1 |-> 0]
  /\ origin = [i \in 0..1 |-> Nil]
  /\ bliss = [i \in 0..1 |-> DefaultAllocator]
  /\ next_free = [b \in Block |-> 0]
  /\ \E v \in Value : patch = [b \in Block |-> [next |-> Nil, stage_clock |-> 0,
                                                region |-> 1, data |-> v]]
  /\ del = {}
  /\ available = FALSE
  /\ alloc = DefaultAllocator
  /\ ram \in Memory /\ dirty = {}
  /\ new = Nil /\ retry = FALSE /\ mode = "obsolete"
  /\ at = Nil /\ prev = <<"origin", 0>> /\ skip = TRUE /\ seen = {}
  /\ pc = "boot"
  /\ golden = ram /\ idle = 0 /\ doomed = {} /\ window = {}

-----------------------------------------------------------------------------
(* First boot.                                                             *)

\* checkpoint_onetime_setup and mpatch_init, then the emulator's own setup;
\* every region is part of the first checkpoint.
Setup ==
  /\ pc = "boot" /\ ~available
  /\ lclock' = 0
  /\ mlclock' = [i \in 0..1 |-> IF i = 0 THEN 1 ELSE 0]
  /\ origin' = [i \in 0..1 |-> Nil]
  /\ bliss' = [i \in 0..1 |-> DefaultAllocator]
  /\ alloc' = DefaultAllocator
  /\ del' = {}
  /\ ram' \in Memory /\ dirty' = Region
  /\ pc' = "stage"
  /\ UNCHANGED <<next_free, patch, available, new, retry, mode, walkVars, ghosts>>

-----------------------------------------------------------------------------
(* Running and staging.                                                    *)

\* The emulated game writes a region; the memory tracker marks it.
Write(r, v) ==
  /\ pc = "run"
  /\ ram' = [ram EXCEPT ![r] = v]
  /\ dirty' = dirty \cup {r}
  /\ UNCHANGED <<nvmVars, alloc, new, retry, mode, walkVars, pc, ghosts>>

BeginCheckpoint ==
  /\ pc = "run"
  /\ dirty = {} => idle < IdleLimit
  /\ pc' = "stage"
  /\ UNCHANGED <<nvmVars, alloc, ram, dirty, new, retry, mode, walkVars, ghosts>>

\* mpatch_stage_patch: allocate a block and fill it in.
StageAlloc ==
  /\ pc = "stage" /\ dirty # {} /\ alloc.n_free_blocks > 0
  /\ \E r \in dirty :
       /\ \A q \in dirty : r <= q
       /\ patch' = [patch EXCEPT ![alloc.next_free_block] =
                      [next |-> Nil, stage_clock |-> lclock, region |-> r, data |-> ram[r]]]
       /\ dirty' = dirty \ {r}
  /\ new' = alloc.next_free_block
  /\ next_free' = InitNext(alloc, next_free)
  /\ alloc' = Pop(alloc, next_free)
  /\ retry' = FALSE
  /\ pc' = "link"
  /\ UNCHANGED <<lclock, mlclock, origin, bliss, del, available, ram, mode, walkVars, ghosts>>

\* mpatch_add_to_list
StageLink ==
  /\ pc = "link"
  /\ patch' = [patch EXCEPT ![new].next = origin[ActiveSlot]]
  /\ origin' = [origin EXCEPT ![ActiveSlot] = new]
  /\ new' = Nil
  /\ pc' = "stage"
  /\ UNCHANGED <<lclock, mlclock, bliss, next_free, del, available, alloc, ram, dirty,
                 retry, mode, walkVars, ghosts>>

\* mpatch_stage_patch_retry: no block left, sweep and try once more.
StageRetry ==
  /\ pc = "stage" /\ dirty # {} /\ alloc.n_free_blocks = 0 /\ ~retry
  /\ retry' = TRUE /\ mode' = "obsolete"
  /\ StartWalk(origin[ActiveSlot], ActiveSlot)
  /\ pc' = "free"
  /\ UNCHANGED <<nvmVars, alloc, ram, dirty, new, ghosts>>

\* ... or wait for the power to fail.
StageHang ==
  /\ pc = "stage" /\ dirty # {} /\ alloc.n_free_blocks = 0 /\ retry
  /\ pc' = "hung"
  /\ UNCHANGED <<nvmVars, alloc, ram, dirty, new, retry, mode, walkVars, ghosts>>

\* mpatch_core_checkpoint(false)
StageDone ==
  /\ pc = "stage" /\ dirty = {}
  /\ bliss' = [bliss EXCEPT ![ActiveSlot] = alloc]
  /\ retry' = FALSE
  /\ pc' = "commit"
  /\ UNCHANGED <<lclock, mlclock, origin, next_free, patch, del, available, alloc, ram,
                 dirty, new, mode, walkVars, ghosts>>

\* History: the checkpoint in progress has staged a patch.
Staged == LET first == origin[ActiveSlot] IN first # Nil /\ patch[first].stage_clock = lclock

\* checkpoint_commit; the first one is followed by set_availible.
Commit ==
  /\ pc = "commit"
  /\ lclock' = Inc(lclock)
  /\ available' = TRUE
  /\ golden' = ram
  /\ idle' = IF Staged THEN 0 ELSE idle + 1
  /\ window' = window \ {"uncommitted"}
  /\ pc' = "post"
  /\ UNCHANGED <<mlclock, origin, bliss, next_free, patch, del, alloc, ram, dirty, new,
                 retry, mode, walkVars, doomed>>

\* post_checkpoint_mpatch
PostCheckpoint ==
  /\ pc = "post"
  /\ CoreRestore
  /\ pc' = "run"
  /\ UNCHANGED <<lclock, bliss, next_free, patch, del, available, ram, dirty, new, retry,
                 mode, walkVars, ghosts>>

-----------------------------------------------------------------------------
(* Walking the chain: mpatch_apply_patch_chain, mpatch_apply_uncommitted_chain. *)

\* The patches a sweep frees and later deletes.
Victim == IF mode = "uncommitted" THEN Uncommitted ELSE Obsolete

WalkEnds == at = Nil \/ (mode = "uncommitted" /\ ~Uncommitted)

\* Mutant: the pointer to modify stays behind also when a patch is kept.
AdvanceKeepsPointer(applied) ==
  /\ at' = patch[at].next
  /\ prev' = prev
  /\ skip' = Uncommitted
  /\ seen' = seen \cup applied

Advance(applied) ==
  /\ at' = patch[at].next
  /\ prev' = <<"next", at>>
  /\ skip' = Uncommitted
  /\ seen' = seen \cup applied

\* A patch the pass leaves alone: a staged one, one that still shows, or an
\* obsolete one while memory is restored.
WalkPast ==
  /\ pc \in {"free", "delete", "apply"} /\ ~WalkEnds
  /\ ~Victim \/ pc = "apply"
  /\ Advance(IF Shows THEN {patch[at].region} ELSE {})
  /\ ram' = IF pc = "apply" /\ Shows
            THEN [ram EXCEPT ![patch[at].region] = patch[at].data] ELSE ram
  /\ UNCHANGED <<nvmVars, alloc, dirty, new, retry, mode, pc, ghosts>>

\* Pass one: mpatch_free_patch.
FreePatch ==
  /\ pc = "free" /\ ~WalkEnds /\ Victim
  /\ next_free' = FreeNext(alloc, next_free, at)
  /\ alloc' = Push(alloc, at)
  /\ doomed' = doomed \cup {at}
  /\ Advance({})
  /\ UNCHANGED <<lclock, mlclock, origin, bliss, patch, del, available, ram, dirty, new,
                 retry, mode, pc, golden, idle, window>>

\* The recovery publishes nothing when it found nothing to free.
EndFree ==
  /\ pc = "free" /\ WalkEnds
  /\ IF mode = "uncommitted" /\ doomed = {}
     THEN /\ mode' = "obsolete" /\ pc' = "apply"
          /\ StartWalk(origin[ActiveSlot], ActiveSlot)
     ELSE /\ pc' = "save"
          /\ UNCHANGED <<mode, walkVars>>
  /\ UNCHANGED <<nvmVars, alloc, ram, dirty, new, retry, ghosts>>

\* mpatch_core_checkpoint(true): the allocator state ...
SweepSave ==
  /\ pc = "save"
  /\ bliss' = [bliss EXCEPT ![ActiveSlot] = alloc]
  /\ pc' = "publish"
  /\ UNCHANGED <<lclock, mlclock, origin, next_free, patch, del, available, alloc, ram,
                 dirty, new, retry, mode, walkVars, ghosts>>

\* ... and the clock of the restore: chain and allocator are now committed,
\* staged patches included, although no checkpoint has been taken.
SweepPublish ==
  /\ pc = "publish"
  /\ mlclock' = [mlclock EXCEPT ![RestoreIdx] = Inc(@)]
  /\ window' = (window \ {"uncommitted"}) \cup (IF doomed = {} THEN {} ELSE {mode})
  /\ pc' = "reload"
  /\ UNCHANGED <<lclock, origin, bliss, next_free, patch, del, available, alloc, ram,
                 dirty, new, retry, mode, walkVars, golden, idle, doomed>>

\* mpatch_core_post_checkpoint, then pass two.
SweepReload ==
  /\ pc = "reload" /\ pc' = "delete"
  /\ UNCHANGED <<lclock, bliss, next_free, patch, del, available, ram, dirty, new, retry,
                 mode, ghosts>>
  /\ CoreRestore
  /\ StartWalk(origin'[ActiveSlot'], ActiveSlot')

\* mpatch_prepare_nvm_modify_patch_next: the change is recorded before it is made.
PrepareDelete ==
  /\ pc = "delete" /\ ~WalkEnds /\ Victim
  /\ del' = {<<prev, patch[at].next>>}
  /\ pc' = "modify"
  /\ UNCHANGED <<lclock, mlclock, origin, bliss, next_free, patch, available, alloc, ram,
                 dirty, new, retry, mode, walkVars, ghosts>>

\* mpatch_perform_nvm_modify_patch_next
Unlink ==
  \E d \in del :
    LET kind == d[1][1]  where == d[1][2]  new_next == d[2]
    IN  \/ /\ kind = "origin"
           /\ origin' = [origin EXCEPT ![where] = new_next]
           /\ patch' = patch
        \/ /\ kind = "next"
           /\ patch' = [patch EXCEPT ![where].next = new_next]
           /\ origin' = origin

PerformDelete ==
  /\ pc = "modify"
  /\ Unlink
  /\ doomed' = doomed \ {at}
  /\ pc' = "clear"
  /\ UNCHANGED <<lclock, mlclock, bliss, next_free, del, available, alloc, ram, dirty, new,
                 retry, mode, walkVars, golden, idle, window>>

\* Mutant: after a deletion the walk does not move on.
CommitDeleteStays ==
  /\ pc = "clear"
  /\ del' = {}
  /\ pc' = "delete"
  /\ UNCHANGED <<lclock, mlclock, origin, bliss, next_free, patch, available, alloc, ram,
                 dirty, new, retry, mode, walkVars, ghosts>>

\* mpatch_commit_nvm_modify_patch_next; the pointer to modify stays.
CommitDelete ==
  /\ pc = "clear"
  /\ del' = {}
  /\ at' = patch[at].next
  /\ pc' = "delete"
  /\ UNCHANGED <<lclock, mlclock, origin, bliss, next_free, patch, available, alloc, ram,
                 dirty, new, retry, mode, prev, skip, seen, ghosts>>

EndDelete ==
  /\ pc = "delete" /\ WalkEnds
  /\ IF mode = "obsolete"
     THEN pc' = "stage" /\ mode' = mode /\ NoWalk
     ELSE pc' = "apply" /\ mode' = "obsolete" /\ StartWalk(origin[ActiveSlot], ActiveSlot)
  /\ doomed' = {}
  /\ window' = window \ {"obsolete"}
  /\ UNCHANGED <<nvmVars, alloc, ram, dirty, new, retry, golden, idle>>

-----------------------------------------------------------------------------
(* Power failure and restore_mpatch.                                       *)

\* With window "obsolete" open a failure is only taken when every patch that
\* was freed has left the chain or is the one the deletion record names; with
\* "uncommitted" open, never.  Exposed lifts these limits.
Survivable ==
  /\ "obsolete" \in window \ Exposed =>
       doomed \subseteq IF del # {} THEN {at} ELSE {}
  /\ "uncommitted" \notin window \ Exposed

PowerFail ==
  /\ pc # "boot" /\ Survivable
  /\ alloc' = DefaultAllocator
  /\ ram' = [r \in Region |-> CHOOSE v \in Value : TRUE]
  /\ dirty' = {} /\ new' = Nil /\ retry' = FALSE /\ mode' = "obsolete"
  /\ NoWalk
  /\ doomed' = {} /\ window' = window \ {"obsolete"}
  /\ pc' = "boot"
  /\ UNCHANGED <<nvmVars, golden, idle>>

\* mpatch_core_restore
BeginRestore ==
  /\ pc = "boot" /\ available
  /\ CoreRestore
  /\ pc' = "recover"
  /\ UNCHANGED <<lclock, bliss, next_free, patch, del, available, ram, dirty, new, retry,
                 mode, walkVars, ghosts>>

\* Mutant: the record is dropped and the deletion not repeated.
RecoverForgets ==
  /\ pc = "recover" /\ del # {}
  /\ pc' = "recovered"
  /\ UNCHANGED <<nvmVars, alloc, ram, dirty, new, retry, mode, walkVars, ghosts>>

\* mpatch_recover: finish the deletion the failure interrupted ...
RecoverDelete ==
  /\ pc = "recover" /\ del # {}
  /\ Unlink
  /\ pc' = "recovered"
  /\ UNCHANGED <<lclock, mlclock, bliss, next_free, del, available, alloc, ram, dirty, new,
                 retry, mode, walkVars, ghosts>>

RecoverCommit ==
  /\ pc = "recovered"
  /\ del' = {}
  /\ pc' = "recover"
  /\ UNCHANGED <<lclock, mlclock, origin, bliss, next_free, patch, available, alloc, ram,
                 dirty, new, retry, mode, walkVars, ghosts>>

\* ... and sweep the uncommitted patches.
RecoverSweep ==
  /\ pc = "recover" /\ del = {}
  /\ mode' = "uncommitted"
  /\ StartWalk(origin[ActiveSlot], ActiveSlot)
  /\ pc' = "free"
  /\ UNCHANGED <<nvmVars, alloc, ram, dirty, new, retry, ghosts>>

\* mpatch_apply_all(false) is done; the registers are restored.
EndApply ==
  /\ pc = "apply" /\ at = Nil
  /\ NoWalk
  /\ pc' = "run"
  /\ UNCHANGED <<nvmVars, alloc, ram, dirty, new, retry, mode, ghosts>>

-----------------------------------------------------------------------------
Progress ==
  \/ Setup \/ StageAlloc \/ StageLink \/ StageRetry \/ StageHang \/ StageDone
  \/ Commit \/ PostCheckpoint
  \/ WalkPast \/ FreePatch \/ EndFree \/ SweepSave \/ SweepPublish \/ SweepReload
  \/ PrepareDelete \/ PerformDelete \/ CommitDelete \/ EndDelete
  \/ BeginRestore \/ RecoverDelete \/ RecoverCommit \/ RecoverSweep \/ EndApply

Next ==
  \/ Progress
  \/ \E r \in Region, v \in Value : Write(r, v)
  \/ BeginCheckpoint \/ PowerFail

Spec     == Init /\ [][Next]_vars
FairSpec == Spec /\ WF_vars(Progress)

-----------------------------------------------------------------------------
(* Properties.                                                             *)

\* Every variable keeps its type: the clocks that of mpatch_lclock_t, and every
\* pointer of the chain (mpatch.c:269, 624) is null or a block.
TypeOK ==
  /\ lclock \in 0..ClockMod-1 /\ mlclock \in [0..1 -> 0..ClockMod-1]
  /\ origin \in [0..1 -> Index] /\ bliss \in [0..1 -> Allocator]
  /\ next_free \in [Block -> 0..NBlocks] /\ patch \in [Block -> Patch]
  /\ del \subseteq Pointer \X Index
  /\ available \in BOOLEAN /\ alloc \in Allocator
  /\ ram \in Memory /\ dirty \subseteq Region /\ new \in Index
  /\ retry \in BOOLEAN /\ mode \in {"obsolete", "uncommitted"}
  /\ at \in Index /\ prev \in Pointer /\ skip \in BOOLEAN /\ seen \subseteq Region
  /\ pc \in {"boot", "run", "stage", "link", "hung", "commit", "post", "free", "save",
             "publish", "reload", "delete", "modify", "clear", "recover", "recovered",
             "apply"}
  /\ golden \in Memory /\ idle \in 0..IdleLimit
  /\ doomed \subseteq Block /\ window \subseteq {"obsolete", "uncommitted"}

\* The k-th patch of the chain that starts at first, and the k-th free block.
ChainFrom(first) ==
  LET c[k \in 0..NBlocks] ==
        IF k = 0 THEN first ELSE IF c[k-1] \in Block THEN patch[c[k-1]].next ELSE Nil
  IN  c

FreeFrom(a) ==
  LET f[k \in 0..NBlocks] ==
        IF k = 0 THEN a.next_free_block
        ELSE IF f[k-1] \notin Block THEN Nil
        ELSE IF f[k-1] < a.n_initialized_blocks THEN next_free[f[k-1]] ELSE f[k-1] + 1
  IN  f

\* What a restore at this point would write to each region: the newest patch
\* behind the uncommitted ones of the committed chain.
Replay ==
  LET c == ChainFrom(origin[CommittedSlot])
      committed(k) == c[k] \in Block /\ \E j \in 0..k : patch[c[j]].stage_clock # lclock
      shows(r) == {k \in 0..NBlocks : committed(k) /\ patch[c[k]].region = r}
  IN  [r \in Region |->
         IF shows(r) = {} THEN CHOOSE v \in Value : TRUE
         ELSE patch[c[CHOOSE k \in shows(r) : \A j \in shows(r) : k <= j]].data]

\* At every point at which the power may fail, also half way through staging, a
\* sweep, a deletion or the recovery, NVM holds exactly the memory of the last
\* commit: what staging (mpatch.c:269), a sweep (584) and a recovery (716)
\* publish never shows.  Nothing is said while a recovery window is open.
CommittedMemoryIntact == available /\ Survivable => Replay = golden

\* A run that wrote nothing since it was restored, or since its checkpoint,
\* has the memory of the last commit (checkpoint_mpatch.c:13).
RestoreExact == pc = "run" /\ dirty = {} => ram = golden

\* Between operations every block is either free once or linked once: a patch
\* in the chain is never reused and no block leaks (bliss_allocator.c:110, 138),
\* whatever sweeps, recoveries and failures came before.  With a failure in one of
\* the windows Exposed names it does not hold (run mpatch_sweep_window).
BlocksAccounted ==
  pc \in {"run", "stage"} =>
    LET c == ChainFrom(origin[ActiveSlot])
        f == FreeFrom(alloc)
        chain == {c[k] : k \in 0..NBlocks} \cap Block
        free  == {f[k] : k \in 0..alloc.n_free_blocks-1}
    IN  /\ c[NBlocks] = Nil
        /\ Cardinality(free) = alloc.n_free_blocks
        /\ chain \cap free = {} /\ chain \cup free = Block

\* With two blocks for every region a checkpoint never ends in the endless
\* loop of mpatch_stage_patch_retry (mpatch.c:334): a sweep always frees one.
NeverOutOfMemory == NBlocks >= 2 * NRegions => pc # "hung"

\* Unless the power keeps failing, restores, sweeps and checkpoints come to an
\* end and the application runs, or waits in the loop of mpatch.c:334 for the
\* power to fail: no walk of the chain (mpatch.c:513, 646) meets a cycle.
EventuallyRuns == []<><<PowerFail>>_vars \/ []<>(pc \in {"run", "hung"})

\* MPatch implements an atomic checkpoint of the tracked memory, checkpoint.c:96:
\* memory is not the application's before it is restored, and a boot would
\* continue from what a replay of the committed chain writes.
Visible    == IF pc \in {"boot", "recover", "recovered", "apply"} \/ mode = "uncommitted"
              THEN {} ELSE {ram}
Restorable == IF ~available THEN {} ELSE IF Survivable THEN {Replay} ELSE {golden}
Atomic == INSTANCE AtomicCheckpoint
            WITH Image <- Memory, mem <- Visible, saved <- Restorable
ImplementsAtomic == Atomic!ASpec
=============================================================================
