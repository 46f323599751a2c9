--------------------------- MODULE CheckpointCore ---------------------------
(***************************************************************************)
(* The checkpoint core of libs/mpatch/checkpoint as main() drives it.      *)
(* Each component of the volatile state (.data, .bss, the stack) and then  *)
(* the registers are copied, one after the other, into one of two NVM      *)
(* slots chosen by the parity of the logical clock; adding one to the      *)
(* clock commits them all.  A power failure may come between any two steps *)
(* and in the middle of a copy, which is then left torn.  Interrupts stay  *)
(* enabled during the copies and write some of what is copied.             *)
(***************************************************************************)
EXTENDS Naturals

CONSTANTS N,         \* number of memory components, copied in the order 1..N
          Shared,    \* those of them that interrupts write, as GB.key in .bss
          Value,     \* contents a component can have
          ClockMod   \* size of the type of lclock (uint8_t: 256)

ASSUME CoreAssumption ==
  /\ N \in Nat \ {0}
  /\ Shared \subseteq 1..N
  /\ Value # {}
  /\ ClockMod \in Nat \ {0} /\ ClockMod % 2 = 0

VARIABLES lclock,    \* NVM: the logical clock
          nvm,       \* NVM: the two checkpoint slots
          available, \* NVM: code_id holds this firmware's time stamp
          ram,       \* the components of volatile memory
          site,      \* registers: the call of checkpoint() they return from
          svcRestore,\* checkpoint_svc_restore, never part of a checkpoint
          pc,        \* where the program is
          step,      \* the component being copied
          seen,      \* history: what each component held since checkpoint() began,
                     \* until it commits
          golden     \* history: what the last committed checkpoint() saw

nvmVars == <<lclock, nvm, available>>
vars == <<lclock, nvm, available, ram, site, svcRestore, pc, step, seen, golden>>

Component == 1..N
Private   == Component \ Shared   \* only the program itself writes them
Slot      == 0..1
Site      == {"main", "loop"}
Memory    == [Component -> Value]
Image     == [mem: Memory, site: Site]
Seen      == [Component -> SUBSET Value]
Location  == {"boot", "prompt", "restore", "registers", "save", "hung", "svc",
              "commit", "done", "run"}

\* No component has been seen yet; each has been seen once.
Nothing    == [c \in Component |-> {}]
Just(m)    == [c \in Component |-> {m[c]}]

\* checkpoint_selector.h
SwappedIdx == (lclock + 1) % 2   \* mutant: writes the slot a restore reads
ActiveIdx  == lclock % 2
RestoreIdx == (lclock + 1) % 2

Init ==
  /\ lclock \in 0..ClockMod-1
  /\ nvm \in [Slot -> Image]
  /\ available = FALSE
  /\ ram \in Memory
  /\ site = "main"
  /\ svcRestore = 0
  /\ pc = "boot"
  /\ step = 1
  /\ seen = Nothing
  /\ golden = [mem |-> Nothing, site |-> "main"]

-----------------------------------------------------------------------------
(* Boot: main() of the applications.                                       *)

\* The player holds START+SELECT or START+A, or another firmware was flashed.
Invalidate ==
  /\ pc = "boot"
  /\ available' = FALSE
  /\ UNCHANGED <<lclock, nvm, ram, site, svcRestore, pc, step, seen, golden>>

\* Mutant: code_id is set together with the one-time setup.
FirstBootValidEarly ==
  /\ pc = "boot" /\ ~available
  /\ lclock' = 0 /\ available' = TRUE
  /\ ram' \in Memory /\ seen' = Just(ram')
  /\ site' = "main"
  /\ pc' = "save" /\ step' = 1
  /\ UNCHANGED <<nvm, svcRestore, golden>>

\* No checkpoint: clear memory, one-time setup, enable the buttons, set up the
\* application and call checkpoint() for the first time.
FirstBoot ==
  /\ pc = "boot" /\ ~available
  /\ lclock' = 0
  /\ ram' \in Memory /\ seen' = Just(ram')
  /\ site' = "main"
  /\ pc' = "save" /\ step' = 1
  /\ UNCHANGED <<nvm, available, svcRestore, golden>>

\* emulatorSetup finds no game in flash and asks for one in an endless loop.
PromptForGame ==
  /\ pc = "boot" /\ ~available
  /\ lclock' = 0
  /\ pc' = "prompt"
  /\ UNCHANGED <<nvm, available, ram, site, svcRestore, step, seen, golden>>

BeginRestore ==
  /\ pc = "boot" /\ available
  /\ pc' = "restore" /\ step' = 1
  /\ UNCHANGED <<nvmVars, ram, site, svcRestore, seen, golden>>

\* restore_data, restore_bss, restore_stack, on the safe stack.
RestoreComponent ==
  /\ pc = "restore" /\ step <= N
  /\ ram' = [ram EXCEPT ![step] = nvm[RestoreIdx].mem[step]]
  /\ step' = step + 1
  /\ UNCHANGED <<nvmVars, site, svcRestore, pc, seen, golden>>

\* restore_emulator: buttonsConfig enables the interrupts.
RestoreEmulator ==
  /\ pc = "restore" /\ step = N + 1
  /\ pc' = "registers"
  /\ UNCHANGED <<nvmVars, ram, site, svcRestore, step, seen, golden>>

\* restore_registers: SVC 43 continues after the SVC 42 of the checkpoint.
RestoreRegisters ==
  /\ pc = "registers"
  /\ svcRestore' = 1
  /\ site' = nvm[RestoreIdx].site
  /\ pc' = "svc"
  /\ UNCHANGED <<nvmVars, ram, step, seen, golden>>

-----------------------------------------------------------------------------
(* checkpoint().                                                           *)

\* The main loop computes; while it does not, only interrupts write.
Work ==
  /\ pc = "run"
  /\ ram' \in Memory
  /\ UNCHANGED <<nvmVars, site, svcRestore, pc, step, seen, golden>>

BeginCheckpoint ==
  /\ pc = "run"
  /\ site' = "loop"
  /\ pc' = "save" /\ step' = 1
  /\ seen' = Just(ram)
  /\ UNCHANGED <<nvmVars, ram, svcRestore, golden>>

SaveComponent ==
  /\ pc = "save" /\ step <= N
  /\ nvm' = [nvm EXCEPT ![ActiveIdx].mem[step] = ram[step]]
  /\ step' = step + 1
  /\ UNCHANGED <<lclock, available, ram, site, svcRestore, pc, seen, golden>>

\* checkpoint_mpatch, the last of the components, finds no room for a patch even
\* after a sweep and waits for ever (modelled in detail in MPatch).
OutOfMemory ==
  /\ pc = "save" /\ step = N
  /\ pc' = "hung"
  /\ UNCHANGED <<nvmVars, ram, site, svcRestore, step, seen, golden>>

\* Mutant: the last component of CHECKPOINT_CONTENT is left out.
LatchEarly ==
  /\ pc = "save" /\ step = N
  /\ svcRestore' = 0
  /\ pc' = "svc"
  /\ UNCHANGED <<nvmVars, ram, site, step, seen, golden>>

\* SVC 42 latches the registers; a restore will come back to this point.
LatchRegisters ==
  /\ pc = "save" /\ step = N + 1
  /\ svcRestore' = 0
  /\ pc' = "svc"
  /\ UNCHANGED <<nvmVars, ram, site, step, seen, golden>>

SaveRegisters ==
  /\ pc = "svc" /\ svcRestore = 0
  /\ nvm' = [nvm EXCEPT ![ActiveIdx].site = site]
  /\ pc' = "commit"
  /\ UNCHANGED <<lclock, available, ram, site, svcRestore, step, seen, golden>>

\* Mutant: a clock that is not reduced to its type.
CommitUnbounded ==
  /\ pc = "commit"
  /\ lclock' = lclock + 1
  /\ golden' = [mem |-> seen, site |-> site] /\ seen' = Nothing
  /\ pc' = "done"
  /\ UNCHANGED <<nvm, available, ram, site, svcRestore, step>>

\* checkpoint_commit: the one write that makes the new slot the restored one.
Commit ==
  /\ pc = "commit"
  /\ lclock' = (lclock + 1) % ClockMod
  /\ golden' = [mem |-> seen, site |-> site] /\ seen' = Nothing
  /\ pc' = "done"
  /\ UNCHANGED <<nvm, available, ram, site, svcRestore, step>>

\* Mutant: the saved return address is that of the restore's own SVC.
ResumeAtRestore ==
  /\ pc = "svc" /\ svcRestore = 1
  /\ pc' = "restore" /\ step' = 1
  /\ UNCHANGED <<nvmVars, ram, site, svcRestore, seen, golden>>

\* A restored run finds checkpoint_restored() set: no copy and no commit.
Resume ==
  /\ pc = "svc" /\ svcRestore = 1
  /\ pc' = "done"
  /\ UNCHANGED <<nvmVars, ram, site, svcRestore, step, seen, golden>>

\* checkpoint() returns into main(), which then validates the checkpoint ...
ReturnToMain ==
  /\ pc = "done" /\ site = "main"
  /\ available' = TRUE
  /\ pc' = "run"
  /\ UNCHANGED <<lclock, nvm, ram, site, svcRestore, step, seen, golden>>

\* ... or into the emulator loop.
ReturnToLoop ==
  /\ pc = "done" /\ site = "loop"
  /\ pc' = "run"
  /\ UNCHANGED <<nvmVars, ram, site, svcRestore, step, seen, golden>>

-----------------------------------------------------------------------------
(* Interrupts.                                                             *)

\* Mutant: a restore enables the interrupts before it has copied memory back.
InterruptsEarly == pc # "boot"

\* buttonsConfig, which a first boot calls before it sets up the application and
\* a restore when memory is back, enables them until the next reset.
InterruptsOn == pc \notin {"boot", "restore"}

\* A checkpoint has begun and not yet committed.
Taking == pc \in {"save", "commit"} \/ (pc = "svc" /\ svcRestore = 0)

\* am_gpio_isr stores a key and am_ctimer_isr releases it.  A key is one byte,
\* so that no copy of it is torn by the interrupt.
Interrupt ==
  /\ InterruptsOn
  /\ \E c \in Shared, v \in Value :
       /\ ram' = [ram EXCEPT ![c] = v]
       /\ seen' = IF Taking THEN [seen EXCEPT ![c] = @ \cup {v}] ELSE seen
  /\ UNCHANGED <<nvmVars, site, svcRestore, pc, step, golden>>

-----------------------------------------------------------------------------
(* Power.                                                                  *)

\* What a copy the failure interrupts leaves in the slot it was writing.
TornCopies ==
  IF pc \in {"save", "hung"} /\ step <= N
  THEN {[nvm EXCEPT ![ActiveIdx].mem[step] = v] : v \in Value}
  ELSE IF pc = "svc" /\ svcRestore = 0
  THEN {[nvm EXCEPT ![ActiveIdx].site = s] : s \in Site}
  ELSE {nvm}

\* Volatile memory is lost; start-up code initialises checkpoint_svc_restore.
PowerFail ==
  /\ pc # "boot"
  /\ nvm' \in TornCopies
  /\ ram' \in Memory
  /\ svcRestore' = 0
  /\ pc' = "boot" /\ step' = 1
  /\ seen' = Nothing
  /\ UNCHANGED <<lclock, available, site, golden>>

-----------------------------------------------------------------------------
\* The steps the processor takes of itself while it has power.
Progress ==
  \/ FirstBoot \/ PromptForGame
  \/ BeginRestore \/ RestoreComponent \/ RestoreEmulator \/ RestoreRegisters
  \/ SaveComponent \/ LatchRegisters \/ SaveRegisters \/ Commit
  \/ Resume \/ ReturnToMain \/ ReturnToLoop

Next ==
  \/ Progress \/ Invalidate \/ Work \/ BeginCheckpoint \/ OutOfMemory
  \/ Interrupt \/ PowerFail

Spec     == Init /\ [][Next]_vars
FairSpec == Spec /\ WF_vars(Progress)

-----------------------------------------------------------------------------
(* Properties.                                                             *)

\* Every variable keeps its type; the clock stays in the range of uint8_t
\* (checkpoint.c:33).
TypeOK ==
  /\ lclock \in 0..ClockMod-1
  /\ nvm \in [Slot -> Image]
  /\ available \in BOOLEAN
  /\ ram \in Memory
  /\ site \in Site
  /\ svcRestore \in 0..1
  /\ pc \in Location
  /\ step \in 1..N+1
  /\ seen \in Seen
  /\ golden \in [mem: Seen, site: Site]

\* A memory that the last committed checkpoint could have copied: of what only
\* the program writes exactly what it had left there, of what interrupts write
\* something it held between the begin of that checkpoint and its commit.
ProgramAsCommitted(m) == \A c \in Private : golden.mem[c] = {m[c]}
AsCommitted(m) == ProgramAsCommitted(m) /\ \A c \in Shared : m[c] \in golden.mem[c]

\* When a restore has copied memory back (checkpoint_content.h:40), before it
\* enables the interrupts, every component is of one checkpoint, the last that was
\* committed, however many failures tore checkpoints or restores in between.  Back
\* at the SVC (checkpoint_registers.h:40) that is still so of all that interrupts
\* do not write, and the registers are of the same checkpoint.
RestoreConsistent ==
  /\ pc = "restore" /\ step = N + 1 => AsCommitted(ram)
  /\ pc = "svc" /\ svcRestore = 1 => ProgramAsCommitted(ram) /\ site = golden.site

\* The slot a restore would read is never written while a valid checkpoint
\* exists: only the commit (checkpoint.c:33) changes which slot that is.
RestoreSlotStable ==
  [][available /\ lclock' = lclock => nvm'[RestoreIdx] = nvm[RestoreIdx]]_vars

\* checkpoint_restore_available (checkpoint.c:38) answers yes only when the
\* slot it leads to is a complete copy made by the last committed checkpoint, in
\* particular never during the very first one.
AvailableMeansCommitted ==
  available => AsCommitted(nvm[RestoreIdx].mem) /\ nvm[RestoreIdx].site = golden.site

\* Unless the power keeps failing, every boot reaches the application, whether it
\* restores, resumes inside checkpoint() or starts afresh, or ends in one of the
\* two loops the code never leaves: without a game in flash (emulator.c:49), and
\* without memory for a patch (mpatch.c:334).
EventuallyRuns ==
  []<><<PowerFail>>_vars \/ []<>(pc = "run") \/ <>[](pc \in {"prompt", "hung"})

\* The checkpoint core implements an atomic checkpoint of what interrupts do not
\* write, although it copies component by component and interrupts write others
\* meanwhile: this part of the image is lost until the registers are restored, and
\* the checkpoint is the slot the clock points at once code_id is valid.
ProgramImage == [mem: [Private -> Value], site: Site]
Program(m, s) == [mem |-> [c \in Private |-> m[c]], site |-> s]
Running    == Program(ram, site)
Stored     == Program(nvm[RestoreIdx].mem, nvm[RestoreIdx].site)
Visible    == IF pc \in {"boot", "prompt", "restore", "registers"} THEN {} ELSE {Running}
Restorable == IF available THEN {Stored} ELSE {}
Atomic == INSTANCE AtomicCheckpoint
            WITH Image <- ProgramImage, mem <- Visible, saved <- Restorable
ImplementsAtomic == Atomic!ASpec

\* The inductive invariant: what the copies done so far have in common with
\* the memory they copy, and when the restorable slot may be trusted.
SeenSoFar ==
  Taking => /\ \A c \in Component : ram[c] \in seen[c]
            /\ \A c \in Private : seen[c] = {ram[c]}

CopiedSoFar ==
  /\ pc = "save" =>
       \A c \in Component : c < step => nvm[ActiveIdx].mem[c] \in seen[c]
  /\ pc = "commit" \/ (pc = "svc" /\ svcRestore = 0) =>
       \A c \in Component : nvm[ActiveIdx].mem[c] \in seen[c]
  /\ pc = "commit" => nvm[ActiveIdx].site = site

RestoredSoFar ==
  /\ pc = "restore" =>
       \A c \in Component : c < step => ram[c] = nvm[RestoreIdx].mem[c]
  /\ pc \in {"registers", "done"} \/ (pc = "svc" /\ svcRestore = 1) =>
       \A c \in Private : ram[c] = nvm[RestoreIdx].mem[c]
  /\ pc = "done" \/ (pc = "svc" /\ svcRestore = 1) => site = nvm[RestoreIdx].site

CommittedImage ==
  available \/ pc = "done" =>
    AsCommitted(nvm[RestoreIdx].mem) /\ nvm[RestoreIdx].site = golden.site

\* Once main() has returned from its first checkpoint a valid one exists.
ValidWhenRunning ==
  /\ pc \in {"restore", "registers", "run"} => available
  /\ pc = "svc" /\ svcRestore = 1 => available
  /\ pc \in {"save", "svc", "commit", "done"} /\ site = "loop" => available

\* The invariant a failure and an interrupt at any point preserve: the copies of a
\* checkpoint (checkpoint.c:99-105) and of a restore (76-88) are of what their
\* source held as far as they got, and code_id vouches for a complete slot only.
Inv ==
  /\ TypeOK
  /\ SeenSoFar
  /\ CopiedSoFar
  /\ RestoredSoFar
  /\ CommittedImage
  /\ ValidWhenRunning
=============================================================================
