------------------------ MODULE CheckpointCoreProofs ------------------------
(***************************************************************************)
(* Proofs about CheckpointCore: its inductive invariant, the safety        *)
(* properties the runs check, and that it implements AtomicCheckpoint, for *)
(* every number of components, every choice of those that interrupts       *)
(* write, every set of contents and every even clock.                      *)
(***************************************************************************)
EXTENDS CheckpointCore, TLAPS

\* The two slots are the only ones, and the clock's parity tells them apart.
LEMMA SlotParity ==
  ASSUME NEW n \in Nat
  PROVE  /\ n % 2 \in Slot /\ (n + 1) % 2 \in Slot
         /\ n % 2 # (n + 1) % 2
         /\ (n + 2) % 2 = n % 2
BY SMT DEF Slot

\* Adding one to the clock (checkpoint.c:33), its overflow included, makes the
\* slot that was being written the one a restore reads, and frees the other.
LEMMA Tick ==
  ASSUME NEW n \in 0..ClockMod-1
  PROVE  /\ (n + 1) % ClockMod \in 0..ClockMod-1
         /\ (((n + 1) % ClockMod) + 1) % 2 = n % 2
         /\ ((n + 1) % ClockMod) % 2 = (n + 1) % 2
<1>1. CASE n + 1 < ClockMod
  <2>1. (n + 1) % ClockMod = n + 1
    BY <1>1, CoreAssumption, SMT
  <2>2. QED
    BY <1>1, <2>1, CoreAssumption, SMT
<1>2. CASE n + 1 = ClockMod
  <2>1. (n + 1) % ClockMod = 0
    BY <1>2, CoreAssumption, SMT
  <2>2. QED
    BY <1>2, <2>1, CoreAssumption, SMT
<1>3. QED
  BY <1>1, <1>2, CoreAssumption

\* Whatever an unprogrammed FRAM holds, code_id is not valid at the first boot.
LEMMA InitInv == Init => Inv
<1> SUFFICES ASSUME Init PROVE Inv
  OBVIOUS
<1>1. TypeOK
  <2>1. step \in 1..N+1
    BY CoreAssumption DEF Init
  <2>2. Nothing \in Seen
    BY DEF Nothing, Seen
  <2>3. seen \in Seen /\ golden \in [mem: Seen, site: Site]
    BY <2>2 DEF Init, Site
  <2>4. available \in BOOLEAN
    BY Zenon DEF Init
  <2>5. svcRestore \in 0..1 /\ pc \in Location /\ site \in Site
    BY DEF Init, Location, Site
  <2>6. QED
    BY <2>1, <2>3, <2>4, <2>5 DEF Init, TypeOK
<1>2. QED
  BY <1>1 DEF Init, Inv, Taking, SeenSoFar, CopiedSoFar, RestoredSoFar, CommittedImage,
              ValidWhenRunning

\* The slot a restore reads is written by no step: a copy, torn or not, goes to
\* the other one.  Only a commit or a first boot changes which slot that is.
LEMMA SlotKept ==
  Inv /\ [Next]_vars =>
    /\ nvm' \in [Slot -> Image]
    /\ nvm'[RestoreIdx] = nvm[RestoreIdx]
<1> SUFFICES ASSUME Inv, [Next]_vars
             PROVE  nvm' \in [Slot -> Image] /\ nvm'[RestoreIdx] = nvm[RestoreIdx]
  OBVIOUS
<1> USE CoreAssumption DEF Inv, TypeOK
<1>1. lclock \in Nat /\ ActiveIdx \in Slot /\ RestoreIdx \in Slot /\ ActiveIdx # RestoreIdx
  BY SlotParity DEF ActiveIdx, RestoreIdx
<1>2. CASE nvm' = nvm
  BY <1>2
<1>3. CASE SaveComponent
  <2>1. step \in Component /\ ram[step] \in Value
    BY <1>3 DEF SaveComponent, Component, Memory
  <2>2. nvm' = [nvm EXCEPT ![ActiveIdx].mem[step] = ram[step]]
    BY <1>3 DEF SaveComponent
  <2>3. QED
    BY <1>1, <2>1, <2>2 DEF Image, Memory
<1>4. CASE SaveRegisters
  BY <1>1, <1>4 DEF SaveRegisters, Image
<1>5. CASE PowerFail
  <2>1. nvm' \in TornCopies
    BY <1>5 DEF PowerFail
  <2>2. CASE pc \in {"save", "hung"} /\ step <= N
    <3>1. PICK v \in Value : nvm' = [nvm EXCEPT ![ActiveIdx].mem[step] = v]
      BY <2>1, <2>2 DEF TornCopies
    <3>2. QED
      BY <1>1, <2>2, <3>1 DEF Image, Memory, Component
  <2>3. CASE pc = "svc" /\ svcRestore = 0
    <3>1. PICK t \in Site : nvm' = [nvm EXCEPT ![ActiveIdx].site = t]
      BY <2>1, <2>3 DEF TornCopies
    <3>2. QED
      BY <1>1, <3>1 DEF Image
  <2>4. CASE ~(pc \in {"save", "hung"} /\ step <= N) /\ ~(pc = "svc" /\ svcRestore = 0)
    BY <2>1, <2>4 DEF TornCopies
  <2>5. QED
    BY <2>2, <2>3, <2>4
<1>6. QED
  BY <1>2, <1>3, <1>4, <1>5 DEF Next, Progress, vars, nvmVars, Invalidate, FirstBoot,
     PromptForGame, BeginRestore, RestoreComponent, RestoreEmulator, RestoreRegisters, Work,
     BeginCheckpoint, OutOfMemory, Interrupt, LatchRegisters, Commit, Resume, ReturnToMain,
     ReturnToLoop

\* Every action preserves the invariant.  The copies, the interrupts and the
\* commit are the steps that need an argument of their own.
LEMMA NextInv == Inv /\ [Next]_vars => Inv'
<1> SUFFICES ASSUME Inv, [Next]_vars PROVE Inv'
  OBVIOUS
<1> USE CoreAssumption DEF Inv, TypeOK, nvmVars
<1>a. /\ lclock \in Nat
      /\ ActiveIdx \in Slot /\ RestoreIdx \in Slot /\ ActiveIdx # RestoreIdx
  BY SlotParity DEF ActiveIdx, RestoreIdx
<1>b. nvm' \in [Slot -> Image] /\ nvm'[RestoreIdx] = nvm[RestoreIdx]
  BY SlotKept
<1>c. lclock' = lclock => ActiveIdx' = ActiveIdx /\ RestoreIdx' = RestoreIdx
  BY DEF ActiveIdx, RestoreIdx
<1>d. Private \subseteq Component /\ Shared \subseteq Component
  BY DEF Private, Component
<1>e. ASSUME NEW m \in Memory PROVE Just(m) \in Seen
  BY <1>e DEF Just, Seen, Memory
<1>f. Nothing \in Seen
  BY DEF Nothing, Seen
<1>1. CASE Invalidate
  BY <1>1 DEF Invalidate, Taking, SeenSoFar, CopiedSoFar, RestoredSoFar, CommittedImage,
     ValidWhenRunning, AsCommitted, ProgramAsCommitted, ActiveIdx, RestoreIdx
<1>2. CASE FirstBoot
  <2>1. TypeOK'
    BY <1>2, <1>e DEF FirstBoot, Location, Site
  <2>2. SeenSoFar'
    BY <1>2, <1>d DEF FirstBoot, SeenSoFar, Just
  <2>3. QED
    BY <1>2, <2>1, <2>2 DEF FirstBoot, CopiedSoFar, RestoredSoFar, CommittedImage,
       ValidWhenRunning, Component
<1>3. CASE PromptForGame
  <2>1. TypeOK'
    BY <1>3 DEF PromptForGame, Location
  <2>2. QED
    BY <1>3, <2>1 DEF PromptForGame, Taking, SeenSoFar, CopiedSoFar, RestoredSoFar,
       CommittedImage, ValidWhenRunning
<1>4. CASE BeginRestore
  <2>1. TypeOK'
    BY <1>4 DEF BeginRestore, Location
  <2>2. QED
    BY <1>4, <1>c, <2>1 DEF BeginRestore, Taking, SeenSoFar, CopiedSoFar, RestoredSoFar,
       CommittedImage, ValidWhenRunning, AsCommitted, ProgramAsCommitted, Component
<1>5. CASE RestoreComponent
  <2> USE <1>5 DEF RestoreComponent
  <2>1. step \in Component /\ step + 1 \in 1..N+1
    BY DEF Component
  <2>2. ram' \in Memory
    BY <1>a, <2>1 DEF Image, Memory
  <2>3. \A c \in Component : c < step' => ram'[c] = nvm[RestoreIdx].mem[c]
    BY <2>1 DEF RestoredSoFar, Memory, Component
  <2>4. QED
    BY <1>c, <2>1, <2>2, <2>3 DEF Taking, SeenSoFar, CopiedSoFar, RestoredSoFar,
       CommittedImage, ValidWhenRunning, AsCommitted, ProgramAsCommitted
<1>6. CASE RestoreEmulator
  <2> USE <1>6 DEF RestoreEmulator
  <2>1. TypeOK'
    BY DEF Location
  <2>2. \A c \in Private : ram'[c] = nvm[RestoreIdx].mem[c]
    BY <1>d DEF RestoredSoFar, Component
  <2>3. QED
    BY <1>c, <2>1, <2>2 DEF Taking, SeenSoFar, CopiedSoFar, RestoredSoFar, CommittedImage,
       ValidWhenRunning, AsCommitted, ProgramAsCommitted
<1>7. CASE RestoreRegisters
  <2> USE <1>7 DEF RestoreRegisters
  <2>1. TypeOK'
    BY <1>a DEF Location, Image
  <2>2. QED
    BY <1>c, <2>1 DEF Taking, SeenSoFar, CopiedSoFar, RestoredSoFar, CommittedImage,
       ValidWhenRunning, AsCommitted, ProgramAsCommitted
<1>8. CASE Work
  BY <1>8, <1>c DEF Work, Taking, SeenSoFar, CopiedSoFar, RestoredSoFar, CommittedImage,
     ValidWhenRunning, AsCommitted, ProgramAsCommitted
<1>9. CASE BeginCheckpoint
  <2> USE <1>9 DEF BeginCheckpoint
  <2>1. TypeOK'
    BY <1>e DEF Location, Site
  <2>2. SeenSoFar'
    BY <1>d DEF SeenSoFar, Just
  <2>3. QED
    BY <1>c, <2>1, <2>2 DEF CopiedSoFar, RestoredSoFar, CommittedImage, ValidWhenRunning,
       AsCommitted, ProgramAsCommitted, Component
<1>10. CASE SaveComponent
  <2> USE <1>10 DEF SaveComponent
  <2>1. step \in Component /\ step + 1 \in 1..N+1
    BY DEF Component
  <2>2. ram[step] \in seen[step]
    BY <2>1 DEF SeenSoFar, Taking
  <2>3. \A c \in Component : c < step' => nvm'[ActiveIdx].mem[c] \in seen[c]
    BY <1>a, <2>1, <2>2 DEF CopiedSoFar, Image, Memory, Component
  <2>4. CommittedImage'
    BY <1>b, <1>c DEF CommittedImage, AsCommitted, ProgramAsCommitted
  <2>5. QED
    BY <1>b, <1>c, <2>1, <2>3, <2>4 DEF Taking, SeenSoFar, CopiedSoFar, RestoredSoFar,
       ValidWhenRunning
<1>11. CASE OutOfMemory
  <2>1. TypeOK'
    BY <1>11 DEF OutOfMemory, Location
  <2>2. QED
    BY <1>11, <1>c, <2>1 DEF OutOfMemory, Taking, SeenSoFar, CopiedSoFar, RestoredSoFar,
       CommittedImage, ValidWhenRunning, AsCommitted, ProgramAsCommitted
<1>12. CASE LatchRegisters
  <2> USE <1>12 DEF LatchRegisters
  <2>1. TypeOK'
    BY DEF Location
  <2>2. \A c \in Component : nvm'[ActiveIdx].mem[c] \in seen[c]
    BY DEF CopiedSoFar, Component
  <2>3. QED
    BY <1>c, <2>1, <2>2 DEF Taking, SeenSoFar, CopiedSoFar, RestoredSoFar, CommittedImage,
       ValidWhenRunning, AsCommitted, ProgramAsCommitted
<1>13. CASE SaveRegisters
  <2> USE <1>13 DEF SaveRegisters
  <2>1. TypeOK'
    BY <1>b DEF Location
  <2>2. \A c \in Component : nvm'[ActiveIdx].mem[c] \in seen[c]
    BY <1>a DEF CopiedSoFar, Image
  <2>3. nvm'[ActiveIdx].site = site
    BY <1>a DEF Image
  <2>4. CommittedImage'
    BY <1>b, <1>c DEF CommittedImage, AsCommitted, ProgramAsCommitted
  <2>5. QED
    BY <1>c, <2>1, <2>2, <2>3, <2>4 DEF Taking, SeenSoFar, CopiedSoFar, RestoredSoFar,
       ValidWhenRunning
<1>14. CASE Commit
  <2> USE <1>14 DEF Commit
  <2>1. lclock' \in 0..ClockMod-1 /\ RestoreIdx' = ActiveIdx
    BY Tick DEF RestoreIdx, ActiveIdx
  <2>2. TypeOK'
    BY <1>f, <2>1 DEF Location
  <2>3. ASSUME NEW c \in Component
        PROVE  /\ nvm[ActiveIdx].mem[c] \in golden'.mem[c]
               /\ c \in Private => /\ golden'.mem[c] = {ram[c]}
                                   /\ golden'.mem[c] = {nvm[ActiveIdx].mem[c]}
    <3>1. golden'.mem[c] = seen[c] /\ nvm[ActiveIdx].mem[c] \in seen[c]
      BY <2>3 DEF CopiedSoFar
    <3>2. c \in Private => seen[c] = {ram[c]}
      BY DEF SeenSoFar, Taking
    <3>3. QED
      BY <3>1, <3>2, Zenon
  <2>4. nvm[ActiveIdx].site = site /\ golden'.site = site
    BY DEF CopiedSoFar
  <2>5. CommittedImage'
    BY <1>d, <2>1, <2>3, <2>4 DEF CommittedImage, AsCommitted, ProgramAsCommitted
  <2>6. \A c \in Private : ram[c] = nvm[ActiveIdx].mem[c]
    BY <1>d, <2>3
  <2>7. QED
    BY <2>1, <2>2, <2>4, <2>5, <2>6 DEF Taking, SeenSoFar, CopiedSoFar, RestoredSoFar,
       ValidWhenRunning
<1>15. CASE Resume
  <2>1. TypeOK'
    BY <1>15 DEF Resume, Location
  <2>2. QED
    BY <1>15, <1>c, <2>1 DEF Resume, Taking, SeenSoFar, CopiedSoFar, RestoredSoFar,
       CommittedImage, ValidWhenRunning, AsCommitted, ProgramAsCommitted
<1>16. CASE ReturnToMain \/ ReturnToLoop
  <2>1. TypeOK'
    BY <1>16 DEF ReturnToMain, ReturnToLoop, Location
  <2>2. QED
    BY <1>16, <1>c, <2>1 DEF ReturnToMain, ReturnToLoop, Taking, SeenSoFar, CopiedSoFar,
       RestoredSoFar, CommittedImage, ValidWhenRunning, AsCommitted, ProgramAsCommitted
<1>17. CASE Interrupt
  <2>1. PICK k \in Shared, v \in Value :
          /\ ram' = [ram EXCEPT ![k] = v]
          /\ seen' = IF Taking THEN [seen EXCEPT ![k] = @ \cup {v}] ELSE seen
    BY <1>17 DEF Interrupt
  <2>2. k \in Component /\ k \notin Private
    BY <1>d DEF Private
  <2>3. ram' \in Memory /\ seen' \in Seen
    BY <2>1, <2>2 DEF Memory, Seen
  <2>4. \A c \in Private : ram'[c] = ram[c] /\ seen'[c] = seen[c]
    BY <1>d, <2>1, <2>2 DEF Memory, Seen
  <2>5. \A c \in Component : seen[c] \subseteq seen'[c]
    BY <2>1, <2>2 DEF Seen
  <2>6. Taking => \A c \in Component : ram'[c] = ram[c] \/ (c = k /\ ram'[c] \in seen'[c])
    BY <2>1, <2>2 DEF Memory, Seen
  <2>7. /\ lclock' = lclock /\ nvm' = nvm /\ available' = available /\ site' = site
        /\ svcRestore' = svcRestore /\ pc' = pc /\ step' = step /\ golden' = golden
        /\ pc # "restore"
    BY <1>17 DEF Interrupt, InterruptsOn
  <2>8. SeenSoFar'
    BY <2>4, <2>5, <2>6, <2>7 DEF SeenSoFar, Taking
  <2>9. CopiedSoFar'
    BY <1>c, <2>5, <2>7 DEF CopiedSoFar
  <2>10. RestoredSoFar'
    BY <1>c, <2>4, <2>7 DEF RestoredSoFar
  <2>11. QED
    BY <1>c, <2>3, <2>7, <2>8, <2>9, <2>10 DEF CommittedImage, ValidWhenRunning, AsCommitted,
       ProgramAsCommitted
<1>18. CASE PowerFail
  <2> USE <1>18 DEF PowerFail
  <2>1. TypeOK'
    BY <1>b, <1>f DEF Location
  <2>2. CommittedImage'
    BY <1>b, <1>c DEF CommittedImage, AsCommitted, ProgramAsCommitted
  <2>3. QED
    BY <2>1, <2>2 DEF Taking, SeenSoFar, CopiedSoFar, RestoredSoFar, ValidWhenRunning
<1>19. CASE UNCHANGED vars
  BY <1>19 DEF vars, Taking, SeenSoFar, CopiedSoFar, RestoredSoFar, CommittedImage,
     ValidWhenRunning, AsCommitted, ProgramAsCommitted, ActiveIdx, RestoreIdx
<1>20. QED
  BY <1>1, <1>2, <1>3, <1>4, <1>5, <1>6, <1>7, <1>8, <1>9, <1>10, <1>11, <1>12, <1>13, <1>14,
     <1>15, <1>16, <1>17, <1>18, <1>19 DEF Next, Progress

\* Every reachable state of the checkpoint core is typed and satisfies the
\* inductive invariant: whatever interrupts write meanwhile, copies and restores
\* in progress hold what their source held, and the slot a restore reads is a
\* complete copy made by the last committed checkpoint.
THEOREM Invariance == Spec => []Inv
<1>1. QED
  BY InitInv, NextInv, PTL DEF Spec

\* Every variable keeps its type, the eight-bit clock (checkpoint.c:33) included.
THEOREM TypeCorrect == Spec => []TypeOK
<1>1. Inv => TypeOK
  BY DEF Inv
<1>2. QED
  BY <1>1, Invariance, PTL

\* A restore brings all components of the last committed checkpoint back, never a
\* mix of two checkpoints or a torn one, and resumes with those that interrupts do
\* not write, and the registers, as that checkpoint found them.
THEOREM RestoreIsConsistent == Spec => []RestoreConsistent
<1>1. Inv => RestoreConsistent
  <2> SUFFICES ASSUME Inv PROVE RestoreConsistent
    OBVIOUS
  <2> USE DEF Inv, CommittedImage, ValidWhenRunning
  <2>1. ASSUME pc = "restore", step = N + 1 PROVE AsCommitted(ram)
    <3>1. \A c \in Component : ram[c] = nvm[RestoreIdx].mem[c]
      BY <2>1, CoreAssumption DEF RestoredSoFar, Component
    <3>2. AsCommitted(nvm[RestoreIdx].mem)
      BY <2>1
    <3>3. Private \subseteq Component /\ Shared \subseteq Component
      BY CoreAssumption DEF Private, Component
    <3>4. QED
      BY <3>1, <3>2, <3>3 DEF AsCommitted, ProgramAsCommitted
  <2>2. ASSUME pc = "svc", svcRestore = 1
        PROVE  ProgramAsCommitted(ram) /\ site = golden.site
    BY <2>2 DEF RestoredSoFar, AsCommitted, ProgramAsCommitted
  <2>3. QED
    BY <2>1, <2>2 DEF RestoreConsistent
<1>2. QED
  BY <1>1, Invariance, PTL

\* checkpoint_restore_available is only ever true of a complete committed copy.
THEOREM AvailableIsCommitted == Spec => []AvailableMeansCommitted
<1>1. Inv => AvailableMeansCommitted
  BY DEF Inv, CommittedImage, AvailableMeansCommitted
<1>2. QED
  BY <1>1, Invariance, PTL

\* The slot of the last checkpoint is immutable until the next commit.
THEOREM RestoreSlotIsStable == Spec => RestoreSlotStable
<1>1. Inv /\ [Next]_vars =>
        [available /\ lclock' = lclock => nvm'[RestoreIdx] = nvm[RestoreIdx]]_vars
  BY SlotKept
<1>2. QED
  BY <1>1, Invariance, PTL DEF Spec, RestoreSlotStable

\* The two abstract variables as the concrete steps change them: what stays
\* visible to the application and what a boot would restore.
LEMMA StepRefines == Inv /\ Inv' /\ [Next]_vars => [Atomic!ANext]_Atomic!avars
<1> SUFFICES ASSUME Inv, Inv', [Next]_vars
             PROVE  Atomic!ANext \/ (Visible' = Visible /\ Restorable' = Restorable)
  BY DEF Atomic!avars
<1> USE DEF Inv
<1>a. Running \in ProgramImage /\ Running' \in ProgramImage
  BY DEF TypeOK, Running, Program, ProgramImage, Memory, Private
<1>b. lclock' = lclock /\ available' = available => Restorable' = Restorable
  <2>1. lclock' = lclock => RestoreIdx' = RestoreIdx
    BY DEF RestoreIdx
  <2>2. nvm'[RestoreIdx] = nvm[RestoreIdx]
    BY SlotKept
  <2>3. QED
    BY <2>1, <2>2 DEF Restorable, Stored, Program
<1>c. ~available /\ ~available' => Restorable' = Restorable
  BY DEF Restorable
<1>d. ram' = ram /\ site' = site => Running' = Running
  BY DEF Running, Program
<1>e. ASSUME pc \in {"registers", "done"} \/ (pc = "svc" /\ svcRestore = 1)
      PROVE  \A c \in Private : ram[c] = nvm[RestoreIdx].mem[c]
  BY <1>e DEF RestoredSoFar
<1>1. CASE Invalidate
  <2>1. Atomic!Discard
    BY <1>1 DEF Invalidate, Atomic!Discard, Visible, Restorable
  <2>2. QED
    BY <2>1 DEF Atomic!ANext
<1>2. CASE FirstBoot
  <2>1. Atomic!Start
    BY <1>2, <1>a DEF FirstBoot, Atomic!Start, Visible, Restorable
  <2>2. QED
    BY <2>1 DEF Atomic!ANext
<1>3. CASE PromptForGame
  BY <1>3, <1>c DEF PromptForGame, Visible
<1>4. CASE BeginRestore \/ RestoreComponent \/ RestoreEmulator
  BY <1>4, <1>b DEF BeginRestore, RestoreComponent, RestoreEmulator, nvmVars, Visible
<1>5. CASE RestoreRegisters
  <2> USE <1>5 DEF RestoreRegisters, nvmVars
  <2>1. Visible = {} /\ Visible' = {Running'}
    BY DEF Visible
  <2>2. Running' = Stored
    BY <1>e DEF Running, Stored, Program
  <2>3. Restorable = {Stored}
    BY DEF Restorable, ValidWhenRunning
  <2>4. Restorable' = Restorable
    BY <1>b
  <2>5. Atomic!Continue
    BY <2>1, <2>2, <2>3, <2>4 DEF Atomic!Continue
  <2>6. QED
    BY <2>5 DEF Atomic!ANext
<1>6. CASE Work \/ BeginCheckpoint
  <2>1. Visible # {} /\ Visible' = {Running'}
    BY <1>6 DEF Work, BeginCheckpoint, Visible
  <2>2. Restorable' = Restorable
    BY <1>6, <1>b DEF Work, BeginCheckpoint, nvmVars
  <2>3. Atomic!Compute
    BY <1>a, <2>1, <2>2 DEF Atomic!Compute
  <2>4. QED
    BY <2>3 DEF Atomic!ANext
<1>7. CASE SaveComponent \/ SaveRegisters \/ OutOfMemory \/ LatchRegisters \/ Resume
           \/ ReturnToLoop
  <2>1. Visible' = Visible
    BY <1>7, <1>d DEF SaveComponent, SaveRegisters, OutOfMemory, LatchRegisters, Resume,
       ReturnToLoop, Visible
  <2>2. Restorable' = Restorable
    BY <1>7, <1>b DEF SaveComponent, SaveRegisters, OutOfMemory, LatchRegisters, Resume,
       ReturnToLoop, nvmVars
  <2>3. QED
    BY <2>1, <2>2
<1>8. CASE Interrupt
  <2>1. PICK k \in Shared, v \in Value : ram' = [ram EXCEPT ![k] = v]
    BY <1>8 DEF Interrupt
  <2>2. \A c \in Private : ram'[c] = ram[c]
    BY <2>1 DEF Private, TypeOK, Memory
  <2>3. Running' = Running
    BY <1>8, <2>2 DEF Interrupt, Running, Program
  <2>4. Visible' = Visible
    BY <1>8, <2>3 DEF Interrupt, Visible
  <2>5. Restorable' = Restorable
    BY <1>8, <1>b DEF Interrupt, nvmVars
  <2>6. QED
    BY <2>4, <2>5
<1>9. CASE Commit
  <2>1. pc' = "done" /\ available' = available
    BY <1>9 DEF Commit
  <2>2. Visible = {Running} /\ Visible' = Visible /\ Visible' = {Running'}
    BY <1>9, <1>d DEF Commit, Visible
  <2>3. CASE available
    <3>1. /\ \A c \in Private : ram'[c] = nvm'[RestoreIdx'].mem[c]
          /\ site' = nvm'[RestoreIdx'].site
      BY <2>1 DEF RestoredSoFar, RestoreIdx
    <3>2. Running' = Stored'
      BY <3>1 DEF Running, Stored, Program
    <3>3. Restorable' = {Running'}
      BY <2>1, <2>3, <3>2 DEF Restorable
    <3>4. Atomic!Take
      BY <2>2, <3>3 DEF Atomic!Take
    <3>5. QED
      BY <3>4 DEF Atomic!ANext
  <2>4. CASE ~available
    BY <1>c, <2>1, <2>2, <2>4
  <2>5. QED
    BY <2>3, <2>4
<1>10. CASE ReturnToMain
  <2> USE <1>10 DEF ReturnToMain
  <2>1. Visible = {Running} /\ Visible' = Visible
    BY <1>d DEF Visible
  <2>2. Running = Stored
    BY <1>e DEF RestoredSoFar, Running, Stored, Program
  <2>3. Restorable' = {Stored}
    BY DEF Restorable, Stored, Program, RestoreIdx
  <2>4. Atomic!Take
    BY <2>1, <2>2, <2>3 DEF Atomic!Take
  <2>5. QED
    BY <2>4 DEF Atomic!ANext
<1>11. CASE PowerFail
  <2>1. Visible' = {}
    BY <1>11 DEF PowerFail, Visible
  <2>2. Restorable' = Restorable
    BY <1>11, <1>b DEF PowerFail
  <2>3. Atomic!Fail
    BY <2>1, <2>2 DEF Atomic!Fail
  <2>4. QED
    BY <2>3 DEF Atomic!ANext
<1>12. CASE UNCHANGED vars
  BY <1>12, <1>b, <1>d DEF vars, Visible
<1>13. QED
  BY <1>1, <1>2, <1>3, <1>4, <1>5, <1>6, <1>7, <1>8, <1>9, <1>10, <1>11, <1>12
     DEF Next, Progress

\* The checkpoint core implements an atomic checkpoint of all that interrupts do
\* not write: copying component by component, under power failures and with
\* interrupts writing the rest, cannot be told from saving it all at once.
THEOREM Refinement == Spec => ImplementsAtomic
<1>1. Init => Atomic!AInit
  BY DEF Init, Atomic!AInit, Visible, Restorable
<1>2. QED
  BY <1>1, StepRefines, Invariance, PTL DEF Spec, ImplementsAtomic, Atomic!ASpec
=============================================================================
