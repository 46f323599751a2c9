---------------------------- MODULE DeviceProofs ----------------------------
(***************************************************************************)
(* Theorems about Device for any cartridges, any size of the flash and any *)
(* number of requests passed over: main() leaves the emulator loop's       *)
(* properties alone, and which game a restored or started device runs.     *)
(***************************************************************************)
EXTENDS Device, TLAPS

-----------------------------------------------------------------------------
(* The emulator loop alone.                                                *)

\* The counter and the requests passed over make up at most Skip together:
\* every request that is passed over takes the counter down by one.
Budget ==
  /\ jitCheckpointcount \in 0..Skip
  /\ passed \in Nat
  /\ passed + jitCheckpointcount <= Skip

\* Until the loop has seen a request, the counter stands at zero.
FreshCounter == first => jitCheckpointcount = 0

LoopInv == Budget /\ FreshCounter

\* Every step of the program keeps the counter's budget and its freshness:
\* only Count writes the counter once Reset has initialised it (emulator.c:88).
LEMMA StepKeepsInv == LoopInv /\ [Next]_vars => LoopInv'
<1> SUFFICES ASSUME LoopInv, [Next]_vars PROVE LoopInv'
  OBVIOUS
<1> USE LoopAssumption DEF LoopInv, Budget, FreshCounter
<1>1. CASE Reset
  BY <1>1 DEF Reset
<1>2. CASE Invalidate
  BY <1>2 DEF Invalidate
<1>3. CASE JitSetup
  BY <1>3 DEF JitSetup
<1>4. CASE FirstCheckpoint
  BY <1>4 DEF FirstCheckpoint
<1>15. CASE Prompt
  BY <1>15 DEF Prompt
<1>5. CASE Continue
  BY <1>5 DEF Continue
<1>6. CASE Supply
  BY <1>6 DEF Supply
<1>7. CASE AdcIsr
  BY <1>7 DEF AdcIsr
<1>8. CASE SingleStep
  BY <1>8 DEF SingleStep
<1>9. CASE Test
  BY <1>9 DEF Test
<1>10. CASE Count
  <2>1. CASE jitCheckpointcount = 0
    BY <1>10, <2>1 DEF Count
  <2>2. CASE jitCheckpointcount # 0
    <3>1. /\ jitCheckpointcount' = jitCheckpointcount - 1
          /\ passed' = passed + 1
          /\ first' = FALSE
      BY <1>10, <2>2 DEF Count, PassOver
    <3> QED BY <2>2, <3>1
  <2> QED BY <2>1, <2>2
<1>11. CASE Checkpoint
  BY <1>11 DEF Checkpoint
<1>12. CASE Clear
  BY <1>12 DEF Clear
<1>13. CASE PowerFail
  BY <1>13 DEF PowerFail
<1>14. CASE UNCHANGED vars
  BY <1>14 DEF vars
<1> QED
  BY <1>1, <1>2, <1>3, <1>4, <1>5, <1>6, <1>7, <1>8, <1>9, <1>10, <1>11, <1>12, <1>13, <1>14, <1>15
     DEF Next, Boot, Loop

\* The counter's budget holds in every state, for every Skip (emulator.c:80-96).
THEOREM LoopInvariance == Spec => []LoopInv
<1>1. Init => LoopInv
  BY LoopAssumption DEF Init, LoopInv, Budget, FreshCounter
<1> QED BY <1>1, StepKeepsInv, PTL DEF Spec

\* At most Skip requests are passed over between two checkpoints of a power
\* cycle (emulator.c:88-93).
THEOREM SkipIsBounded == Spec => []SkipBound
<1>1. LoopInv => SkipBound
  BY LoopAssumption DEF LoopInv, Budget, SkipBound
<1> QED BY <1>1, LoopInvariance, PTL

\* The first request the loop sees after any boot is answered with a
\* checkpoint (emulator.c:80, 88).
THEOREM FirstIsAnswered == Spec => FirstAnswered
<1> DEFINE Answers == pc = "count" /\ first /\ pc' # "off" /\ pc' # pc => pc' = "checkpoint"
<1>1. LoopInv /\ [Next]_vars => [Answers]_vars
  <2> SUFFICES ASSUME LoopInv, [Next]_vars, pc = "count", first, pc' # "off", pc' # pc
               PROVE  pc' = "checkpoint"
    BY DEF vars
  <2>1. jitCheckpointcount = 0
    BY DEF LoopInv, FreshCounter
  <2>2. CASE Count
    BY <2>1, <2>2 DEF Count
  <2>3. Count
    BY DEF Next, Boot, Loop, Reset, Invalidate, JitSetup, Prompt, FirstCheckpoint, Continue,
           Supply, AdcIsr, SingleStep, Test, Checkpoint, Clear, PowerFail, vars
  <2> QED BY <2>2, <2>3
<1> QED BY <1>1, LoopInvariance, PTL DEF Spec, FirstAnswered

-----------------------------------------------------------------------------
(* The device.                                                             *)

\* Every step of main() is one of the loop's own or changes nothing of it.
LEMMA StepRefinesLoop == [DeviceNext]_deviceVars => [Next]_vars
<1> SUFFICES ASSUME [DeviceNext]_deviceVars PROVE [Next]_vars
  OBVIOUS
<1>1. CASE DeviceReset \/ Sanity \/ DeviceRun \/ DeviceFail
  BY <1>1 DEF DeviceReset, Sanity, DeviceRun, DeviceFail, Next, Boot
<1>2. CASE Sample1 \/ CheckFlash \/ Sample2
  BY <1>2 DEF Sample1, CheckFlash, Sample2, Next, Boot
<1>3. CASE ErasePage \/ ProgramPage \/ ProgramRest \/ ReadDone
  BY <1>3 DEF ErasePage, ProgramPage, ProgramRest, ReadDone
<1>4. CASE DeviceSetup \/ DevicePrompt \/ DeviceStart
  BY <1>4 DEF DeviceSetup, DevicePrompt, DeviceStart, Next, Boot
<1>5. CASE UNCHANGED deviceVars
  BY <1>5 DEF deviceVars
<1> QED
  BY <1>1, <1>2, <1>3, <1>4, <1>5 DEF DeviceNext, MainSteps

\* The device with its buttons, cartridges and flash implements the emulator
\* loop as EmulatorLoop describes it.
THEOREM DeviceImplementsLoop == DeviceSpec => Spec
<1>1. DeviceInit => Init
  BY DEF DeviceInit
<1> QED
  BY <1>1, StepRefinesLoop, PTL DEF DeviceSpec, Spec

\* At most Skip requests are passed over between two checkpoints of a power
\* cycle, whatever main() does before the loop (emulator.c:88-93).
THEOREM DeviceSkipIsBounded == DeviceSpec => []SkipBound
  BY DeviceImplementsLoop, SkipIsBounded, PTL

\* The first request after any boot is answered with a checkpoint.
THEOREM DeviceFirstIsAnswered == DeviceSpec => FirstAnswered
  BY DeviceImplementsLoop, FirstIsAnswered, PTL

-----------------------------------------------------------------------------
(* A restored game finds the flash it was started with.                    *)

\* A run and what precedes it have a checkpoint; a boot that was asked to
\* restart has none once it has dropped it.
SiteInv ==
  /\ Running \/ pc = "restored" => site # "none"
  /\ pc = "setup" => site = "none"
  /\ pc = "boot" /\ mainPc # "sample1" /\ sampled => site = "none"
  /\ pc = "off" \/ mainPc = "sample1" => ~sampled

\* Flash that was changed under a valid checkpoint was changed by a boot that
\* was not asked to restart.
TouchInv == site # "none" => ~touched \/ lateRead

Booleans == {sampled, touched, lateRead, cut} \subseteq BOOLEAN

RestoreInv == Booleans /\ SiteInv /\ TouchInv

\* Only main()'s first steps look at the buttons, and only they drop or make a
\* checkpoint (main_emulator.c:189-225).
LEMMA StepKeepsRestoreInv == RestoreInv /\ [DeviceNext]_deviceVars => RestoreInv'
<1> SUFFICES ASSUME RestoreInv, [DeviceNext]_deviceVars PROVE RestoreInv'
  OBVIOUS
<1> USE DEF RestoreInv, Booleans, SiteInv, TouchInv, Running, vars, romVars, pastVars
<1>1. CASE DeviceReset
  BY <1>1 DEF DeviceReset, Reset
<1>2. CASE Sample1
  BY <1>2 DEF Sample1, Invalidate
<1>3. CASE CheckFlash \/ Sample2 \/ Sanity
  BY <1>3 DEF CheckFlash, Sample2, Sanity
<1>4. CASE ErasePage
  BY <1>4 DEF ErasePage
<1>5. CASE ProgramPage \/ ProgramRest
  BY <1>5 DEF ProgramPage, ProgramRest
<1>6. CASE ReadDone
  BY <1>6 DEF ReadDone
<1>7. CASE DeviceSetup
  BY <1>7 DEF DeviceSetup, JitSetup
<1>8. CASE DevicePrompt
  BY <1>8 DEF DevicePrompt, Prompt
<1>9. CASE DeviceStart
  BY <1>9 DEF DeviceStart, FirstCheckpoint
<1>10. CASE DeviceRun
  BY <1>10 DEF DeviceRun, Continue, Supply, AdcIsr, Loop, SingleStep, Test, Count, Checkpoint, Clear
<1>11. CASE DeviceFail
  BY <1>11 DEF DeviceFail, PowerFail
<1>12. CASE UNCHANGED deviceVars
  BY <1>12 DEF deviceVars
<1> QED
  BY <1>1, <1>2, <1>3, <1>4, <1>5, <1>6, <1>7, <1>8, <1>9, <1>10, <1>11, <1>12
     DEF DeviceNext, MainSteps

\* The invariant in every state.
LEMMA RestoreInvariance == DeviceSpec => []RestoreInv
<1>1. DeviceInit => RestoreInv
  BY DEF DeviceInit, Init, RestoreInv, Booleans, SiteInv, TouchInv, Running
<1> QED
  BY <1>1, StepKeepsRestoreInv, PTL DEF DeviceSpec

\* A game runs with the flash it was started with, wherever power fails, unless
\* the second sampling of the buttons alone asked for a new cartridge
\* (main_emulator.c:189-225).
THEOREM RestoredRomIsUnchanged == DeviceSpec => []RestoredRomUnchanged
<1>1. RestoreInv => RestoredRomUnchanged
  BY DEF RestoreInv, SiteInv, TouchInv, RestoredRomUnchanged
<1> QED
  BY <1>1, RestoreInvariance, PTL

-----------------------------------------------------------------------------
(* A game that is started has all banks of one cartridge in flash.         *)

\* Division with remainder.
LEMMA Division ==
  ASSUME NEW x \in Int, NEW h \in Nat \ {0}
  PROVE  x = h * (x \div h) + (x % h)
  OBVIOUS

\* A cartridge never has exactly one bank: the number is even, also when it
\* does not fit in a byte (reader.c:56-59).  The loop that copies the banks
\* begins with the second.
LEMMA NotOneBank ==
  ASSUME NEW c \in Codes
  PROVE  BanksOf(c) \in 0..BankMod-1 /\ BanksOf(c) # 1
<1> DEFINE h == BankMod \div 2
           x == 2^c
           q == (2 * x) \div BankMod
           n == (2 * x) % BankMod
<1>1. x \in Int
  BY DeviceAssumption
<1>2. h \in Nat \ {0} /\ BankMod = 2 * h
  BY DeviceAssumption, Division
<1>3. BankMod \in Nat \ {0, 1, 2} /\ 2 * x \in Int
  BY DeviceAssumption, <1>1
<1> HIDE DEF x, h
<1>4. q \in Int /\ n \in 0..BankMod-1
  BY <1>3
<1>5. 2 * x = BankMod * q + n
  BY <1>3, Division
<1> HIDE DEF q, n
<1>6. h * q \in Int
  BY <1>2, <1>4
<1>7. BankMod * q = 2 * (h * q)
  BY <1>2, <1>4
<1>8. n # 1
  BY <1>1, <1>3, <1>4, <1>5, <1>6, <1>7
<1>9. BanksOf(c) \in {n, 2}
  BY DEF BanksOf, n, x
<1> QED
  BY <1>3, <1>4, <1>8, <1>9

\* Flash holds the n banks of one cartridge.
Whole(c) == [cart |-> c, whole |-> TRUE]
Image(n) ==
  \E c \in Codes :
    /\ n = BanksOf(c) /\ n <= Reserved
    /\ \A u \in 0..n-1 : flash[u] = Whole(c)

Copying == pc = "boot" /\ mainPc \in {"erase", "first", "rest"}

\* The units before the one in hand hold the cartridge that is copied.
CopyInv ==
  Copying =>
    /\ cartridge \in Codes
    /\ mainPc # "erase" => unit < Reserved
    /\ \A u \in 0..unit-1 : flash[u] = Whole(cartridge)
    /\ unit > 0 \/ mainPc # "erase" => cut /\ touched

FlashTypeOK == flash \in [Unit -> Copy] /\ unit \in 0..Reserved

\* A header in flash vouches for its image, unless a copy was cut off.
HeaderInv == ~cut /\ flash[0] # Blank => Image(BanksOf(flash[0].cart))

\* So does the size of a game that is about to be started, and the size in the
\* checkpoint of a game whose flash was not changed.
SizeInv ==
  /\ ~cut /\ site = "none" /\ romSize # 0
     /\ (pc = "setup" \/ (pc = "boot" /\ mainPc \in {"sample2", "sanity", "ready"}))
       => Image(romSize)
  /\ ~cut /\ site # "none" /\ ~touched => Image(savedRom)
  /\ Running \/ pc = "restored" => romSize = savedRom

ImageInv == RestoreInv /\ FlashTypeOK /\ CopyInv /\ HeaderInv /\ SizeInv

\* The end of the copy keeps it: the image is whole when the copy reached the
\* last bank, and there is no game when there was nothing to copy.
LEMMA ReadDoneKeepsImageInv ==
  ASSUME ImageInv, RestoreInv', ReadDone
  PROVE  ImageInv'
<1>1. /\ pc = "boot" /\ mainPc = "erase" /\ Copying
      /\ cartridge \in Codes /\ unit \in 0..Reserved
      /\ unit > 0 => cut /\ touched
      /\ \A u \in 0..unit-1 : flash[u] = Whole(cartridge)
  BY DEF ReadDone, ImageInv, CopyInv, FlashTypeOK, Copying
<1>2. /\ mainPc' = "ready" /\ unit' = 0 /\ pc' = pc /\ site' = site
      /\ flash' = flash /\ touched' = touched /\ savedRom' = savedRom
      /\ cut' = (cut /\ ~(AllRead(unit) /\ unit > 0))
  BY DEF ReadDone, vars
<1>3. CopyInv' /\ FlashTypeOK'
  BY <1>1, <1>2, DeviceAssumption DEF CopyInv, FlashTypeOK, Copying, ImageInv
<1>4. BanksOf(cartridge) \in Nat /\ BanksOf(cartridge) # 1
  BY <1>1, NotOneBank, DeviceAssumption
<1>5. CASE AllRead(unit) /\ unit > 0
  <2>1. BanksOf(cartridge) <= unit /\ BanksOf(cartridge) <= Reserved
    BY <1>1, <1>4, <1>5, DeviceAssumption DEF AllRead, Round
  <2>2. 0 \in 0..unit-1
    BY <1>1, <1>5, DeviceAssumption
  <2>3. PICK c \in Codes : c = cartridge
    BY <1>1
  <2>4. flash[0] = Whole(c)
    BY <1>1, <2>2, <2>3
  <2>5. flash[0].cart = c
    BY <2>4 DEF Whole
  <2>6. \A u \in 0..BanksOf(c)-1 : flash[u] = Whole(c)
    BY <1>1, <1>4, <2>1, <2>3, DeviceAssumption
  <2>7. Image(BanksOf(c))'
    BY <1>2, <2>1, <2>6, <2>3 DEF Image
  <2>8. romSize' = BanksOf(c)
    BY <1>5, <2>3 DEF ReadDone
  <2>9. HeaderInv'
    BY <1>2, <2>5, <2>7 DEF HeaderInv
  <2>10. SizeInv'
    BY <1>1, <1>2, <1>5, <2>7, <2>8 DEF SizeInv, Running
  <2> QED
    BY <1>3, <2>9, <2>10 DEF ImageInv
<1>6. CASE ~(AllRead(unit) /\ unit > 0)
  <2>1. cut \/ unit = 0
    BY <1>1
  <2>2. unit = 0 => AllRead(unit)
    BY DeviceAssumption DEF ReadDone, TooBig, Round
  <2>3. ~cut => BanksOf(cartridge) = 0
    BY <1>4, <2>1, <2>2 DEF AllRead, Round
  <2>4. ~cut => romSize' = 0
    BY <2>1, <2>2, <2>3 DEF ReadDone
  <2>5. cut' = cut
    BY <1>2, <1>6, <2>1 DEF ImageInv, RestoreInv, Booleans
  <2>6. HeaderInv'
    BY <1>2, <2>5 DEF HeaderInv, Image, ImageInv
  <2>7. SizeInv'
    BY <1>1, <1>2, <2>4, <2>5 DEF SizeInv, Image, ImageInv, Running
  <2> QED
    BY <1>3, <2>6, <2>7 DEF ImageInv
<1> QED
  BY <1>5, <1>6

\* Every step of main(), of the loop and of a power failure keeps it.
LEMMA StepKeepsImageInv == ImageInv /\ [DeviceNext]_deviceVars => ImageInv'
<1> SUFFICES ASSUME ImageInv, [DeviceNext]_deviceVars PROVE ImageInv'
  OBVIOUS
<1>0. RestoreInv'
  BY StepKeepsRestoreInv DEF ImageInv
<1> USE <1>0, DeviceAssumption
        DEF ImageInv, RestoreInv, Booleans, SiteInv, FlashTypeOK, CopyInv, HeaderInv, SizeInv,
            Copying, Running, Image, Unit, romVars, pastVars
<1>1. CASE DeviceReset
  BY <1>1 DEF DeviceReset, Reset
<1>2. CASE Sample1
  BY <1>2 DEF Sample1, Invalidate, vars
<1>3. CASE CheckFlash
  BY <1>3 DEF CheckFlash, Accepted, vars
<1>4. CASE Sample2
  BY <1>4 DEF Sample2, vars
<1>5. CASE Sanity
  BY <1>5 DEF Sanity, vars
<1>6. CASE ErasePage
  BY <1>6 DEF ErasePage, TooBig, Round, vars, Copy
<1>7. CASE ProgramPage
  BY <1>7 DEF ProgramPage, vars, Copy
<1>8. CASE ProgramRest
  <2>1. /\ Copying /\ mainPc = "rest" /\ cut /\ unit \in 0..Reserved-1
        /\ flash' = [flash EXCEPT ![unit] = Whole(cartridge)]
        /\ unit' = unit + 1 /\ mainPc' = "erase" /\ cut' = cut /\ touched' = touched
        /\ cartridge' = cartridge /\ pc' = pc
    BY <1>8 DEF ProgramRest, vars, Whole
  <2>2. Whole(cartridge) \in Copy
    BY <2>1 DEF Whole, Copy
  <2>3. FlashTypeOK'
    BY <2>1, <2>2
  <2>4. \A u \in 0..unit'-1 : flash'[u] = Whole(cartridge)
    BY <2>1
  <2>5. CopyInv'
    BY <2>1, <2>4
  <2>6. HeaderInv' /\ SizeInv'
    BY <1>8, <2>1 DEF ProgramRest, vars
  <2> QED
    BY <2>3, <2>5, <2>6
<1>9. CASE ReadDone
  BY <1>9, <1>0, ReadDoneKeepsImageInv
<1>10. CASE DeviceSetup
  BY <1>10 DEF DeviceSetup, JitSetup
<1>11. CASE DevicePrompt
  BY <1>11 DEF DevicePrompt, Prompt
<1>12. CASE DeviceStart
  BY <1>12 DEF DeviceStart, FirstCheckpoint
<1>13. CASE DeviceRun
  BY <1>13 DEF DeviceRun, Continue, Supply, AdcIsr, Loop, SingleStep, Test, Count, Checkpoint, Clear
<1>14. CASE DeviceFail
  BY <1>14 DEF DeviceFail, PowerFail
<1>15. CASE UNCHANGED deviceVars
  BY <1>15 DEF deviceVars, vars
<1> QED
  BY <1>1, <1>2, <1>3, <1>4, <1>5, <1>6, <1>7, <1>8, <1>9, <1>10, <1>11, <1>12, <1>13, <1>14,
     <1>15 DEF DeviceNext, MainSteps

\* The invariant in every state.
LEMMA ImageInvariance == DeviceSpec => []ImageInv
<1>1. DeviceInit => RestoreInv
  BY DEF DeviceInit, Init, RestoreInv, Booleans, SiteInv, TouchInv, Running
<1>2. DeviceInit => ImageInv
  BY <1>1, DeviceAssumption
     DEF DeviceInit, Init, ImageInv, FlashTypeOK, CopyInv, HeaderInv, SizeInv, Copying, Running,
         Unit, Copy
<1> QED
  BY <1>2, StepKeepsImageInv, PTL DEF DeviceSpec

\* A game that is started, or runs with the flash it was started with, has all
\* banks of one cartridge there, for any cartridges and any size of the flash,
\* unless a copy was cut off (reader.c:43-63, 116-158, emulator.c:26).
THEOREM GameIsWhole == DeviceSpec => []GameWhole
<1>1. ImageInv => GameWhole
  BY DEF ImageInv, RestoreInv, SiteInv, SizeInv, GameWhole, Running, Image, Whole
<1> QED
  BY <1>1, ImageInvariance, PTL

-----------------------------------------------------------------------------
(* Types.                                                                  *)

\* Every step keeps the types: the number of banks stays in its byte, and the
\* copy inside the flash.
LEMMA StepKeepsTypes ==
  DeviceTypeOK /\ ImageInv /\ [DeviceNext]_deviceVars => DeviceTypeOK'
<1> SUFFICES ASSUME DeviceTypeOK, ImageInv, [DeviceNext]_deviceVars PROVE DeviceTypeOK'
  OBVIOUS
<1>0. 2 \in 0..BankMod-1 /\ 0 \in 0..BankMod-1 /\ BankMod \in Nat /\ Reserved \in Nat
      /\ \A c \in Codes : BanksOf(c) \in 0..BankMod-1
  BY DeviceAssumption, NotOneBank
<1>1. CopyInv /\ FlashTypeOK
  BY DEF ImageInv
<1>17. /\ 0 \in 0..Skip /\ Skip \in 0..Skip /\ 0 \in 0..Skip+1 /\ 0 \in 0..Reserved
       /\ \A n \in 0..Skip : n # 0 => n - 1 \in 0..Skip
       /\ \A n \in 0..Skip+1 : ~(n > Skip) => n + 1 \in 0..Skip+1
  BY LoopAssumption, DeviceAssumption
<1> USE DEF DeviceTypeOK, romVars, pastVars
<1>2. CASE DeviceReset
  BY <1>2, <1>17 DEF DeviceReset, Reset
<1>3. CASE Sample1
  BY <1>3 DEF Sample1, Invalidate, vars
<1>4. CASE CheckFlash
  <2>1. flash[0] # Blank => flash[0].cart \in Codes
    <3>1. flash[0] \in Copy
      BY DeviceAssumption DEF Unit
    <3> QED
      BY <3>1 DEF Copy
  <2> QED
    BY <1>0, <1>4, <2>1 DEF CheckFlash, Accepted, vars
<1>5. CASE Sample2
  BY <1>5 DEF Sample2, vars
<1>6. CASE Sanity
  BY <1>0, <1>6, <1>17 DEF Sanity, vars
<1>7. CASE ErasePage
  <2>1. Blank \in Copy
    BY DEF Copy
  <2> QED
    BY <1>7, <2>1 DEF ErasePage, vars
<1>8. CASE ProgramPage
  <2>1. cartridge \in Codes
    BY <1>1, <1>8 DEF ProgramPage, CopyInv, Copying
  <2>2. [cart |-> cartridge, whole |-> FALSE] \in Copy
    BY <2>1 DEF Copy
  <2> QED
    BY <1>8, <2>2 DEF ProgramPage, vars
<1>9. CASE ProgramRest
  <2>1. cartridge \in Codes /\ unit + 1 \in 0..Reserved
    BY <1>0, <1>1, <1>9 DEF ProgramRest, CopyInv, Copying
  <2>2. [cart |-> cartridge, whole |-> TRUE] \in Copy
    BY <2>1 DEF Copy
  <2> QED
    BY <1>9, <2>1, <2>2 DEF ProgramRest, vars
<1>10. CASE ReadDone
  <2>1. cartridge \in Codes
    BY <1>1, <1>10 DEF ReadDone, CopyInv, Copying
  <2> QED
    BY <1>0, <1>10, <1>17, <2>1 DEF ReadDone, vars
<1>11. CASE DeviceSetup
  BY <1>11 DEF DeviceSetup, JitSetup
<1>12. CASE DevicePrompt
  BY <1>12 DEF DevicePrompt, Prompt
<1>13. CASE DeviceStart
  BY <1>13, <1>17 DEF DeviceStart, FirstCheckpoint
<1>14. CASE DeviceRun
  <2>1. CASE Continue \/ Supply \/ AdcIsr
    BY <1>14, <2>1 DEF DeviceRun, Continue, Supply, AdcIsr
  <2>2. CASE SingleStep \/ Test \/ Checkpoint \/ Clear
    BY <1>14, <2>2 DEF DeviceRun, SingleStep, Test, Checkpoint, Clear
  <2>3. CASE Count
    BY <1>14, <1>17, <2>3 DEF DeviceRun, Count, PassOver
  <2> QED
    BY <1>14, <2>1, <2>2, <2>3 DEF DeviceRun, Loop
<1>15. CASE DeviceFail
  BY <1>0, <1>15, <1>17 DEF DeviceFail, PowerFail
<1>16. CASE UNCHANGED deviceVars
  BY <1>16 DEF deviceVars, vars
<1> QED
  BY <1>2, <1>3, <1>4, <1>5, <1>6, <1>7, <1>8, <1>9, <1>10, <1>11, <1>12, <1>13, <1>14, <1>15,
     <1>16 DEF DeviceNext, MainSteps

\* Type correctness of the device.
THEOREM DeviceTypeCorrect == DeviceSpec => []DeviceTypeOK
<1>1. DeviceInit => DeviceTypeOK
  <2>1. 0 \in 0..BankMod-1 /\ 0 \in 0..Reserved /\ 0 \in 0..Skip /\ 0 \in 0..Skip+1
    BY DeviceAssumption, LoopAssumption
  <2>2. Blank \in Copy
    BY DEF Copy
  <2> QED
    BY <2>1, <2>2 DEF DeviceInit, Init, DeviceTypeOK
<1> QED
  BY <1>1, StepKeepsTypes, ImageInvariance, PTL DEF DeviceSpec
=============================================================================
