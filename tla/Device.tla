------------------------------- MODULE Device -------------------------------
(***************************************************************************)
(* main() from power on to the loop: the buttons held while the device is  *)
(* powered decide whether the last checkpoint is dropped and whether a     *)
(* cartridge is copied to flash, and then the game is restored or started. *)
(* The ADC interrupt, the checkpoints and the loop are EmulatorLoop's.     *)
(* Power may fail between any two steps; flash keeps what was programmed.  *)
(*                                                                         *)
(* Sizes are in banks of 16 KB, which are also the units of flash.  A      *)
(* cartridge is identified with the ROM size code of its header, and its   *)
(* bank u goes to unit u (see CartridgeBus).  main() configures START and  *)
(* SELECT as inputs but not A, which is read all the same: every button    *)
(* may read as pressed or not, at each of the two samplings.               *)
(***************************************************************************)
EXTENDS EmulatorLoop, Integers

CONSTANTS
  Codes,     \* ROM size codes of the cartridges, at $0148 in the header
  BankMod,   \* numRomBanks is a byte: 256
  Reserved   \* GameRomEnd - GameRomStart

ASSUME DeviceAssumption ==
  /\ Codes \subseteq Nat
  /\ BankMod \in Nat \ {0, 1, 2} /\ BankMod % 2 = 0
  /\ Reserved \in Nat \ {0, 1}

VARIABLES
  flash,              \* what each unit of the reserved flash holds
  romSize,            \* Stored_ROM.size
  cartridgeSizeBytes,
  savedRom,           \* both in the last checkpoint
  mainPc,             \* where main() is before jit_setup
  cartridge,          \* the cartridge that is being read
  unit,               \* the unit that is written next
  \* history
  sampled,   \* did the first sampling of this boot ask for a restart?
  touched,   \* was flash changed since the game's first checkpoint?
  lateRead,  \* was one of these changes made by a boot that was not to restart?
  cut        \* did the last copy that began not reach the last bank?

romVars    == <<romSize, cartridgeSizeBytes>>
pastVars   == <<touched, lateRead, cut>>
deviceVars == <<vars, flash, romVars, savedRom, mainPc, cartridge, unit, sampled, pastVars>>

Unit  == 0..Reserved-1
Blank == [cart |-> -1, whole |-> FALSE]
Copy  == {Blank} \cup [cart: Codes, whole: BOOLEAN]

DeviceInit ==
  /\ Init
  /\ flash = [u \in Unit |-> Blank]
  /\ romSize = 0 /\ cartridgeSizeBytes = 0 /\ savedRom = 0
  /\ mainPc = "sample1" /\ cartridge = -1 /\ unit = 0
  /\ sampled = FALSE /\ touched = FALSE /\ lateRead = FALSE /\ cut = FALSE

DeviceTypeOK ==
  /\ flash \in [Unit -> Copy]
  /\ romSize \in 0..BankMod-1 /\ cartridgeSizeBytes \in 0..BankMod-1
  /\ savedRom \in 0..BankMod-1
  /\ mainPc \in {"sample1", "check", "sample2", "sanity", "erase", "first", "rest", "ready"}
  /\ cartridge \in Codes \cup {-1} /\ unit \in 0..Reserved
  /\ pc \in {"off", "boot", "setup", "prompt", "restored", "step", "test", "count",
             "checkpoint", "clear"}
  /\ jit_checkpoint \in {0, 1} /\ jitCheckpointcount \in 0..Skip
  /\ site \in {"none", "main", "loop"} /\ passed \in 0..Skip+1
  /\ {adc, low, first, sampled, touched, lateRead, cut} \subseteq BOOLEAN

-----------------------------------------------------------------------------

\* Mutant: the number of banks is not kept in a byte.
BanksOfWide(code) == IF code >= 1 THEN 2 * 2^code ELSE 2

\* numRomBanks, from the header.
BanksOf(code) == IF code >= 1 THEN (2 * 2^code) % BankMod ELSE 2

DeviceReset ==
  /\ Reset
  /\ mainPc' = "sample1"
  /\ UNCHANGED <<flash, romVars, savedRom, cartridge, unit, sampled, pastVars>>

\* Mutant: START and A do not drop the checkpoint.
Sample1SelectOnly ==
  /\ pc = "boot" /\ mainPc = "sample1"
  /\ \/ Invalidate /\ sampled' = TRUE
     \/ UNCHANGED vars /\ sampled' \in BOOLEAN
  /\ mainPc' = "check"
  /\ UNCHANGED <<flash, romVars, savedRom, cartridge, unit, pastVars>>

\* START with SELECT or with A: drop the checkpoint.
Sample1 ==
  /\ pc = "boot" /\ mainPc = "sample1"
  /\ \/ Invalidate /\ sampled' = TRUE
     \/ UNCHANGED vars /\ sampled' = FALSE
  /\ mainPc' = "check"
  /\ UNCHANGED <<flash, romVars, savedRom, cartridge, unit, pastVars>>

\* checkSavedCartridge: a header is accepted when one of two bytes is right, which
\* is not so in erased flash.
Accepted == flash[0] # Blank

\* Without a checkpoint the memory is cleared and the game in flash is looked at.
CheckFlash ==
  /\ pc = "boot" /\ mainPc = "check"
  /\ IF site # "none" THEN UNCHANGED romVars
     ELSE LET size == IF Accepted THEN BanksOf(flash[0].cart) ELSE 0
          IN romSize' = size /\ cartridgeSizeBytes' = size
  /\ mainPc' = "sample2"
  /\ UNCHANGED <<vars, flash, savedRom, cartridge, unit, sampled, pastVars>>

\* START with A: read the cartridge.
Sample2 ==
  /\ pc = "boot" /\ mainPc = "sample2"
  /\ \E read \in BOOLEAN : mainPc' = IF read THEN "sanity" ELSE "ready"
  /\ UNCHANGED <<vars, flash, romVars, savedRom, cartridge, unit, sampled, pastVars>>

\* cartridgeConfig and cartridgeReadInfo.  Without a cartridge the device stays in
\* cartridgeConfig.
Sanity ==
  /\ pc = "boot" /\ mainPc = "sanity"
  /\ cartridge' \in Codes
  /\ mainPc' = "erase" /\ unit' = 0
  /\ UNCHANGED <<vars, flash, romVars, savedRom, sampled, pastVars>>

-----------------------------------------------------------------------------
(* cartridgeReadRom.  Its first round copies two units.                    *)

Round(u)  == IF u = 0 THEN 1 ELSE u
TooBig(u) == Round(u) >= Reserved

\* Mutant: the last bank is left out.
AllReadShort(u) == Round(u) + 1 >= BanksOf(cartridge)

\* The loop's condition.
AllRead(u) == Round(u) >= BanksOf(cartridge)

\* A unit's first page is erased; its header is gone when it is the first unit's.
ErasePage ==
  /\ pc = "boot" /\ mainPc = "erase" /\ ~AllRead(unit) /\ ~TooBig(unit)
  /\ flash' = [flash EXCEPT ![unit] = Blank]
  /\ mainPc' = "first"
  /\ cut' = TRUE /\ touched' = TRUE /\ lateRead' = (lateRead \/ ~sampled)
  /\ UNCHANGED <<vars, romVars, savedRom, cartridge, unit, sampled>>

ProgramPage ==
  /\ pc = "boot" /\ mainPc = "first"
  /\ flash' = [flash EXCEPT ![unit] = [cart |-> cartridge, whole |-> FALSE]]
  /\ mainPc' = "rest"
  /\ UNCHANGED <<vars, romVars, savedRom, cartridge, unit, sampled, pastVars>>

\* The other page of the unit.
ProgramRest ==
  /\ pc = "boot" /\ mainPc = "rest"
  /\ flash' = [flash EXCEPT ![unit] = [cart |-> cartridge, whole |-> TRUE]]
  /\ mainPc' = "erase" /\ unit' = unit + 1
  /\ UNCHANGED <<vars, romVars, savedRom, cartridge, sampled, pastVars>>

\* All banks were read, or the next does not fit and the size stays what it was.
\* Then emulatorSetRomSize.
ReadDone ==
  /\ pc = "boot" /\ mainPc = "erase" /\ (AllRead(unit) \/ TooBig(unit))
  /\ cartridgeSizeBytes' = IF AllRead(unit) THEN BanksOf(cartridge) ELSE cartridgeSizeBytes
  /\ romSize' = cartridgeSizeBytes'
  /\ cut' = (cut /\ ~(AllRead(unit) /\ unit > 0))
  /\ mainPc' = "ready" /\ unit' = 0 /\ cartridge' = -1
  /\ UNCHANGED <<vars, flash, savedRom, sampled, touched, lateRead>>

-----------------------------------------------------------------------------

\* checkpoint_restore, which ends in jit_setup too, or emulatorConfigIO.
DeviceSetup ==
  /\ JitSetup /\ mainPc = "ready"
  /\ IF site = "none" THEN UNCHANGED romVars
                      ELSE romSize' = savedRom /\ cartridgeSizeBytes' = savedRom
  /\ UNCHANGED <<flash, savedRom, mainPc, cartridge, unit, sampled, pastVars>>

\* emulatorSetup without a game.
DevicePrompt ==
  /\ Prompt /\ romSize = 0
  /\ UNCHANGED <<flash, romVars, savedRom, mainPc, cartridge, unit, sampled, pastVars>>

\* emulatorSetup with a game, and its first checkpoint.
DeviceStart ==
  /\ FirstCheckpoint /\ romSize # 0
  /\ savedRom' = romSize
  /\ touched' = FALSE /\ lateRead' = FALSE
  /\ UNCHANGED <<flash, romVars, mainPc, cartridge, unit, sampled, cut>>

\* The game's steps, and the checkpoints in the loop, which save the sizes again.
DeviceRun ==
  /\ Continue \/ Supply \/ AdcIsr \/ Loop
  /\ UNCHANGED <<flash, romVars, savedRom, mainPc, cartridge, unit, sampled, pastVars>>

\* Power fails; the player may change the cartridge.  The sizes are lost, and read
\* as zero here: a boot writes both before it looks at them, or restores them.
DeviceFail ==
  /\ PowerFail
  /\ mainPc' = "sample1" /\ cartridge' = -1 /\ unit' = 0 /\ sampled' = FALSE
  /\ romSize' = 0 /\ cartridgeSizeBytes' = 0
  /\ UNCHANGED <<flash, savedRom, pastVars>>

MainSteps ==
  \/ Sample1 \/ CheckFlash \/ Sample2
  \/ ErasePage \/ ProgramPage \/ ProgramRest \/ ReadDone
  \/ DeviceSetup \/ DevicePrompt \/ DeviceStart

DeviceNext == DeviceReset \/ Sanity \/ MainSteps \/ DeviceRun \/ DeviceFail

\* As in EmulatorLoop, nothing is assumed about the supply, the interrupt and the
\* player, who decides whether there is a cartridge and Sanity succeeds.
DeviceSpec ==
  /\ DeviceInit /\ [][DeviceNext]_deviceVars
  /\ WF_deviceVars(MainSteps \/ (DeviceRun /\ (Continue \/ Loop)))

-----------------------------------------------------------------------------
(* Properties.                                                             *)

Running == pc \in {"step", "test", "count", "checkpoint", "clear"}

\* A game that runs has in flash what was there when it was started: a cartridge
\* that is loaded replaces the game and its checkpoint, or neither, wherever
\* power fails (main_emulator.c:189-225).  The exception is a boot whose first
\* sampling saw no buttons and whose second did: it replaces the flash under a
\* checkpoint that is then restored.
RestoredRomUnchanged == Running => ~touched \/ lateRead

\* A game that is started, or runs with the flash it was started with, has all
\* banks of one cartridge there, as many as it was told, whatever was in flash
\* before and however often it was restored (reader.c:43-63, 116-158, emulator.c:26).
\* The exception is an image whose copy was cut off by a power failure, or because
\* the ROM is too big: its header is accepted.
GameWhole ==
  ~cut /\ ((pc = "setup" /\ romSize # 0) \/ (Running /\ ~touched)) =>
    \E c \in Codes :
      /\ romSize = BanksOf(c) /\ romSize <= Reserved
      /\ \A u \in 0..romSize-1 : flash[u] = [cart |-> c, whole |-> TRUE]
=============================================================================
