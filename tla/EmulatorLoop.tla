---------------------------- MODULE EmulatorLoop ----------------------------
(***************************************************************************)
(* emulatorRun and the ADC interrupt that asks for a checkpoint when the   *)
(* supply is low.  The loop looks at the interrupt's flag between two      *)
(* steps of the game; of the requests it sees it answers the first of a    *)
(* power cycle and then every sixth.  checkpoint() is one step here (it is *)
(* CheckpointCore's subject), except that power may fail before it.        *)
(*                                                                         *)
(* jit_checkpoint and jitCheckpointcount are in the norestore sections:    *)
(* every boot initialises them and no checkpoint saves them.               *)
(***************************************************************************)
EXTENDS Naturals

CONSTANT Skip  \* how many requests are passed over after a checkpoint, 5

ASSUME LoopAssumption == Skip \in Nat \ {0}

VARIABLES
  jit_checkpoint,      \* the flag the interrupt sets
  jitCheckpointcount,
  adc,                 \* is the ADC interrupt enabled?
  low,                 \* is the supply below jitTriggerThreshold?
  site,                \* the checkpoint a boot restores: none, or the call in main or the loop
  pc,                  \* "off" without power, "prompt" without a game
  first,               \* history: no request was seen yet in this power cycle
  passed               \* history: requests passed over since the last checkpoint,
                       \* counted no further than Skip + 1

vars == <<jit_checkpoint, jitCheckpointcount, adc, low, site, pc, first, passed>>

Init ==
  /\ jit_checkpoint = 0 /\ jitCheckpointcount = 0 /\ adc = FALSE /\ low = FALSE
  /\ site = "none" /\ pc = "off"
  /\ first = TRUE /\ passed = 0

-----------------------------------------------------------------------------
(* Boot.                                                                   *)

\* Mutant: the counter is in the checkpointed sections, with the value it had
\* in checkpoint().
ResetRestoresCount ==
  /\ pc = "off"
  /\ jit_checkpoint' = 0 /\ adc' = FALSE
  /\ jitCheckpointcount' = IF site = "loop" THEN Skip ELSE 0
  /\ pc' = "boot"
  /\ first' = TRUE /\ passed' = 0
  /\ UNCHANGED <<low, site>>

\* Reset_Handler initialises the norestore sections.
Reset ==
  /\ pc = "off"
  /\ jit_checkpoint' = 0 /\ jitCheckpointcount' = 0 /\ adc' = FALSE
  /\ pc' = "boot"
  /\ first' = TRUE /\ passed' = 0
  /\ UNCHANGED <<low, site>>

\* The player asks for a restart with the buttons.
Invalidate ==
  /\ pc = "boot"
  /\ site' = "none"
  /\ UNCHANGED <<jit_checkpoint, jitCheckpointcount, adc, low, pc, first, passed>>

\* jit_setup, from emulatorConfigIO: on a first boot before main's own
\* checkpoint, else as one of the last steps of the restore.  The interrupt is
\* enabled before the flag is cleared, and a request in between is lost.
JitSetup ==
  /\ pc = "boot"
  /\ adc' = TRUE /\ jit_checkpoint' = 0
  /\ pc' = IF site = "none" THEN "setup" ELSE "restored"
  /\ UNCHANGED <<jitCheckpointcount, low, site, first, passed>>

\* emulatorSetup without a game: it asks the player to load one and stays there,
\* with the interrupt enabled.
Prompt ==
  /\ pc = "setup"
  /\ pc' = "prompt"
  /\ UNCHANGED <<jit_checkpoint, jitCheckpointcount, adc, low, site, first, passed>>

\* main() takes the first checkpoint of a game, validates it and enters the loop.
FirstCheckpoint ==
  /\ pc = "setup"
  /\ site' = "main"
  /\ pc' = "step"
  /\ passed' = 0
  /\ UNCHANGED <<low, jit_checkpoint, jitCheckpointcount, adc, first>>

\* restore_registers: the run goes on behind the call that took the checkpoint.
Continue ==
  /\ pc = "restored"
  /\ pc' = IF site = "main" THEN "step" ELSE "clear"
  /\ UNCHANGED <<jit_checkpoint, jitCheckpointcount, adc, low, site, first, passed>>

-----------------------------------------------------------------------------
(* The supply, and am_adc_isr outside of the window.                       *)

Supply ==
  /\ low' = ~low
  /\ UNCHANGED <<jit_checkpoint, jitCheckpointcount, adc, site, pc, first, passed>>

AdcIsr ==
  /\ adc /\ pc # "off" /\ low
  /\ jit_checkpoint' = 1
  /\ UNCHANGED <<jitCheckpointcount, adc, low, site, pc, first, passed>>

-----------------------------------------------------------------------------
(* emulatorRun.                                                            *)

SingleStep ==
  /\ pc = "step"
  /\ pc' = "test"
  /\ UNCHANGED <<jit_checkpoint, jitCheckpointcount, adc, low, site, first, passed>>

Test ==
  /\ pc = "test"
  /\ pc' = IF jit_checkpoint = 1 THEN "count" ELSE "step"
  /\ UNCHANGED <<jit_checkpoint, jitCheckpointcount, adc, low, site, first, passed>>

PassOver == IF passed > Skip THEN passed ELSE passed + 1

\* Mutant: the counter begins again with every request that is passed over.
CountRestarts ==
  /\ pc = "count"
  /\ jitCheckpointcount' = Skip
  /\ pc' = IF jitCheckpointcount = 0 THEN "checkpoint" ELSE "clear"
  /\ passed' = IF jitCheckpointcount = 0 THEN 0 ELSE PassOver
  /\ first' = FALSE
  /\ UNCHANGED <<jit_checkpoint, adc, low, site>>

\* Mutant: the counter is not taken down.
CountStays ==
  /\ pc = "count"
  /\ IF jitCheckpointcount = 0
     THEN jitCheckpointcount' = Skip /\ passed' = 0 /\ pc' = "checkpoint"
     ELSE passed' = PassOver /\ pc' = "clear" /\ UNCHANGED jitCheckpointcount
  /\ first' = FALSE
  /\ UNCHANGED <<jit_checkpoint, adc, low, site>>

\* The loop has seen a request.
Count ==
  /\ pc = "count"
  /\ IF jitCheckpointcount = 0
     THEN jitCheckpointcount' = Skip /\ passed' = 0 /\ pc' = "checkpoint"
     ELSE jitCheckpointcount' = jitCheckpointcount - 1 /\ passed' = PassOver /\ pc' = "clear"
  /\ first' = FALSE
  /\ UNCHANGED <<jit_checkpoint, adc, low, site>>

\* The commit in checkpoint(); the copies precede it.
Checkpoint ==
  /\ pc = "checkpoint"
  /\ site' = "loop"
  /\ pc' = "clear"
  /\ UNCHANGED <<low, jit_checkpoint, jitCheckpointcount, adc, first, passed>>

\* The flag is cleared after the request was answered, also when another
\* interrupt has set it again meanwhile.
Clear ==
  /\ pc = "clear"
  /\ jit_checkpoint' = 0
  /\ pc' = "step"
  /\ UNCHANGED <<jitCheckpointcount, adc, low, site, first, passed>>

PowerFail ==
  /\ pc # "off"
  /\ pc' = "off" /\ adc' = FALSE
  /\ UNCHANGED <<jit_checkpoint, jitCheckpointcount, low, site, first, passed>>

Boot == Reset \/ Invalidate \/ JitSetup \/ Prompt \/ FirstCheckpoint \/ Continue
Loop == SingleStep \/ Test \/ Count \/ Checkpoint \/ Clear
Next == Boot \/ Supply \/ AdcIsr \/ Loop \/ PowerFail

Spec == Init /\ [][Next]_vars

-----------------------------------------------------------------------------
(* Properties.                                                             *)

\* The first request the loop sees after a boot is answered with a checkpoint,
\* whatever the counter stood at when the power failed or the checkpoint that
\* was restored was taken (emulator.c:80, CHECKPOINT_EXCLUDE_BSS): however short
\* the power cycles are, one that sees a request tries to save its progress.
FirstAnswered == [][pc = "count" /\ first /\ pc' # "off" /\ pc' # pc => pc' = "checkpoint"]_vars

\* Never are more than Skip requests passed over between two checkpoints of a
\* power cycle (emulator.c:88-93), which bounds the time during which the supply
\* may be low and nothing is saved.
SkipBound == passed <= Skip

\* If power stays, a game runs and requests keep coming, checkpoints keep being taken, even
\* though requests are lost that come while an earlier one is answered
\* (emulator.c:95).
RequestsServed ==
  <>[](pc \notin {"off", "prompt"}) /\ []<>(jit_checkpoint = 1) => []<>(pc = "checkpoint")
=============================================================================
