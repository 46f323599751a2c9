---------------------------- MODULE MPatchSlots ----------------------------
(***************************************************************************)
(* The pending-patch slots of MPatch.  An application enables a slot and   *)
(* gives it a range; every checkpoint stages the enabled slots one after   *)
(* the other (mpatch_stage_cond_retry), sweeping once when no memory is    *)
(* left.  The chain and the allocator are MPatch's subject: here a patch   *)
(* takes one unit of room and a sweep frees any number of units that are   *)
(* not in use by this checkpoint.  The type MPATCH_TYPE_UNCHANGED and the  *)
(* field max_range, which nothing reads, are left out.                     *)
(***************************************************************************)
EXTENDS Naturals, FiniteSets

CONSTANTS
  NSlots,     \* MPATCH_PENDING_SLOTS, 1 as configured
  MaxAddr,    \* addresses are 0..MaxAddr
  Room,       \* patches that fit in memory
  CallLimit   \* calls of the application in a behaviour

ASSUME SlotsAssumption ==
  NSlots \in Nat \ {0} /\ MaxAddr \in Nat /\ Room \in Nat /\ CallLimit \in Nat

VARIABLES
  pending,     \* mpatch_pending_patches
  saved,       \* mpatch_pending_patches_nvm, the copy of the checkpoint in progress
  committed,   \* mpatch_pending_patches_nvm, the copy a restore reads
  id, retry, second_try,  \* of mpatch_stage_cond_retry
  room,
  slotPc,
  \* history
  stored,      \* the slots stored by this staging, with the range of the patch
  unsaved,     \* addresses written in a slot's range and in no finished staging
  skipped,     \* slots that a staging reported as done without storing them
  calls

stagingVars == <<id, retry, second_try, stored>>
slotVars == <<pending, saved, committed, room, slotPc, stagingVars, unsaved, skipped, calls>>

Slot   == 0..NSlots-1
Ranges == {r \in [low: 0..MaxAddr, high: 0..MaxAddr] : r.low <= r.high}
Types  == {"continuous", "singleshot"}

\* mpatch_init clears the slots.
Cleared == [type |-> "continuous", range |-> [low |-> 0, high |-> 0],
            max_pending_range |-> [low |-> 0, high |-> 0], enabled |-> FALSE]

Addresses(r) == r.low .. r.high

SlotsInit ==
  /\ pending = [s \in Slot |-> Cleared] /\ saved = pending /\ committed = pending
  /\ id = 0 /\ retry = TRUE /\ second_try = FALSE /\ stored = {}
  /\ room = Room /\ slotPc = "run"
  /\ unsaved = [s \in Slot |-> {}] /\ skipped = {}
  /\ calls = 0

SlotsTypeOK ==
  /\ \A p \in {pending, saved, committed} :
       p \in [Slot -> [type: Types, range: Ranges, max_pending_range: Ranges,
                       enabled: BOOLEAN]]
  /\ id \in 0..NSlots /\ retry \in BOOLEAN /\ second_try \in BOOLEAN
  /\ stored \subseteq Slot \X Ranges
  /\ room \in 0..Room /\ slotPc \in {"run", "stage", "save", "commit"}
  /\ unsaved \in [Slot -> SUBSET (0..MaxAddr)] /\ skipped \subseteq Slot
  /\ calls \in 0..CallLimit

-----------------------------------------------------------------------------
(* The application.                                                        *)

Call ==
  /\ slotPc = "run" /\ calls < CallLimit
  /\ calls' = calls + 1
  /\ UNCHANGED <<saved, committed, room, slotPc, stagingVars>>

\* mpatch_max_range
MaxRange(r1, r2) == [low  |-> IF r1.low < r2.low THEN r1.low ELSE r2.low,
                     high |-> IF r1.high > r2.high THEN r1.high ELSE r2.high]

\* A slot with a new range, of which the rest stays.
Slotted(p, type, r, max) ==
  [type |-> type, range |-> r, max_pending_range |-> max, enabled |-> p.enabled]

\* mpatch_new_region: what lies outside of the new range does not matter any more.
NewRegion(s, r, type) ==
  /\ Call
  /\ pending' = [pending EXCEPT ![s] = Slotted(@, type, r, r)]
  /\ unsaved' = [unsaved EXCEPT ![s] = @ \cap Addresses(r)]
  /\ skipped' = skipped \ {s}

\* Mutant: the earlier ranges of this checkpoint interval are forgotten.
ModifyForgets(s, r, type) ==
  /\ Call
  /\ pending' = [pending EXCEPT ![s] = Slotted(@, type, r, r)]
  /\ UNCHANGED <<unsaved, skipped>>

\* mpatch_modify_region
ModifyRegion(s, r, type) ==
  /\ Call
  /\ pending' = [pending EXCEPT ![s] = Slotted(@, type, r, MaxRange(@.max_pending_range, r))]
  /\ UNCHANGED <<unsaved, skipped>>

\* mpatch_enable, mpatch_disable
Switch(s, on) ==
  /\ Call
  /\ pending[s].enabled # on
  /\ pending' = [pending EXCEPT ![s] = [type |-> @.type, range |-> @.range,
                                        max_pending_range |-> @.max_pending_range,
                                        enabled |-> on]]
  /\ UNCHANGED <<unsaved, skipped>>

\* The application writes to the range of a slot.
WriteSlot(s) ==
  /\ slotPc = "run"
  /\ pending[s].enabled
  /\ \E a \in Addresses(pending[s].range) : unsaved' = [unsaved EXCEPT ![s] = @ \cup {a}]
  /\ UNCHANGED <<pending, saved, committed, room, slotPc, stagingVars, skipped, calls>>

-----------------------------------------------------------------------------
(* mpatch_stage_cond_retry.  mpatch_stage calls it with retry,             *)
(* mpatch_stage_without_retry does not.                                    *)

BeginStage(again) ==
  /\ slotPc = "run"
  /\ slotPc' = "stage"
  /\ id' = 0 /\ retry' = again /\ second_try' = FALSE /\ stored' = {}
  /\ UNCHANGED <<pending, saved, committed, room, unsaved, skipped, calls>>

AtSlot == slotPc = "stage" /\ id < NSlots

\* Mutant: the loop looks at one slot more than there are.
PassSlotLong ==
  /\ slotPc = "stage" /\ id <= NSlots
  /\ id < NSlots => ~pending[id].enabled
  /\ id' = id + 1
  /\ UNCHANGED <<pending, saved, committed, room, slotPc, retry, second_try, stored,
                 unsaved, skipped, calls>>

PassSlot ==
  /\ AtSlot /\ ~pending[id].enabled
  /\ id' = id + 1
  /\ UNCHANGED <<pending, saved, committed, room, slotPc, retry, second_try, stored,
                 unsaved, skipped, calls>>

\* Mutant: the patch holds the current range only.
StageCurrentRange ==
  /\ AtSlot /\ pending[id].enabled /\ room > 0
  /\ room' = room - 1
  /\ stored' = stored \cup {<<id, pending[id].range>>}
  /\ id' = id + 1
  /\ UNCHANGED <<pending, saved, committed, slotPc, retry, second_try, unsaved, skipped,
                 calls>>

\* mpatch_stage_patch stores all that the slot covered since the last checkpoint.
StageSlot ==
  /\ AtSlot /\ pending[id].enabled /\ room > 0
  /\ room' = room - 1
  /\ stored' = stored \cup {<<id, pending[id].max_pending_range>>}
  /\ id' = id + 1
  /\ UNCHANGED <<pending, saved, committed, slotPc, retry, second_try, unsaved, skipped,
                 calls>>

\* No memory: sweep, which also publishes the slots as they are, and start
\* over.  The loop's own increment follows, so it goes on with the second slot.
SweepAndRestart ==
  /\ AtSlot /\ pending[id].enabled /\ room = 0 /\ retry /\ ~second_try
  /\ room' \in 0..Room - Cardinality(stored)
  /\ committed' = pending /\ saved' = pending
  /\ second_try' = TRUE
  /\ id' = 1
  /\ UNCHANGED <<pending, slotPc, retry, stored, unsaved, skipped, calls>>

\* No memory a second time: the slots stay as they are for the next checkpoint.
GiveUp ==
  /\ AtSlot /\ pending[id].enabled /\ room = 0 /\ (~retry \/ second_try)
  /\ slotPc' = "save"
  /\ id' = 0 /\ retry' = TRUE /\ second_try' = FALSE /\ stored' = {}
  /\ UNCHANGED <<pending, saved, committed, room, unsaved, skipped, calls>>

\* A slot after the loop: single shots are over, the others begin a new interval.
Updated(p) ==
  IF p.enabled THEN [type |-> p.type, range |-> p.range, max_pending_range |-> p.range,
                     enabled |-> (p.type # "singleshot")]
               ELSE p

Due == {<<s, pending[s].max_pending_range>> : s \in {t \in Slot : pending[t].enabled}}

AllDone ==
  /\ slotPc = "stage" /\ id >= NSlots
  /\ pending' = [s \in Slot |-> Updated(pending[s])]
  /\ unsaved' = [s \in Slot |->
       unsaved[s] \ UNION {Addresses(d[2]) : d \in {e \in stored : e[1] = s}}]
  /\ skipped' = skipped \cup {s \in Slot : \E d \in Due \ stored : d[1] = s}
  /\ slotPc' = "save"
  /\ id' = 0 /\ retry' = TRUE /\ second_try' = FALSE /\ stored' = {}
  /\ UNCHANGED <<saved, committed, room, calls>>

-----------------------------------------------------------------------------
(* checkpoint_mpatch goes on whatever mpatch_stage returned.               *)

\* mpatch_core_checkpoint(false)
SaveSlots ==
  /\ slotPc = "save"
  /\ saved' = pending
  /\ slotPc' = "commit"
  /\ UNCHANGED <<pending, committed, room, stagingVars, unsaved, skipped, calls>>

\* checkpoint_commit and post_checkpoint_mpatch, which reads the slots back.
CommitSlots ==
  /\ slotPc = "commit"
  /\ committed' = saved /\ pending' = saved
  /\ slotPc' = "run"
  /\ UNCHANGED <<saved, room, stagingVars, unsaved, skipped, calls>>

\* Power fails; mpatch_core_restore reads the committed slots.  The memory they
\* cover is restored as well, and the room that staged patches took is free again.
SlotsFail ==
  /\ slotPc' = "run"
  /\ pending' = committed /\ saved' = committed
  /\ room' \in room..Room
  /\ id' = 0 /\ retry' = TRUE /\ second_try' = FALSE /\ stored' = {}
  /\ unsaved' = [s \in Slot |-> {}] /\ skipped' = {}
  /\ UNCHANGED <<committed, calls>>

SlotsNext ==
  \/ \E s \in Slot, r \in Ranges, type \in Types : NewRegion(s, r, type) \/ ModifyRegion(s, r, type)
  \/ \E s \in Slot, on \in BOOLEAN : Switch(s, on)
  \/ \E s \in Slot : WriteSlot(s)
  \/ \E again \in BOOLEAN : BeginStage(again)
  \/ PassSlot \/ StageSlot \/ SweepAndRestart \/ GiveUp \/ AllDone
  \/ SaveSlots \/ CommitSlots \/ SlotsFail

SlotsSpec == SlotsInit /\ [][SlotsNext]_slotVars

-----------------------------------------------------------------------------
(* Properties.                                                             *)

\* "Stage all patches for commit": where the loop ends with success, the patch
\* of every enabled slot has been stored (mpatch.h:133, mpatch.c:362, 382).
AllStaged == slotPc = "stage" /\ id >= NSlots => Due \subseteq stored

\* What the loop does guarantee (mpatch.c:341-384): only the first slot can be
\* missing, and only after a sweep.
AllButFirstStaged ==
  slotPc = "stage" /\ id >= NSlots =>
    \A d \in Due \ stored : second_try /\ d[1] = 0

\* What was written in a range of an enabled slot since it was stored is in the
\* range that the next checkpoint stores, however the ranges were changed and
\* however many stagings failed in between (mpatch.c:232, 378); the slot that a
\* sweep skipped is the exception.
NoWriteForgotten ==
  slotPc = "run" =>
    \A s \in Slot \ skipped :
      pending[s].enabled => unsaved[s] \subseteq Addresses(pending[s].max_pending_range)
=============================================================================
