----------------------------- MODULE MemTracker -----------------------------
(***************************************************************************)
(* The memory tracker: the MPU makes the game's memory read-only after     *)
(* every checkpoint, the fault handler notes the subregion of the first    *)
(* write and opens it, and the next checkpoint stages what was noted.      *)
(* Staging and applying patches is MPatch's subject: here a patch is the   *)
(* content of its subregion.                                               *)
(***************************************************************************)
EXTENDS Naturals

CONSTANTS
  MpuRegions,  \* NUM_MPU_REGIONS, 8
  SubsPer,     \* NUM_MPU_SUB_REGIONS, 8
  Contents     \* what a subregion can hold

ASSUME TrackerAssumption ==
  MpuRegions \in Nat \ {0} /\ SubsPer \in Nat \ {0} /\ Contents # {}

NumSubs == MpuRegions * SubsPer   \* NUM_MPU_TOTAL_REGIONS
Sub     == 0..NumSubs-1
Region  == 0..MpuRegions-1

VARIABLES
  mem,            \* z80.memory
  regionTracker,  \* the subregions whose count is not zero
  mpu,            \* is the MPU on?
  enabled,        \* RASR: the regions that are enabled
  srd,            \* RASR: the subregions of each region that are disabled
  rnr,            \* MPU->RNR
  writing,        \* the subregion and content of a write that faulted
  patches,        \* patches staged since the last commit
  nvmMem,         \* the committed patches, newest of each subregion
  startable,      \* may a boot restore?
  sub,            \* the loops' counter
  trackPc,
  committedMem    \* history: mem at the last commit

mpuVars == <<regionTracker, mpu, enabled, srd, rnr>>
trackVars == <<mem, mpuVars, writing, patches, nvmMem, startable, sub, trackPc, committedMem>>

Nothing == [s \in {} |-> 0]
Blank   == CHOOSE c \in Contents : TRUE
NoWrite == [s |-> 0, c |-> Blank]

TrackInit ==
  /\ mem \in [Sub -> Contents] /\ nvmMem = [s \in Sub |-> Blank] /\ committedMem = nvmMem
  /\ regionTracker = {} /\ mpu = FALSE /\ enabled = {}
  /\ srd = [r \in Region |-> {}] /\ rnr = 0
  /\ writing = NoWrite /\ patches = Nothing
  /\ startable = FALSE /\ sub = 0 /\ trackPc = "boot"

TrackTypeOK ==
  /\ mem \in [Sub -> Contents] /\ nvmMem \in [Sub -> Contents]
  /\ committedMem \in [Sub -> Contents]
  /\ regionTracker \subseteq Sub /\ enabled \subseteq Region /\ rnr \in Region
  /\ mpu \in BOOLEAN /\ startable \in BOOLEAN
  /\ srd \in [Region -> SUBSET (0..SubsPer-1)]
  /\ writing \in [s: Sub, c: Contents]
  /\ DOMAIN patches \subseteq Sub
  /\ sub \in 0..NumSubs
  /\ trackPc \in {"boot", "default", "run", "count", "off", "on", "repeat", "stage",
                  "commit", "post"}

\* Is a subregion write-protected?
Protected(s) ==
  mpu /\ s \div SubsPer \in enabled /\ s % SubsPer \notin srd[s \div SubsPer]

-----------------------------------------------------------------------------
(* Boot.                                                                   *)

\* initTracking protects everything and clears the counts.
Tracking ==
  /\ mpu' = TRUE /\ enabled' = Region /\ srd' = [r \in Region |-> {}]
  /\ rnr' = MpuRegions - 1
  /\ regionTracker' = {}

\* First boot: emulatorSetup fills the memory, then setup_memtracker.
TrackFirstBoot ==
  /\ trackPc = "boot" /\ ~startable
  /\ \E c \in Contents : mem' = [s \in Sub |-> c]
  /\ Tracking
  /\ sub' = 0 /\ trackPc' = "default"
  /\ UNCHANGED <<writing, patches, nvmMem, startable, committedMem>>

\* Restore: the patches are applied while the MPU is off, and then
\* post_checkpoint_memtracker begins to track.
TrackRestore ==
  /\ trackPc = "boot" /\ startable
  /\ mem' = nvmMem
  /\ trackPc' = "post"
  /\ UNCHANGED <<mpuVars, writing, patches, nvmMem, startable, sub, committedMem>>

Patch(s) == [t \in DOMAIN patches \cup {s} |-> IF t = s THEN mem[s] ELSE patches[t]]

\* Mutant: the last subregion is left out.
DefaultButLast ==
  /\ trackPc = "default"
  /\ IF sub < NumSubs - 1 THEN patches' = Patch(sub) /\ sub' = sub + 1 /\ UNCHANGED trackPc
                          ELSE UNCHANGED patches /\ sub' = 0 /\ trackPc' = "stage"
  /\ UNCHANGED <<mem, mpuVars, writing, nvmMem, startable, committedMem>>

\* checkpoint_memtracker_default, and then the first checkpoint.
StageDefault ==
  /\ trackPc = "default"
  /\ IF sub < NumSubs THEN patches' = Patch(sub) /\ sub' = sub + 1 /\ UNCHANGED trackPc
                      ELSE UNCHANGED patches /\ sub' = 0 /\ trackPc' = "stage"
  /\ UNCHANGED <<mem, mpuVars, writing, nvmMem, startable, committedMem>>

-----------------------------------------------------------------------------
(* The game and the fault handler.                                         *)

\* A write, which faults in a protected subregion.
GameWrite(s, c) ==
  /\ trackPc = "run"
  /\ IF Protected(s)
     THEN writing' = [s |-> s, c |-> c] /\ trackPc' = "count" /\ UNCHANGED mem
     ELSE mem' = [mem EXCEPT ![s] = c] /\ UNCHANGED <<writing, trackPc>>
  /\ UNCHANGED <<mpuVars, patches, nvmMem, startable, sub, committedMem>>

\* Mutant: RNR still selects the last region.
CountOnly ==
  /\ trackPc = "count"
  /\ regionTracker' = regionTracker \cup {writing.s}
  /\ trackPc' = "off"
  /\ UNCHANGED <<mem, mpu, enabled, srd, rnr, writing, patches, nvmMem, startable, sub,
                 committedMem>>

\* memTrackingHandler: count, and select the region.
CountWrite ==
  /\ trackPc = "count"
  /\ regionTracker' = regionTracker \cup {writing.s}
  /\ rnr' = writing.s \div SubsPer
  /\ trackPc' = "off"
  /\ UNCHANGED <<mem, mpu, enabled, srd, writing, patches, nvmMem, startable, sub,
                 committedMem>>

\* Disable the selected region.
RegionOff ==
  /\ trackPc = "off"
  /\ enabled' = enabled \ {rnr}
  /\ trackPc' = "on"
  /\ UNCHANGED <<mem, regionTracker, mpu, srd, rnr, writing, patches, nvmMem, startable, sub,
                 committedMem>>

\* Enable it again without the subregion of the write.
RegionOn ==
  /\ trackPc = "on"
  /\ enabled' = enabled \cup {rnr}
  /\ srd' = [srd EXCEPT ![rnr] = @ \cup {writing.s % SubsPer}]
  /\ trackPc' = "repeat"
  /\ UNCHANGED <<mem, regionTracker, mpu, rnr, writing, patches, nvmMem, startable, sub,
                 committedMem>>

\* The handler returns to the instruction that faulted.
RepeatWrite ==
  /\ trackPc = "repeat"
  /\ IF Protected(writing.s)
     THEN trackPc' = "count" /\ UNCHANGED <<mem, writing>>
     ELSE /\ mem' = [mem EXCEPT ![writing.s] = writing.c]
          /\ writing' = NoWrite /\ trackPc' = "run"
  /\ UNCHANGED <<mpuVars, patches, nvmMem, startable, sub, committedMem>>

-----------------------------------------------------------------------------
(* A checkpoint.                                                           *)

TrackCheckpoint ==
  /\ trackPc = "run"
  /\ trackPc' = "stage" /\ sub' = 0
  /\ UNCHANGED <<mem, mpuVars, writing, patches, nvmMem, startable, committedMem>>

\* checkpoint_memtracker
StageTracked ==
  /\ trackPc = "stage"
  /\ IF sub < NumSubs
     THEN /\ patches' = IF sub \in regionTracker THEN Patch(sub) ELSE patches
          /\ sub' = sub + 1 /\ UNCHANGED trackPc
     ELSE UNCHANGED patches /\ sub' = 0 /\ trackPc' = "commit"
  /\ UNCHANGED <<mem, mpuVars, writing, nvmMem, startable, committedMem>>

TrackCommit ==
  /\ trackPc = "commit"
  /\ nvmMem' = [s \in Sub |-> IF s \in DOMAIN patches THEN patches[s] ELSE nvmMem[s]]
  /\ patches' = Nothing
  /\ committedMem' = mem
  /\ trackPc' = "post"
  /\ UNCHANGED <<mem, mpuVars, writing, startable, sub>>

\* post_checkpoint_memtracker.  The first checkpoint is made available after it.
TrackPost ==
  /\ trackPc = "post"
  /\ Tracking
  /\ startable' = TRUE
  /\ trackPc' = "run"
  /\ UNCHANGED <<mem, writing, patches, nvmMem, sub, committedMem>>

\* Power fails.  Staged patches are gone, the memory and the tracker are lost.
TrackFail ==
  /\ trackPc # "boot"
  /\ trackPc' = "boot"
  /\ mem' = [s \in Sub |-> Blank] /\ patches' = Nothing
  /\ mpu' = FALSE /\ enabled' = {} /\ srd' = [r \in Region |-> {}] /\ rnr' = 0
  /\ regionTracker' = {}
  /\ writing' = NoWrite /\ sub' = 0
  /\ UNCHANGED <<nvmMem, startable, committedMem>>

TrackNext ==
  \/ TrackFirstBoot \/ TrackRestore \/ StageDefault
  \/ \E s \in Sub, c \in Contents : GameWrite(s, c)
  \/ CountWrite \/ RegionOff \/ RegionOn \/ RepeatWrite
  \/ TrackCheckpoint \/ StageTracked \/ TrackCommit \/ TrackPost
  \/ TrackFail

TrackSpec == TrackInit /\ [][TrackNext]_trackVars

-----------------------------------------------------------------------------
(* Properties.                                                             *)

\* While the game runs, a subregion that differs from what the last checkpoint
\* saved of it is noted for the next one (memtracker.c:105, 139): no write gets
\* past the tracker, though every write is let through.
WritesTracked ==
  trackPc = "run" => \A s \in Sub : mem[s] # nvmMem[s] => s \in regionTracker

\* The write that faulted does not fault again when the handler returns, whose
\* two accesses to RASR work on the region that RNR selects (memtracker.c:123-139).
RepeatSucceeds == trackPc = "repeat" => ~Protected(writing.s)

\* What is committed is the whole memory as it was at the last commit, although a
\* checkpoint stages only what was noted since the one before, or since the
\* restore of the one before (checkpoint_memtracker.c:31, 49, 71).
MemoryCommitted == nvmMem = committedMem
=============================================================================
