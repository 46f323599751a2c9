---------------------------- MODULE StagingProofs ---------------------------
(***************************************************************************)
(* Theorems about how memory gets into patches: MemTracker, which finds    *)
(* the written subregions, MPatchSlots, which keeps the ranges to be       *)
(* staged, and BlissData, which copies the bytes of a patch into its       *)
(* blocks and out of them, for any number of regions, slots and calls, any *)
(* contents and any sizes.                                                 *)
(***************************************************************************)
EXTENDS MemTracker, MPatchSlots, BlissData, FiniteSetTheorems, TLAPS

-----------------------------------------------------------------------------
(* The memory tracker: it sees every write, a write faults once, and a     *)
(* checkpoint commits the whole memory though it stages only what was      *)
(* tracked.                                                                *)

\* Types, of what the proofs need.
TrackTypes ==
  /\ mem \in [Sub -> Contents] /\ nvmMem \in [Sub -> Contents]
  /\ regionTracker \subseteq Sub
  /\ srd \in [Region -> SUBSET (0..SubsPer-1)]
  /\ writing \in [s: Sub, c: Contents]
  /\ sub \in 0..NumSubs

\* The game's step, or the fault handler on its behalf.
Playing == trackPc \in {"run", "count", "off", "on", "repeat"}

\* Whatever is open or differs from the last checkpoint has been counted.
Counted ==
  /\ \A s \in Sub : mem[s] # nvmMem[s] => s \in regionTracker
  /\ \A s \in Sub : s % SubsPer \in srd[s \div SubsPer] => s \in regionTracker

\* Every region is on, except between the handler's two accesses to RASR.
Guarded == mpu /\ enabled = IF trackPc = "on" THEN Region \ {rnr} ELSE Region

\* The handler works on the region of the write that faulted.
Handling ==
  /\ trackPc \in {"off", "on", "repeat"} => writing.s \in regionTracker
  /\ trackPc \in {"off", "on"} => rnr = writing.s \div SubsPer
  /\ trackPc = "repeat" => writing.s % SubsPer \in srd[writing.s \div SubsPer]

\* A subregion whose patch the current staging does not hold.
Missing(s) == s \in Sub \ DOMAIN patches

\* The staged patches are the memory; what they leave out is committed already,
\* or still to come.
Staging ==
  /\ \A s \in Sub : s \in DOMAIN patches => patches[s] = mem[s]
  /\ trackPc = "default" => \A s \in Sub : s < sub => s \in DOMAIN patches
  /\ trackPc = "stage" =>
       \A s \in Sub : Missing(s) => mem[s] = nvmMem[s] \/ (s \in regionTracker /\ sub <= s)
  /\ trackPc = "commit" => \A s \in Sub : Missing(s) => mem[s] = nvmMem[s]

TrackInv ==
  /\ TrackTypes
  /\ nvmMem = committedMem
  /\ Playing => Counted /\ Guarded /\ Handling
  /\ trackPc \in {"default", "stage", "commit"} => Staging
  /\ trackPc \notin {"default", "stage", "commit"} => patches = Nothing
  /\ trackPc = "post" => mem = nvmMem

\* A subregion is the pair of its region and its number in it (memtracker.c:108-121).
LEMMA SubregionSplits ==
  /\ \A s \in Sub : s \div SubsPer \in Region /\ s % SubsPer \in 0..SubsPer-1
  /\ \A s, t \in Sub : s \div SubsPer = t \div SubsPer /\ s % SubsPer = t % SubsPer => s = t
<1>1. MpuRegions \in Nat \ {0} /\ SubsPer \in Nat \ {0}
  BY TrackerAssumption
<1>2. ASSUME NEW s \in Sub
      PROVE  s \div SubsPer \in Region /\ s % SubsPer \in 0..SubsPer-1
  BY <1>1 DEF Sub, Region, NumSubs
<1>3. ASSUME NEW s \in Sub, NEW t \in Sub,
             s \div SubsPer = t \div SubsPer, s % SubsPer = t % SubsPer
      PROVE  s = t
  <2>1. s \in Nat /\ t \in Nat
    BY <1>1 DEF Sub, NumSubs
  <2> QED
    BY <1>1, <1>3, <2>1
<1> QED
  BY <1>2, <1>3

\* There is a subregion, and a content.
LEMMA SubregionExists == 0 \in Sub /\ 0 \in 0..NumSubs /\ NumSubs \in Nat /\ Blank \in Contents
<1>1. MpuRegions \in Nat \ {0} /\ SubsPer \in Nat \ {0} /\ Contents # {}
  BY TrackerAssumption
<1>2. NumSubs \in Nat \ {0}
  BY <1>1 DEF NumSubs
<1>3. Blank \in Contents
  BY <1>1 DEF Blank
<1> QED
  BY <1>2, <1>3 DEF Sub

\* The first boot of a device that was never started.
LEMMA TrackInitInv == TrackInit => TrackInv
<1> SUFFICES ASSUME TrackInit PROVE TrackInv
  OBVIOUS
<1>1. TrackTypes
  BY SubregionExists DEF TrackInit, TrackTypes, NoWrite
<1> QED
  BY <1>1 DEF TrackInit, TrackInv, Playing

\* Protecting everything begins an interval in which nothing is counted yet
\* (memtracker.c:51-93).
LEMMA TrackingBegins ==
  ASSUME Tracking
  PROVE  /\ mpu' /\ enabled' = Region /\ regionTracker' = {}
         /\ srd' \in [Region -> SUBSET (0..SubsPer-1)]
         /\ \A s \in Sub : s % SubsPer \notin srd'[s \div SubsPer]
  BY SubregionSplits DEF Tracking

\* The steps of a boot.
LEMMA BootKeepsInv ==
  ASSUME TrackInv, TrackFirstBoot \/ TrackRestore \/ StageDefault
  PROVE  TrackInv'
<1>1. TrackTypes /\ nvmMem = committedMem
  BY DEF TrackInv
<1>2. CASE TrackFirstBoot
  <2>1. patches = Nothing /\ trackPc' = "default" /\ sub' = 0 /\ mem' \in [Sub -> Contents]
        /\ nvmMem' = nvmMem /\ writing' = writing /\ patches' = patches
        /\ committedMem' = committedMem
    BY <1>2 DEF TrackFirstBoot, TrackInv
  <2>2. TrackTypes'
    BY <1>1, <1>2, <2>1, TrackingBegins, SubregionExists DEF TrackFirstBoot, TrackTypes
  <2>3. Staging'
    <3>1. \A s \in Sub : ~(s < 0)
      BY SubregionExists DEF Sub
    <3> QED
      BY <2>1, <3>1 DEF Staging, Nothing
  <2> QED
    BY <1>1, <2>1, <2>2, <2>3 DEF TrackInv, Playing
<1>3. CASE TrackRestore
  BY <1>1, <1>3 DEF TrackRestore, TrackInv, TrackTypes, Playing, mpuVars
<1>4. CASE StageDefault
  <2>1. /\ Staging /\ trackPc = "default" /\ mem' = mem /\ nvmMem' = nvmMem
        /\ committedMem' = committedMem /\ writing' = writing
        /\ regionTracker' = regionTracker /\ srd' = srd
    BY <1>4 DEF StageDefault, TrackInv, mpuVars
  <2>2. CASE sub < NumSubs
    <3>1. patches' = Patch(sub) /\ sub' = sub + 1 /\ trackPc' = "default"
      BY <1>4, <2>1, <2>2 DEF StageDefault
    <3>2. sub \in Sub /\ sub + 1 \in 0..NumSubs
      BY <1>1, <2>2, SubregionExists DEF TrackTypes, Sub
    <3>3. \A s \in Sub : s \in DOMAIN patches' => patches'[s] = mem[s]
      BY <2>1, <3>1 DEF Staging, Patch
    <3>4. \A s \in Sub : s < sub + 1 => s \in DOMAIN patches'
      BY <1>1, <2>1, <3>1, SubregionExists DEF Staging, Patch, TrackTypes, Sub
    <3>5. Staging'
      BY <2>1, <3>1, <3>3, <3>4 DEF Staging
    <3>6. TrackTypes'
      BY <1>1, <2>1, <3>1, <3>2 DEF TrackTypes
    <3> QED
      BY <1>1, <2>1, <3>1, <3>5, <3>6 DEF TrackInv, Playing
  <2>3. CASE ~(sub < NumSubs)
    <3>1. patches' = patches /\ sub' = 0 /\ trackPc' = "stage"
      BY <1>4, <2>3 DEF StageDefault
    <3>2. \A s \in Sub : s \in DOMAIN patches
      BY <1>1, <2>1, <2>3, SubregionExists DEF Staging, TrackTypes, Sub
    <3>3. Staging'
      BY <2>1, <3>1, <3>2 DEF Staging, Missing
    <3>4. TrackTypes'
      BY <1>1, <2>1, <3>1, SubregionExists DEF TrackTypes
    <3> QED
      BY <1>1, <2>1, <3>1, <3>3, <3>4 DEF TrackInv, Playing
  <2> QED
    BY <2>2, <2>3
<1> QED
  BY <1>2, <1>3, <1>4

\* A write of the game hits a subregion that is open, and therefore counted, or
\* is held back.
LEMMA GameKeepsInv ==
  ASSUME TrackInv, NEW s \in Sub, NEW c \in Contents, GameWrite(s, c)
  PROVE  TrackInv'
<1>1. /\ TrackTypes /\ nvmMem = committedMem /\ patches = Nothing
      /\ trackPc = "run" /\ Counted /\ mpu /\ enabled = Region
  BY DEF TrackInv, GameWrite, Playing, Guarded
<1>2. /\ regionTracker' = regionTracker /\ mpu' = mpu /\ enabled' = enabled /\ srd' = srd
      /\ patches' = patches /\ nvmMem' = nvmMem /\ sub' = sub /\ committedMem' = committedMem
  BY DEF GameWrite, mpuVars
<1>3. CASE Protected(s)
  <2>1. writing' = [s |-> s, c |-> c] /\ trackPc' = "count" /\ mem' = mem
    BY <1>3 DEF GameWrite
  <2>2. TrackTypes' /\ Counted'
    BY <1>1, <1>2, <2>1 DEF TrackTypes, Counted
  <2> QED
    BY <1>1, <1>2, <2>1, <2>2 DEF TrackInv, Playing, Guarded, Handling
<1>4. CASE ~Protected(s)
  <2>1. mem' = [mem EXCEPT ![s] = c] /\ writing' = writing /\ trackPc' = "run"
    BY <1>1, <1>4 DEF GameWrite
  <2>2. s \in regionTracker
    BY <1>1, <1>4, SubregionSplits DEF Protected, Counted
  <2>3. TrackTypes'
    BY <1>1, <1>2, <2>1 DEF TrackTypes
  <2>4. Counted'
    BY <1>1, <1>2, <2>1, <2>2 DEF TrackTypes, Counted
  <2> QED
    BY <1>1, <1>2, <2>1, <2>3, <2>4 DEF TrackInv, Playing, Guarded, Handling
<1> QED
  BY <1>3, <1>4

\* The fault handler counts a subregion before it opens it, and opens that
\* subregion alone (memtracker.c:105-143).
LEMMA HandlerKeepsInv ==
  ASSUME TrackInv, CountWrite \/ RegionOff \/ RegionOn \/ RepeatWrite
  PROVE  TrackInv'
<1>1. Playing
  BY DEF CountWrite, RegionOff, RegionOn, RepeatWrite, Playing
<1>2. /\ TrackTypes /\ nvmMem = committedMem /\ patches = Nothing
      /\ Counted /\ Guarded /\ Handling /\ writing.s \in Sub /\ writing.c \in Contents
  BY <1>1 DEF TrackInv, Playing, TrackTypes
<1>3. /\ mpu' = mpu /\ patches' = patches /\ nvmMem' = nvmMem /\ sub' = sub
      /\ committedMem' = committedMem
  BY DEF CountWrite, RegionOff, RegionOn, RepeatWrite, mpuVars
<1>4. CASE CountWrite
  <2>1. /\ trackPc = "count" /\ trackPc' = "off" /\ mem' = mem /\ writing' = writing
        /\ enabled' = enabled /\ srd' = srd /\ rnr' = writing.s \div SubsPer
        /\ regionTracker' = regionTracker \cup {writing.s}
    BY <1>4 DEF CountWrite
  <2>2. TrackTypes' /\ Counted'
    BY <1>2, <1>3, <2>1 DEF TrackTypes, Counted
  <2> QED
    BY <1>2, <1>3, <2>1, <2>2 DEF TrackInv, Playing, Guarded, Handling
<1>5. CASE RegionOff
  <2>1. /\ trackPc = "off" /\ trackPc' = "on" /\ mem' = mem /\ writing' = writing
        /\ enabled' = enabled \ {rnr} /\ srd' = srd /\ rnr' = rnr
        /\ regionTracker' = regionTracker
    BY <1>5 DEF RegionOff
  <2>2. TrackTypes' /\ Counted'
    BY <1>2, <1>3, <2>1 DEF TrackTypes, Counted
  <2> QED
    BY <1>2, <1>3, <2>1, <2>2 DEF TrackInv, Playing, Guarded, Handling
<1>6. CASE RegionOn
  <2> DEFINE n == writing.s % SubsPer
  <2>1. /\ trackPc = "on" /\ trackPc' = "repeat" /\ mem' = mem /\ writing' = writing
        /\ enabled' = enabled \cup {rnr} /\ rnr' = rnr /\ regionTracker' = regionTracker
        /\ rnr = writing.s \div SubsPer /\ writing.s \in regionTracker
        /\ rnr \in Region /\ n \in 0..SubsPer-1
    BY <1>2, <1>6, SubregionSplits DEF RegionOn, Handling
  <2>2. srd' = [srd EXCEPT ![rnr] = srd[rnr] \cup {n}]
    BY <1>2, <1>6, <2>1 DEF RegionOn, TrackTypes
  <2>3. TrackTypes'
    BY <1>2, <1>3, <2>1, <2>2 DEF TrackTypes
  <2>4. ASSUME NEW t \in Sub, t % SubsPer \in srd'[t \div SubsPer]
        PROVE  t \in regionTracker
    <3>1. t \div SubsPer \in Region
      BY SubregionSplits
    <3>2. CASE t \div SubsPer = rnr /\ t % SubsPer = n
      BY <1>2, <2>1, <3>2, SubregionSplits
    <3>3. CASE ~(t \div SubsPer = rnr /\ t % SubsPer = n)
      BY <1>2, <2>2, <2>4, <3>1, <3>3 DEF Counted, TrackTypes
    <3> QED
      BY <3>2, <3>3
  <2>5. Counted'
    BY <1>2, <1>3, <2>1, <2>4 DEF Counted
  <2>6. enabled' = Region
    BY <1>2, <2>1 DEF Guarded
  <2>7. n \in srd'[rnr]
    BY <1>2, <2>1, <2>2 DEF TrackTypes
  <2> QED
    BY <1>2, <1>3, <2>1, <2>3, <2>5, <2>6, <2>7 DEF TrackInv, Playing, Guarded, Handling
<1>7. CASE RepeatWrite
  <2>1. ~Protected(writing.s)
    BY <1>2, <1>7 DEF RepeatWrite, Handling, Protected
  <2>2. /\ trackPc = "repeat" /\ trackPc' = "run" /\ writing' = NoWrite
        /\ mem' = [mem EXCEPT ![writing.s] = writing.c]
        /\ enabled' = enabled /\ srd' = srd /\ rnr' = rnr /\ regionTracker' = regionTracker
    BY <1>7, <2>1 DEF RepeatWrite, mpuVars
  <2>3. writing.s \in regionTracker
    BY <1>2, <2>2 DEF Handling
  <2>4. TrackTypes'
    BY <1>2, <1>3, <2>2, SubregionExists DEF TrackTypes, NoWrite
  <2>5. Counted'
    BY <1>2, <1>3, <2>2, <2>3 DEF TrackTypes, Counted
  <2> QED
    BY <1>2, <1>3, <2>2, <2>4, <2>5 DEF TrackInv, Playing, Guarded, Handling
<1> QED
  BY <1>4, <1>5, <1>6, <1>7

\* A checkpoint of the counted subregions, its commit, and the protection that
\* follows; a power failure at any point (checkpoint_memtracker.c:49-83).
LEMMA StagingKeepsTrack ==
  ASSUME TrackInv,
         TrackCheckpoint \/ StageTracked \/ TrackCommit \/ TrackPost \/ TrackFail
           \/ UNCHANGED trackVars
  PROVE  TrackInv'
<1>1. TrackTypes /\ nvmMem = committedMem
  BY DEF TrackInv
<1>2. CASE TrackCheckpoint
  <2>1. /\ trackPc = "run" /\ trackPc' = "stage" /\ sub' = 0 /\ patches' = patches
        /\ patches = Nothing /\ Counted /\ mem' = mem /\ nvmMem' = nvmMem
        /\ committedMem' = committedMem /\ writing' = writing
        /\ regionTracker' = regionTracker /\ srd' = srd
    BY <1>2 DEF TrackCheckpoint, TrackInv, Playing, mpuVars
  <2>2. \A s \in Sub : 0 <= s
    BY SubregionExists DEF Sub
  <2>3. Staging'
    BY <2>1, <2>2 DEF Staging, Counted, Missing, Nothing
  <2>4. TrackTypes'
    BY <1>1, <2>1, SubregionExists DEF TrackTypes
  <2> QED
    BY <1>1, <2>1, <2>3, <2>4 DEF TrackInv, Playing
<1>3. CASE StageTracked
  <2>1. /\ Staging /\ trackPc = "stage" /\ mem' = mem /\ nvmMem' = nvmMem
        /\ committedMem' = committedMem /\ writing' = writing
        /\ regionTracker' = regionTracker /\ srd' = srd
    BY <1>3 DEF StageTracked, TrackInv, mpuVars
  <2>2. CASE sub < NumSubs
    <3>1. sub' = sub + 1 /\ trackPc' = "stage"
          /\ patches' = IF sub \in regionTracker THEN Patch(sub) ELSE patches
      BY <1>3, <2>1, <2>2 DEF StageTracked
    <3>2. sub \in Nat /\ sub + 1 \in 0..NumSubs
      BY <1>1, <2>2, SubregionExists DEF TrackTypes
    <3>3. TrackTypes'
      BY <1>1, <2>1, <3>1, <3>2 DEF TrackTypes
    <3>4. \A s \in Sub : s \in DOMAIN patches' => patches'[s] = mem[s]
      BY <2>1, <3>1 DEF Staging, Patch
    <3>5. ASSUME NEW s \in Sub \ DOMAIN patches'
          PROVE  mem[s] = nvmMem[s] \/ (s \in regionTracker /\ sub + 1 <= s)
      <4>1. s \notin DOMAIN patches
        BY <3>1, <3>5 DEF Patch
      <4>2. mem[s] = nvmMem[s] \/ (s \in regionTracker /\ sub <= s)
        BY <2>1, <4>1 DEF Staging, Missing
      <4>3. s \in regionTracker => s # sub
        BY <3>1, <3>5 DEF Patch
      <4>4. s \in Nat
        BY SubregionExists DEF Sub
      <4> QED
        BY <3>2, <4>2, <4>3, <4>4
    <3>6. Staging'
      BY <2>1, <3>1, <3>4, <3>5 DEF Staging, Missing
    <3> QED
      BY <1>1, <2>1, <3>1, <3>3, <3>6 DEF TrackInv, Playing
  <2>3. CASE ~(sub < NumSubs)
    <3>1. patches' = patches /\ sub' = 0 /\ trackPc' = "commit"
      BY <1>3, <2>3 DEF StageTracked
    <3>2. \A s \in Sub : ~(sub <= s)
      BY <1>1, <2>3, SubregionExists DEF TrackTypes, Sub
    <3>3. Staging'
      BY <2>1, <3>1, <3>2 DEF Staging, Missing
    <3>4. TrackTypes'
      BY <1>1, <2>1, <3>1, SubregionExists DEF TrackTypes
    <3> QED
      BY <1>1, <2>1, <3>1, <3>3, <3>4 DEF TrackInv, Playing
  <2> QED
    BY <2>2, <2>3
<1>4. CASE TrackCommit
  <2>1. /\ Staging /\ trackPc = "commit" /\ trackPc' = "post" /\ patches' = Nothing
        /\ nvmMem' = [s \in Sub |-> IF s \in DOMAIN patches THEN patches[s] ELSE nvmMem[s]]
        /\ committedMem' = mem /\ mem' = mem /\ writing' = writing /\ sub' = sub
        /\ regionTracker' = regionTracker /\ srd' = srd
    BY <1>4 DEF TrackCommit, TrackInv, mpuVars
  <2>2. \A s \in Sub : nvmMem'[s] = mem[s]
    BY <2>1 DEF Staging, Missing
  <2>3. nvmMem' = mem
    BY <1>1, <2>1, <2>2 DEF TrackTypes
  <2> QED
    BY <1>1, <2>1, <2>3 DEF TrackInv, TrackTypes, Playing
<1>5. CASE TrackPost
  <2>1. /\ trackPc = "post" /\ trackPc' = "run" /\ mem = nvmMem /\ patches = Nothing
        /\ mem' = mem /\ nvmMem' = nvmMem /\ committedMem' = committedMem
        /\ writing' = writing /\ patches' = patches /\ sub' = sub
    BY <1>5 DEF TrackPost, TrackInv
  <2>2. /\ mpu' /\ enabled' = Region /\ regionTracker' = {}
        /\ srd' \in [Region -> SUBSET (0..SubsPer-1)]
        /\ \A s \in Sub : s % SubsPer \notin srd'[s \div SubsPer]
    BY <1>5, TrackingBegins DEF TrackPost
  <2>3. TrackTypes'
    BY <1>1, <2>1, <2>2 DEF TrackTypes
  <2>4. Counted'
    BY <2>1, <2>2 DEF Counted
  <2> QED
    BY <1>1, <2>1, <2>2, <2>3, <2>4 DEF TrackInv, Playing, Guarded, Handling
<1>6. CASE TrackFail
  <2>1. TrackTypes'
    BY <1>1, <1>6, SubregionExists DEF TrackFail, TrackTypes, NoWrite
  <2> QED
    BY <1>1, <1>6, <2>1 DEF TrackFail, TrackInv, Playing
<1>7. CASE UNCHANGED trackVars
  BY <1>7 DEF trackVars, mpuVars, TrackInv, TrackTypes, Playing, Counted, Guarded, Handling,
              Staging, Missing
<1> QED
  BY <1>2, <1>3, <1>4, <1>5, <1>6, <1>7

\* The invariant in every state.
LEMMA TrackInvariance == TrackSpec => []TrackInv
<1>1. TrackInv /\ [TrackNext]_trackVars => TrackInv'
  BY BootKeepsInv, GameKeepsInv, HandlerKeepsInv, StagingKeepsTrack DEF TrackNext
<1> QED
  BY <1>1, TrackInitInv, PTL DEF TrackSpec

\* No write of the game gets past the tracker (memtracker.c:105-143).
THEOREM EveryWriteIsTracked == TrackSpec => []WritesTracked
<1>1. TrackInv => WritesTracked
  BY DEF TrackInv, Playing, Counted, WritesTracked
<1> QED
  BY <1>1, TrackInvariance, PTL

\* The instruction that faulted goes through when the handler returns
\* (memtracker.c:123-139).
THEOREM RepeatedWriteSucceeds == TrackSpec => []RepeatSucceeds
<1>1. TrackInv => RepeatSucceeds
  BY DEF TrackInv, Playing, Handling, RepeatSucceeds, Protected
<1> QED
  BY <1>1, TrackInvariance, PTL

\* The committed patches add up to the whole memory at the last commit
\* (checkpoint_memtracker.c:31, 49, 71).
THEOREM WholeMemoryIsCommitted == TrackSpec => []MemoryCommitted
<1>1. TrackInv => MemoryCommitted
  BY DEF TrackInv, MemoryCommitted
<1> QED
  BY <1>1, TrackInvariance, PTL
\* The type invariant (memtracker.c, checkpoint_memtracker.c).
THEOREM TrackTypeCorrect == TrackSpec => []TrackTypeOK
<1>1. TrackInit => TrackTypeOK
  <2>1. 0 \in Region
    BY TrackerAssumption DEF Region
  <2> QED
    BY <2>1, SubregionExists DEF TrackInit, TrackTypeOK, NoWrite, Nothing
<1>2. TrackTypeOK /\ TrackInv' /\ [TrackNext]_trackVars => TrackTypeOK'
  <2> SUFFICES ASSUME TrackTypeOK, TrackInv', [TrackNext]_trackVars PROVE TrackTypeOK'
    OBVIOUS
  <2> USE DEF TrackTypeOK
  <2>1. 0 \in Region /\ MpuRegions - 1 \in Region
    BY TrackerAssumption DEF Region
  <2>2. Tracking => /\ mpu' \in BOOLEAN /\ enabled' \subseteq Region /\ rnr' \in Region
                    /\ srd' \in [Region -> SUBSET (0..SubsPer-1)] /\ regionTracker' \subseteq Sub
    BY <2>1 DEF Tracking
  <2>3. /\ sub \in Nat /\ (sub < NumSubs => sub + 1 \in 0..NumSubs /\ sub \in Sub)
        /\ 0 \in 0..NumSubs
    BY SubregionExists DEF Sub
  <2>4. \A s \in Sub : DOMAIN Patch(s) \subseteq Sub
    BY DEF Patch
  <2>5. DOMAIN Nothing = {} /\ NoWrite \in [s: Sub, c: Contents]
    BY SubregionExists DEF Nothing, NoWrite
  <2>6. writing.s \in Sub /\ writing.c \in Contents
    OBVIOUS
  <2>7. CASE TrackFirstBoot
    BY <2>2, <2>3, <2>7 DEF TrackFirstBoot
  <2>8. CASE TrackRestore
    BY <2>8 DEF TrackRestore, mpuVars
  <2>9. CASE StageDefault
    BY <2>3, <2>4, <2>9 DEF StageDefault, mpuVars
  <2>10. ASSUME NEW s \in Sub, NEW c \in Contents, GameWrite(s, c)
         PROVE  TrackTypeOK'
    BY <2>10 DEF GameWrite, mpuVars
  <2>11. CASE CountWrite
    BY <2>6, <2>11, SubregionSplits DEF CountWrite
  <2>12. CASE RegionOff
    BY <2>12 DEF RegionOff
  <2>13. CASE RegionOn
    BY <2>6, <2>13, SubregionSplits DEF RegionOn
  <2>14. CASE RepeatWrite
    BY <2>5, <2>6, <2>14 DEF RepeatWrite, mpuVars
  <2>15. CASE TrackCheckpoint
    BY <2>3, <2>15 DEF TrackCheckpoint, mpuVars
  <2>16. CASE StageTracked
    BY <2>3, <2>4, <2>16 DEF StageTracked, mpuVars
  <2>17. CASE TrackCommit
    <3>1. nvmMem' \in [Sub -> Contents] /\ committedMem' = nvmMem'
      BY DEF TrackInv, TrackTypes
    <3> QED
      BY <2>5, <2>17, <3>1 DEF TrackCommit, mpuVars
  <2>18. CASE TrackPost
    BY <2>2, <2>18 DEF TrackPost
  <2>19. CASE TrackFail
    BY <2>1, <2>3, <2>5, <2>19, SubregionExists DEF TrackFail
  <2>20. CASE UNCHANGED trackVars
    BY <2>20 DEF trackVars, mpuVars
  <2> QED
    BY <2>7, <2>8, <2>9, <2>10, <2>11, <2>12, <2>13, <2>14, <2>15, <2>16, <2>17, <2>18,
       <2>19, <2>20 DEF TrackNext
<1> QED
  BY <1>1, <1>2, TrackInvariance, PTL DEF TrackSpec

-----------------------------------------------------------------------------
(* The slots: what a staging that reports success has stored, and that no  *)
(* write is left out of the next one.                                      *)

\* Types of the slots alone, which the proofs below rest on.
Patches == [type: Types, range: Ranges, max_pending_range: Ranges, enabled: BOOLEAN]

SlotTypes ==
  /\ pending \in [Slot -> Patches] /\ saved \in [Slot -> Patches]
  /\ committed \in [Slot -> Patches]
  /\ id \in 0..NSlots /\ second_try \in BOOLEAN
  /\ unsaved \in [Slot -> SUBSET (0..MaxAddr)]

\* The patches of the enabled slots behind the current one have been stored,
\* except that of the first slot after a sweep.
Progress ==
  slotPc = "stage" =>
    \A s \in 0..id-1 :
      pending[s].enabled /\ (s # 0 \/ ~second_try)
        => <<s, pending[s].max_pending_range>> \in stored

\* The range of a slot is part of what its next patch stores, in every copy.
Covered(p) == \A s \in Slot : Addresses(p[s].range) \subseteq Addresses(p[s].max_pending_range)

\* So is what was written since the last patch, enabled or not.
UnsavedCovered ==
  \A s \in Slot \ skipped : unsaved[s] \subseteq Addresses(pending[s].max_pending_range)

SlotsInv ==
  /\ SlotTypes /\ Progress
  /\ Covered(pending) /\ Covered(saved) /\ Covered(committed)
  /\ UnsavedCovered
  /\ slotPc = "commit" => saved = pending

\* The union of two ranges is one, and covers both (mpatch.c:184-192).
LEMMA MaxRangeCovers ==
  ASSUME NEW r1 \in Ranges, NEW r2 \in Ranges
  PROVE  /\ MaxRange(r1, r2) \in Ranges
         /\ Addresses(r1) \subseteq Addresses(MaxRange(r1, r2))
         /\ Addresses(r2) \subseteq Addresses(MaxRange(r1, r2))
  BY SlotsAssumption DEF MaxRange, Ranges, Addresses

\* The slots begin disabled and cover nothing that was written.
LEMMA SlotsInitInv == SlotsInit => SlotsInv
<1> SUFFICES ASSUME SlotsInit PROVE SlotsInv
  OBVIOUS
<1>1. Cleared \in Patches
  BY SlotsAssumption DEF Cleared, Patches, Types, Ranges
<1>2. Addresses(Cleared.range) \subseteq Addresses(Cleared.max_pending_range)
  BY DEF Cleared
<1>3. /\ pending = [s \in Slot |-> Cleared] /\ saved = pending /\ committed = pending
      /\ id = 0 /\ second_try = FALSE /\ slotPc = "run"
      /\ unsaved = [s \in Slot |-> {}]
  BY DEF SlotsInit
<1>4. SlotTypes
  <2>1. 0 \in 0..NSlots
    BY SlotsAssumption
  <2> QED
    BY <1>1, <1>3, <2>1 DEF SlotTypes
<1>5. Covered(pending) /\ Covered(saved) /\ Covered(committed)
  BY <1>2, <1>3 DEF Covered
<1>6. UnsavedCovered
  BY <1>3 DEF UnsavedCovered
<1> QED
  BY <1>3, <1>4, <1>5, <1>6 DEF SlotsInv, Progress

\* The application changes ranges, switches slots and writes while no
\* checkpoint is taken: ranges only grow, or take their writes with them
\* (mpatch.c:203-251).
LEMMA ApplicationKeepsInv ==
  ASSUME SlotsInv, NEW s \in Slot, NEW r \in Ranges, NEW type \in Types, NEW on \in BOOLEAN,
         NewRegion(s, r, type) \/ ModifyRegion(s, r, type) \/ Switch(s, on) \/ WriteSlot(s)
  PROVE  SlotsInv'
<1>1. /\ SlotTypes /\ Covered(pending) /\ Covered(saved) /\ Covered(committed) /\ UnsavedCovered
      /\ pending[s] \in Patches /\ pending[s].range \in Ranges
      /\ pending[s].max_pending_range \in Ranges
  BY DEF SlotsInv, SlotTypes, Patches
<1>2. /\ slotPc = "run" /\ slotPc' = "run" /\ saved' = saved /\ committed' = committed
      /\ id' = id /\ second_try' = second_try
  BY DEF NewRegion, ModifyRegion, Switch, WriteSlot, Call, stagingVars
<1>3. Covered(saved)' /\ Covered(committed)' /\ Progress' /\ (slotPc = "commit" => saved = pending)'
  BY <1>1, <1>2 DEF Covered, Progress
<1>4. CASE NewRegion(s, r, type)
  <2>1. Slotted(pending[s], type, r, r) \in Patches
    BY <1>1 DEF Slotted, Patches
  <2>2. /\ Slotted(pending[s], type, r, r).range = r
        /\ Slotted(pending[s], type, r, r).max_pending_range = r
    BY DEF Slotted
  <2>3. /\ pending' = [pending EXCEPT ![s] = Slotted(pending[s], type, r, r)]
        /\ unsaved' = [unsaved EXCEPT ![s] = unsaved[s] \cap Addresses(r)]
        /\ skipped' = skipped \ {s}
    BY <1>1, <1>4 DEF NewRegion, SlotTypes
  <2>4. SlotTypes'
    BY <1>1, <1>2, <2>1, <2>3 DEF SlotTypes
  <2>5. Covered(pending)'
    BY <1>1, <2>2, <2>3 DEF Covered, SlotTypes
  <2>6. UnsavedCovered'
    BY <1>1, <2>2, <2>3 DEF UnsavedCovered, SlotTypes
  <2> QED
    BY <1>3, <2>4, <2>5, <2>6 DEF SlotsInv
<1>5. CASE ModifyRegion(s, r, type)
  <2> DEFINE max == MaxRange(pending[s].max_pending_range, r)
             new == Slotted(pending[s], type, r, max)
  <2>1. /\ max \in Ranges /\ Addresses(r) \subseteq Addresses(max)
        /\ Addresses(pending[s].max_pending_range) \subseteq Addresses(max)
    BY <1>1, MaxRangeCovers
  <2> HIDE DEF max
  <2>2. new \in Patches /\ new.range = r /\ new.max_pending_range = max
    BY <1>1, <2>1 DEF Slotted, Patches
  <2>3. pending' = [pending EXCEPT ![s] = new] /\ unsaved' = unsaved /\ skipped' = skipped
    BY <1>1, <1>5 DEF ModifyRegion, SlotTypes, max
  <2> HIDE DEF new
  <2>4. SlotTypes'
    BY <1>1, <1>2, <2>2, <2>3 DEF SlotTypes
  <2>5. Covered(pending)'
    BY <1>1, <2>1, <2>2, <2>3 DEF Covered, SlotTypes
  <2>6. UnsavedCovered'
    BY <1>1, <2>1, <2>2, <2>3 DEF UnsavedCovered, SlotTypes
  <2> QED
    BY <1>3, <2>4, <2>5, <2>6 DEF SlotsInv
<1>6. CASE Switch(s, on)
  <2> DEFINE new == [type |-> pending[s].type, range |-> pending[s].range,
                     max_pending_range |-> pending[s].max_pending_range, enabled |-> on]
  <2>1. /\ new \in Patches /\ new.range = pending[s].range
        /\ new.max_pending_range = pending[s].max_pending_range
    BY <1>1 DEF Patches
  <2>2. pending' = [pending EXCEPT ![s] = new] /\ unsaved' = unsaved /\ skipped' = skipped
    BY <1>1, <1>6 DEF Switch, SlotTypes
  <2> HIDE DEF new
  <2>3. SlotTypes'
    BY <1>1, <1>2, <2>1, <2>2 DEF SlotTypes
  <2>4. Covered(pending)' /\ UnsavedCovered'
    BY <1>1, <2>1, <2>2 DEF Covered, UnsavedCovered, SlotTypes
  <2> QED
    BY <1>3, <2>3, <2>4 DEF SlotsInv
<1>7. CASE WriteSlot(s)
  <2>1. PICK a \in Addresses(pending[s].range) : unsaved' = [unsaved EXCEPT ![s] = unsaved[s] \cup {a}]
    BY <1>1, <1>7 DEF WriteSlot, SlotTypes
  <2>2. pending' = pending /\ skipped' = skipped
    BY <1>7 DEF WriteSlot
  <2>3. a \in 0..MaxAddr /\ a \in Addresses(pending[s].max_pending_range)
    BY <1>1, <2>1, SlotsAssumption DEF Covered, Addresses, Ranges
  <2>4. SlotTypes'
    BY <1>1, <1>2, <2>1, <2>2, <2>3 DEF SlotTypes
  <2>5. Covered(pending)' /\ UnsavedCovered'
    BY <1>1, <2>1, <2>2, <2>3 DEF Covered, UnsavedCovered, SlotTypes
  <2> QED
    BY <1>3, <2>4, <2>5 DEF SlotsInv
<1> QED
  BY <1>4, <1>5, <1>6, <1>7

\* mpatch_stage_cond_retry keeps it: what it passes is stored or disabled, and
\* only a slot whose patch is stored loses its writes (mpatch.c:341-384).
LEMMA StagingKeepsInv ==
  ASSUME SlotsInv, NEW again \in BOOLEAN,
         BeginStage(again) \/ PassSlot \/ StageSlot \/ SweepAndRestart \/ GiveUp \/ AllDone
  PROVE  SlotsInv'
<1> USE DEF stagingVars
<1>1. /\ SlotTypes /\ Progress /\ UnsavedCovered
      /\ Covered(pending) /\ Covered(saved) /\ Covered(committed)
      /\ NSlots \in Nat \ {0}
  BY SlotsAssumption DEF SlotsInv
<1>2. CASE BeginStage(again)
  <2>1. 0 \in 0..NSlots
    BY <1>1
  <2>2. /\ slotPc' = "stage" /\ id' = 0 /\ second_try' = FALSE
        /\ pending' = pending /\ saved' = saved /\ committed' = committed
        /\ unsaved' = unsaved /\ skipped' = skipped
    BY <1>2 DEF BeginStage
  <2>3. SlotTypes'
    BY <1>1, <2>1, <2>2 DEF SlotTypes
  <2>4. Progress'
    BY <2>2 DEF Progress
  <2> QED
    BY <1>1, <2>2, <2>3, <2>4 DEF SlotsInv, Covered, UnsavedCovered
<1>3. CASE PassSlot
  <2>1. /\ slotPc = "stage" /\ slotPc' = slotPc /\ id < NSlots /\ ~pending[id].enabled
        /\ id' = id + 1 /\ second_try' = second_try /\ stored' = stored
        /\ pending' = pending /\ saved' = saved /\ committed' = committed
        /\ unsaved' = unsaved /\ skipped' = skipped
    BY <1>3 DEF PassSlot, AtSlot
  <2>2. SlotTypes'
    BY <1>1, <2>1 DEF SlotTypes
  <2>3. Progress'
    BY <1>1, <2>1 DEF Progress, SlotTypes
  <2> QED
    BY <1>1, <2>1, <2>2, <2>3 DEF SlotsInv, Covered, UnsavedCovered
<1>4. CASE StageSlot
  <2>1. /\ slotPc = "stage" /\ slotPc' = slotPc /\ id < NSlots
        /\ stored' = stored \cup {<<id, pending[id].max_pending_range>>}
        /\ id' = id + 1 /\ second_try' = second_try
        /\ pending' = pending /\ saved' = saved /\ committed' = committed
        /\ unsaved' = unsaved /\ skipped' = skipped
    BY <1>4 DEF StageSlot, AtSlot
  <2>2. SlotTypes'
    BY <1>1, <2>1 DEF SlotTypes
  <2>3. Progress'
    BY <1>1, <2>1 DEF Progress, SlotTypes
  <2> QED
    BY <1>1, <2>1, <2>2, <2>3 DEF SlotsInv, Covered, UnsavedCovered
<1>5. CASE SweepAndRestart
  <2>1. /\ slotPc = "stage" /\ slotPc' = slotPc /\ id' = 1 /\ second_try' = TRUE
        /\ pending' = pending /\ saved' = pending /\ committed' = pending
        /\ unsaved' = unsaved /\ skipped' = skipped
    BY <1>5 DEF SweepAndRestart, AtSlot
  <2>2. SlotTypes'
    BY <1>1, <2>1 DEF SlotTypes
  <2>3. Progress'
    BY <1>1, <2>1 DEF Progress, SlotTypes
  <2> QED
    BY <1>1, <2>1, <2>2, <2>3 DEF SlotsInv, Covered, UnsavedCovered
<1>6. CASE GiveUp
  <2>1. 0 \in 0..NSlots
    BY <1>1
  <2> QED
    BY <1>1, <1>6, <2>1 DEF GiveUp, SlotsInv, SlotTypes, Progress, Covered, UnsavedCovered
<1>7. CASE AllDone
  <2>1. /\ slotPc = "stage" /\ id >= NSlots /\ slotPc' = "save"
        /\ pending' = [s \in Slot |-> Updated(pending[s])]
        /\ unsaved' = [s \in Slot |->
             unsaved[s] \ UNION {Addresses(d[2]) : d \in {e \in stored : e[1] = s}}]
        /\ skipped' = skipped \cup {s \in Slot : \E d \in Due \ stored : d[1] = s}
        /\ saved' = saved /\ committed' = committed /\ id' = 0 /\ second_try' = FALSE
    BY <1>7 DEF AllDone
  <2>2. ASSUME NEW s \in Slot
        PROVE  /\ Updated(pending[s]) \in Patches
               /\ Updated(pending[s]).range = pending[s].range
               /\ Updated(pending[s]).max_pending_range =
                    IF pending[s].enabled THEN pending[s].range
                                          ELSE pending[s].max_pending_range
    <3>1. pending[s] \in Patches
      BY <1>1 DEF SlotTypes
    <3> QED
      BY <3>1 DEF Updated, Patches
  <2>3. \A s \in Slot : unsaved'[s] \subseteq unsaved[s]
    BY <2>1
  <2>4. SlotTypes'
    <3>1. 0 \in 0..NSlots
      BY <1>1
    <3>2. unsaved' \in [Slot -> SUBSET (0..MaxAddr)]
      BY <1>1, <2>1, <2>3 DEF SlotTypes
    <3>3. pending' \in [Slot -> Patches]
      BY <2>1, <2>2
    <3> QED
      BY <1>1, <2>1, <3>1, <3>2, <3>3 DEF SlotTypes
  <2>5. Covered(pending)'
    BY <1>1, <2>1, <2>2 DEF Covered
  <2>6. ASSUME NEW s \in Slot \ skipped'
        PROVE  unsaved'[s] \subseteq Addresses(pending'[s].max_pending_range)
    <3>1. s \notin skipped /\ unsaved[s] \subseteq Addresses(pending[s].max_pending_range)
      BY <1>1, <2>1 DEF UnsavedCovered
    <3>2. CASE ~pending[s].enabled
      BY <2>1, <2>2, <2>3, <3>1, <3>2
    <3>3. CASE pending[s].enabled
      <4> DEFINE d == <<s, pending[s].max_pending_range>>
      <4>1. d \in Due /\ d[1] = s /\ d[2] = pending[s].max_pending_range
        BY <3>3 DEF Due
      <4> HIDE DEF d
      <4>2. d \in stored
        BY <2>1, <4>1
      <4>3. Addresses(d[2]) \subseteq UNION {Addresses(e[2]) : e \in {f \in stored : f[1] = s}}
        BY <4>1, <4>2
      <4>4. unsaved'[s] = {}
        BY <2>1, <3>1, <4>1, <4>3
      <4> QED
        BY <4>4
    <3> QED
      BY <3>2, <3>3
  <2>7. UnsavedCovered'
    BY <2>6 DEF UnsavedCovered
  <2> QED
    BY <1>1, <2>1, <2>4, <2>5, <2>7 DEF SlotsInv, Progress, Covered
<1> QED
  BY <1>2, <1>3, <1>4, <1>5, <1>6, <1>7

\* The copies of a checkpoint, and power failures, keep it.
LEMMA CheckpointKeepsInv ==
  ASSUME SlotsInv, SaveSlots \/ CommitSlots \/ SlotsFail \/ UNCHANGED slotVars
  PROVE  SlotsInv'
<1> USE DEF SlotsInv, SlotTypes, Progress, Covered, UnsavedCovered, stagingVars
<1>1. CASE SaveSlots
  BY <1>1 DEF SaveSlots
<1>2. CASE CommitSlots
  BY <1>2 DEF CommitSlots
<1>3. CASE SlotsFail
  <2>1. 0 \in 0..NSlots
    BY SlotsAssumption
  <2>2. /\ slotPc' = "run" /\ pending' = committed /\ saved' = committed
        /\ committed' = committed /\ id' = 0 /\ second_try' = FALSE
        /\ unsaved' = [s \in Slot |-> {}]
    BY <1>3 DEF SlotsFail
  <2>3. SlotTypes'
    BY <2>1, <2>2
  <2>4. UnsavedCovered'
    BY <2>2
  <2> QED
    BY <2>2, <2>3, <2>4
<1>4. CASE UNCHANGED slotVars
  BY <1>4 DEF slotVars
<1> QED
  BY <1>1, <1>2, <1>3, <1>4

\* The invariant in every state.
LEMMA SlotsInvariance == SlotsSpec => []SlotsInv
<1>1. SlotsInv /\ [SlotsNext]_slotVars => SlotsInv'
  <2> SUFFICES ASSUME SlotsInv, [SlotsNext]_slotVars PROVE SlotsInv'
    OBVIOUS
  <2>1. [low |-> 0, high |-> 0] \in Ranges /\ "continuous" \in Types
    BY SlotsAssumption DEF Ranges, Types
  <2>2. ASSUME NEW s \in Slot, NEW r \in Ranges, NEW type \in Types,
               NewRegion(s, r, type) \/ ModifyRegion(s, r, type)
        PROVE  SlotsInv'
    BY <2>2, ApplicationKeepsInv
  <2>3. ASSUME NEW s \in Slot, NEW on \in BOOLEAN, Switch(s, on)
        PROVE  SlotsInv'
    BY <2>1, <2>3, ApplicationKeepsInv
  <2>4. ASSUME NEW s \in Slot, WriteSlot(s)
        PROVE  SlotsInv'
    BY <2>1, <2>4, ApplicationKeepsInv
  <2>5. ASSUME NEW again \in BOOLEAN,
               \/ BeginStage(again)
               \/ PassSlot \/ StageSlot \/ SweepAndRestart \/ GiveUp \/ AllDone
        PROVE  SlotsInv'
    BY <2>5, StagingKeepsInv
  <2>6. CASE SaveSlots \/ CommitSlots \/ SlotsFail \/ UNCHANGED slotVars
    BY <2>6, CheckpointKeepsInv
  <2> QED
    BY <2>2, <2>3, <2>4, <2>5, <2>6 DEF SlotsNext
<1> QED
  BY <1>1, SlotsInitInv, PTL DEF SlotsSpec

\* Where a staging reports success the patch of every enabled slot is stored,
\* but for the first slot after a sweep (mpatch.c:341-384).
THEOREM AllButFirstAreStaged == SlotsSpec => []AllButFirstStaged
<1>1. SlotsInv => AllButFirstStaged
  BY SlotsAssumption DEF SlotsInv, SlotTypes, Progress, AllButFirstStaged, Due, Slot
<1> QED
  BY <1>1, SlotsInvariance, PTL

\* The next patch of an enabled slot covers every write since the last one,
\* however the ranges were changed and however many stagings failed
\* (mpatch.c:232, 378).
THEOREM NoWriteIsForgotten == SlotsSpec => []NoWriteForgotten
<1>1. SlotsInv => NoWriteForgotten
  BY DEF SlotsInv, UnsavedCovered, NoWriteForgotten
<1> QED
  BY <1>1, SlotsInvariance, PTL

\* What the type invariant adds to the proof of the ranges: a sweep frees no
\* more than there is, for what this staging has stored is finite.
Furnished ==
  /\ retry \in BOOLEAN /\ stored \subseteq Slot \X Ranges /\ IsFiniteSet(stored)
  /\ room \in 0..Room /\ slotPc \in {"run", "stage", "save", "commit"}
  /\ skipped \subseteq Slot /\ calls \in 0..CallLimit

\* A staging, whichever of its steps is taken.
LEMMA StagingFurnished ==
  ASSUME SlotsInv, Furnished,
         \/ \E again \in BOOLEAN : BeginStage(again)
         \/ PassSlot \/ StageSlot \/ SweepAndRestart \/ GiveUp \/ AllDone
  PROVE  Furnished'
<1>1. Room \in Nat /\ NSlots \in Nat /\ pending \in [Slot -> Patches] /\ id \in 0..NSlots
  BY SlotsAssumption DEF SlotsInv, SlotTypes
<1>2. IsFiniteSet({})
  BY FS_EmptySet
<1>3. ASSUME NEW again \in BOOLEAN, BeginStage(again) PROVE Furnished'
  BY <1>2, <1>3 DEF BeginStage, Furnished
<1>4. CASE PassSlot
  BY <1>4 DEF PassSlot, AtSlot, Furnished
<1>5. CASE StageSlot
  <2>1. id \in Slot
    BY <1>1, <1>5 DEF StageSlot, AtSlot, Slot
  <2>2. pending[id].max_pending_range \in Ranges
    BY <1>1, <2>1 DEF Patches
  <2>3. stored' \subseteq Slot \X Ranges /\ IsFiniteSet(stored')
    <3>1. IsFiniteSet(stored \cup {<<id, pending[id].max_pending_range>>})
      BY FS_AddElement DEF Furnished
    <3> QED
      BY <1>5, <2>1, <2>2, <3>1 DEF StageSlot, Furnished
  <2>4. room' \in 0..Room
    BY <1>1, <1>5 DEF StageSlot, Furnished
  <2> QED
    BY <1>5, <2>3, <2>4 DEF StageSlot, AtSlot, Furnished
<1>6. CASE SweepAndRestart
  <2>1. Cardinality(stored) \in Nat
    BY FS_CardinalityType DEF Furnished
  <2>2. room' \in 0..Room
    BY <1>1, <1>6, <2>1 DEF SweepAndRestart
  <2> QED
    BY <1>6, <2>2 DEF SweepAndRestart, Furnished
<1>7. CASE GiveUp
  BY <1>2, <1>7 DEF GiveUp, Furnished
<1>8. CASE AllDone
  <2>1. skipped' \subseteq Slot
    BY <1>8 DEF AllDone, Furnished
  <2> QED
    BY <1>2, <1>8, <2>1 DEF AllDone, Furnished
<1> QED
  BY <1>3, <1>4, <1>5, <1>6, <1>7, <1>8

\* The other steps.
LEMMA CallsFurnished ==
  ASSUME Furnished,
         \/ \E s \in Slot, r \in Ranges, type \in Types :
              NewRegion(s, r, type) \/ ModifyRegion(s, r, type)
         \/ \E s \in Slot, on \in BOOLEAN : Switch(s, on)
         \/ \E s \in Slot : WriteSlot(s)
         \/ SaveSlots \/ CommitSlots \/ SlotsFail \/ UNCHANGED slotVars
  PROVE  Furnished'
<1>1. Room \in Nat /\ CallLimit \in Nat
  BY SlotsAssumption
<1>2. Call => /\ calls' \in 0..CallLimit
              /\ UNCHANGED <<room, slotPc, retry, stored>>
  BY <1>1 DEF Call, Furnished, stagingVars
<1>3. ASSUME NEW s \in Slot, NEW r \in Ranges, NEW type \in Types,
             NewRegion(s, r, type) \/ ModifyRegion(s, r, type)
      PROVE  Furnished'
  BY <1>2, <1>3 DEF NewRegion, ModifyRegion, Furnished
<1>4. ASSUME NEW s \in Slot, NEW on \in BOOLEAN, Switch(s, on) PROVE Furnished'
  BY <1>2, <1>4 DEF Switch, Furnished
<1>5. ASSUME NEW s \in Slot, WriteSlot(s) PROVE Furnished'
  BY <1>5 DEF WriteSlot, stagingVars, Furnished
<1>6. CASE SaveSlots \/ CommitSlots
  BY <1>6 DEF SaveSlots, CommitSlots, stagingVars, Furnished
<1>7. CASE SlotsFail
  <2>1. room' \in 0..Room
    BY <1>1, <1>7 DEF SlotsFail, Furnished
  <2> QED
    BY <1>7, <2>1, FS_EmptySet DEF SlotsFail, Furnished
<1>8. CASE UNCHANGED slotVars
  BY <1>8 DEF slotVars, stagingVars, Furnished
<1> QED
  BY <1>3, <1>4, <1>5, <1>6, <1>7, <1>8

\* Type correctness of the slots: what is staged, the room that is left and the
\* number of calls stay in their bounds.
THEOREM SlotsTypeCorrect == SlotsSpec => []SlotsTypeOK
<1>1. SlotsInit => Furnished
  BY SlotsAssumption, FS_EmptySet DEF SlotsInit, Furnished
<1>2. SlotsInv /\ Furnished /\ [SlotsNext]_slotVars => Furnished'
  BY StagingFurnished, CallsFurnished DEF SlotsNext
<1>3. SlotsInv /\ Furnished => SlotsTypeOK
  BY DEF SlotsInv, SlotTypes, Furnished, SlotsTypeOK, Patches
<1> QED
  BY <1>1, <1>2, <1>3, SlotsInvariance, PTL DEF SlotsSpec

-----------------------------------------------------------------------------
(* The bytes: where each memcpy of a transfer begins and ends, and that     *)
(* what is extracted is what was stored.                                    *)

\* The first byte of the i-th block, counted over the whole list.
Base(i) == (i - 1) * D

\* Quotient and remainder by the size of a block.
LEMMA DivMod ==
  ASSUME NEW b \in Nat, NEW q, q = b \div D, NEW m, m = b % D
  PROVE  q \in Nat /\ m \in Offset /\ b = q * D + m
  BY DataAssumption DEF Offset

\* The bases of the blocks are D apart.
LEMMA BaseSteps ==
  ASSUME NEW i \in Nat \ {0}
  PROVE  /\ Base(1) = 0 /\ Base(i) \in Nat /\ Base(i + 1) = Base(i) + D
         /\ (i > 1 => Base(i) = D + (i - 2) * D)
<1>1. D \in Nat
  BY DataAssumption
<1>2. (i - 1) * D \in Nat /\ (i + 1 - 1) * D = (i - 1) * D + D /\ (1 - 1) * D = 0
  BY <1>1
<1>3. i > 1 => (i - 1) * D = D + (i - 2) * D
  BY <1>1
<1> QED
  BY <1>2, <1>3 DEF Base

\* Blocks do not overlap: a block ends before the base of any later one.
LEMMA BaseGrows ==
  ASSUME NEW i \in Nat \ {0}, NEW j \in Nat \ {0}, i < j
  PROVE  Base(i) + D <= Base(j)
<1>1. D \in Nat /\ j - 1 - i \in Nat
  BY DataAssumption
<1>2. (j - 1) * D = i * D + (j - 1 - i) * D /\ (j - 1 - i) * D \in Nat /\ i * D = (i - 1) * D + D
  BY <1>1
<1>3. (i - 1) * D \in Nat /\ i * D \in Nat
  BY <1>1
<1> QED
  BY <1>1, <1>2, <1>3 DEF Base

\* The base of a block behind s others.
LEMMA BaseSkips ==
  ASSUME NEW s \in Nat, NEW j \in Nat \ {0}
  PROVE  Base(s + j) = s * D + Base(j) /\ s * D \in Nat
  BY DataAssumption DEF Base

\* Size2Blocks is the number of the block that the last of s bytes is in.
LEMMA BlocksBound ==
  ASSUME NEW s \in Nat \ {0}, NEW n, n = Size2Blocks(s)
  PROVE  n \in Nat \ {0} /\ Base(n) < s /\ s <= Base(n) + D
<1>1. PICK q : q = (s - 1) \div D
  OBVIOUS
<1>2. PICK m : m = (s - 1) % D
  OBVIOUS
<1>3. q \in Nat /\ m \in Offset /\ s - 1 = q * D + m
  BY <1>1, <1>2, DivMod
<1>4. n = 1 + q /\ Base(n) = q * D
  BY <1>1, <1>3 DEF Size2Blocks, Base
<1> QED
  BY <1>3, <1>4, DataAssumption DEF Offset

\* No other number of blocks ends with the block of the last byte.
LEMMA BlocksUnique ==
  ASSUME NEW s \in Nat \ {0}, NEW n \in Nat \ {0}, Base(n) < s, s <= Base(n) + D
  PROVE  n = Size2Blocks(s)
<1>1. PICK m : m = Size2Blocks(s)
  OBVIOUS
<1>2. m \in Nat \ {0} /\ Base(m) < s /\ s <= Base(m) + D
  BY <1>1, BlocksBound
<1>3. Base(m) \in Nat /\ Base(n) \in Nat /\ D \in Nat
  BY <1>2, BaseSteps, DataAssumption
<1>4. ~(m < n)
  <2> SUFFICES ASSUME m < n PROVE FALSE
    OBVIOUS
  <2>1. Base(m) + D <= Base(n)
    BY <1>2, BaseGrows
  <2> QED
    BY <1>2, <1>3, <2>1
<1>5. ~(n < m)
  <2> SUFFICES ASSUME n < m PROVE FALSE
    OBVIOUS
  <2>1. Base(n) + D <= Base(m)
    BY <1>2, BaseGrows
  <2> QED
    BY <1>2, <1>3, <2>1
<1> QED
  BY <1>1, <1>2, <1>4, <1>5

\* The remainder by D of a length is what it takes of its last block, but for a
\* length that fills it, whose remainder is zero (bliss_allocator.c:265).
LEMMA LastLength ==
  ASSUME NEW s \in Nat \ {0}, NEW n, n = Size2Blocks(s)
  PROVE  s % D = IF s = Base(n) + D THEN 0 ELSE s - Base(n)
<1>1. PICK q : q = s \div D
  OBVIOUS
<1>2. PICK m : m = s % D
  OBVIOUS
<1>0. s \in Nat /\ D \in Nat \ {0}
  BY DataAssumption
<1>3. q \in Nat /\ m \in Offset /\ s = q * D + m
  BY <1>0, <1>1, <1>2, DivMod
<1>8. m \in Nat /\ m < D
  BY <1>0, <1>3 DEF Offset
<1>4. Base(q + 1) = q * D /\ Base(q + 1) \in Nat
  BY <1>0, <1>3 DEF Base
<1>5. n \in Nat \ {0} /\ Base(n) < s /\ s <= Base(n) + D /\ Base(n) \in Nat
  BY BlocksBound, BaseSteps
<1>6. CASE m = 0
  <2>1. q # 0 /\ Base(q) \in Nat /\ Base(q + 1) = Base(q) + D
    BY <1>0, <1>8, <1>3, <1>4, <1>6, BaseSteps
  <2>2. s = Base(q) + D /\ q \in Nat \ {0} /\ Base(q) < s /\ s <= Base(q) + D
    BY <2>1, <1>0, <1>3, <1>4, <1>6
  <2>3. q = n
    BY <2>2, BlocksUnique
  <2> QED
    BY <1>0, <1>8, <1>2, <1>3, <1>4, <1>6, <2>1, <2>2, <2>3
<1>7. CASE m # 0
  <2>1. q + 1 = n
    BY <1>0, <1>8, <1>3, <1>4, <1>7, BlocksUnique
  <2> QED
    BY <1>0, <1>8, <1>2, <1>3, <1>4, <1>7, <2>1
<1> QED
  BY <1>6, <1>7

\* What the j-th memcpy of a transfer of c bytes from offset o on ought to cover:
\* as many bytes of the buffer as of the block, none behind the end of either;
\* it ends where the next one begins, and the last one where the transfer ends,
\* unless that is where a block ends.
CopyIsPlaced(j, last, c, o) ==
  LET from == InBlock(j, o)
      to   == InBuffer(j, o)
      len  == Length(j, last, c, o)
  IN  /\ from \in Offset /\ to \in Nat /\ len \in Nat
      /\ to + o = Base(j) + from
      /\ from + len <= D /\ to + len <= c
      /\ j < last => to + len = InBuffer(j + 1, o) /\ from + len = D
      /\ j = last /\ Fits(c, o) => to + len = c

\* InBlock, InBuffer and Length compute just that, for every size and offset.
LEMMA CopyPlaced ==
  ASSUME NEW c \in Nat, NEW o \in Offset, c + o > 0, NEW last, last = Size2Blocks(c + o),
         NEW j \in 1..last
  PROVE  CopyIsPlaced(j, last, c, o)
<1> DEFINE s == c + o
<1>1. s \in Nat \ {0} /\ D \in Nat \ {0} /\ o \in Nat /\ o < D
  BY DataAssumption DEF Offset
<1>2. /\ last \in Nat \ {0} /\ Base(last) < s /\ s <= Base(last) + D
      /\ s % D = IF s = Base(last) + D THEN 0 ELSE s - Base(last)
  BY <1>1, BlocksBound, LastLength
<1>3. /\ Base(1) = 0 /\ Base(j) \in Nat /\ Base(j + 1) = Base(j) + D
      /\ (j > 1 => Base(j) = D + (j - 2) * D)
  BY BaseSteps, <1>2
<1>4. j < last => Base(j) + D <= Base(last)
  BY BaseGrows, <1>2
<1>5. (j + 1 - 2) * D = Base(j)
  BY <1>1, <1>2 DEF Base
<1>6. InBlock(j, o) = IF j = 1 THEN o ELSE 0
  BY DEF InBlock
<1>7. InBuffer(j, o) = IF j = 1 THEN 0 ELSE Base(j) - o
  BY <1>1, <1>3, <1>2 DEF InBuffer
<1>8. InBuffer(j + 1, o) = Base(j + 1) - o
  <2>1. j + 1 # 1
    BY <1>2
  <2> QED
    BY <1>1, <1>2, <1>3, <1>5, <2>1 DEF InBuffer
<1>9. Length(j, last, c, o) =
        IF j = 1 THEN (IF last = 1 THEN c ELSE D - o) ELSE IF j < last THEN D ELSE s % D
  BY DEF Length
<1>10. Fits(c, o) <=> s % D # 0 \/ last = 1
  BY DEF Fits
<1> HIDE DEF s
<1>11. s = c + o
  BY DEF s
<1>12. InBlock(j, o) \in Offset
  BY <1>1, <1>6 DEF Offset
<1>13. InBuffer(j, o) \in Nat /\ InBuffer(j, o) + o = Base(j) + InBlock(j, o)
  <2>1. j > 1 => Base(j) >= D
    BY <1>3, <1>1, <1>2, BaseGrows
  <2> QED
    BY <2>1, <1>1, <1>2, <1>3, <1>6, <1>7
<1>14. CASE j < last
  <2>1. Length(j, last, c, o) = IF j = 1 THEN D - o ELSE D
    BY <1>2, <1>9, <1>14
  <2>2. InBlock(j, o) + Length(j, last, c, o) = D /\ Length(j, last, c, o) \in Nat
    BY <1>1, <1>6, <2>1
  <2>3. InBuffer(j, o) + Length(j, last, c, o) = InBuffer(j + 1, o)
    BY <1>1, <1>3, <1>8, <1>12, <1>13, <2>2 DEF Offset
  <2>4. InBuffer(j + 1, o) <= c
    <3>1. Base(last) \in Nat
      BY <1>2, BaseSteps
    <3>2. InBuffer(j + 1, o) = Base(j) + D - o /\ Base(j) + D <= Base(last)
      BY <1>1, <1>3, <1>4, <1>8, <1>14
    <3> QED
      BY <1>1, <1>2, <1>3, <3>1, <3>2, <1>11
  <2> QED
    BY <1>12, <1>13, <1>14, <2>2, <2>3, <2>4, <1>1, <1>2 DEF CopyIsPlaced
<1>15. CASE j = last /\ last = 1
  BY <1>1, <1>2, <1>3, <1>6, <1>7, <1>9, <1>11, <1>12, <1>13, <1>15
     DEF CopyIsPlaced
<1>16. CASE j = last /\ last # 1
  <2>1. Length(j, last, c, o) = (IF s = Base(j) + D THEN 0 ELSE s - Base(j)) /\ j # 1
    BY <1>2, <1>9, <1>16
  <2>2. InBlock(j, o) = 0 /\ InBuffer(j, o) = Base(j) - o
    BY <2>1, <1>6, <1>7
  <2>3. Base(j) < s /\ s <= Base(j) + D /\ (Fits(c, o) => s # Base(j) + D)
    BY <1>2, <1>10, <1>16
  <2> QED
    BY <1>1, <1>3, <1>11, <1>12, <1>13, <1>16, <2>1, <2>2, <2>3 DEF CopyIsPlaced
<1> QED
  BY <1>2, <1>14, <1>15, <1>16

\* Blocks may be counted from the one an extraction begins in: q blocks before
\* offset p of the list are left out and o bytes of the next one.
LEMMA SkippedBlocks ==
  ASSUME NEW p \in Nat, NEW c \in Nat \ {0}, NEW o \in Offset, NEW q \in Nat, p = q * D + o
  PROVE  /\ Size2Blocks(c + p) - q = Size2Blocks(c + o)
         /\ Size2Blocks(c + o) \in Nat \ {0}
<1>1. o \in Nat /\ D \in Nat
  BY DataAssumption DEF Offset
<1>7. c + o \in Nat \ {0} /\ c + p \in Nat \ {0}
  BY <1>1
<1>2. PICK n : n = Size2Blocks(c + o)
  OBVIOUS
<1>3. n \in Nat \ {0} /\ Base(n) < c + o /\ c + o <= Base(n) + D
  BY <1>7, <1>2, BlocksBound
<1>4. Base(q + n) = q * D + Base(n) /\ q * D \in Nat /\ Base(n) \in Nat
  BY <1>1, <1>3, BaseSkips, BaseSteps
<1>5. Base(q + n) < c + p /\ c + p <= Base(q + n) + D
  BY <1>1, <1>3, <1>4, DataAssumption
<1>6. q + n = Size2Blocks(c + p)
  BY <1>1, <1>7, <1>3, <1>5, BlocksUnique
<1>10. (q + n) - q = n
  BY <1>1, <1>3
<1>8. Size2Blocks(c + p) - q = n
  BY <1>6, <1>10, Zenon
<1> QED
  BY <1>2, <1>3, <1>8, Zenon

-----------------------------------------------------------------------------

\* A transfer of c bytes that begins in the first of n blocks behind o others.
Transfers(c, o, n) ==
  /\ c \in Nat /\ o \in Offset /\ c + o > 0 /\ n = Size2Blocks(c + o)
  /\ copy \in 1..n

\* What the pieces of the state are, once a list is there.
ListOK ==
  /\ head \in Offset /\ size \in Nat /\ size <= MaxSize
  /\ head + size > 0 /\ Len(list) = Size2Blocks(head + size)
  /\ list \in Seq(Block) /\ Injective(list)
  /\ data \in [Block -> [Offset -> Nat]]
  /\ ExactFits \/ Fits(size, head)

\* The extraction's first offset and the number of its blocks.
FirstByte == (off + head) % D
Copies    == Size2Blocks(wanted + FirstByte)

RangeOK ==
  /\ off \in Nat /\ wanted \in Nat \ {0} /\ off + wanted <= size
  /\ ExactFits \/ Fits(wanted, FirstByte)
  /\ DOMAIN dst = 0..MaxSize-1

\* Byte x of the i-th block holds what the client put there.
Holds(i, x) ==
  LET k == Base(i) + x - head
  IN  0 <= k /\ k < size => data[list[i]][x] = k + 1

\* The first n blocks hold what the client put there.
StoredUpTo(n) == \A i \in 1..n : \A x \in Offset : Holds(i, x)

\* The first n bytes have been extracted and the others not touched.
ExtractedUpTo(n) ==
  \A k \in DOMAIN dst : dst[k] = IF k < n THEN off + k + 1 ELSE 0

\* The inductive invariant.  Only what depends on the last copy of a transfer
\* assumes that no transfer of several blocks ends with a block.
DataInv ==
  /\ dataPc \in {"alloc", "store", "stored", "extract", "extracted"}
  /\ dataPc = "alloc" => data \in [Block -> [Offset -> Nat]]
  /\ dataPc # "alloc" => ListOK
  /\ dataPc = "store" => Transfers(size, head, Len(list))
  /\ dataPc = "store" /\ ~ExactFits => StoredUpTo(copy - 1)
  /\ dataPc \in {"stored", "extract", "extracted"} /\ ~ExactFits => StoredUpTo(Len(list))
  /\ dataPc \in {"extract", "extracted"} => RangeOK
  /\ dataPc = "extract" => Transfers(wanted, FirstByte, Copies)
  /\ dataPc = "extract" /\ ~ExactFits => ExtractedUpTo(InBuffer(copy, FirstByte))
  /\ dataPc = "extracted" /\ ~ExactFits => ExtractedUpTo(wanted)

\* A new list is well-formed, and its first copy is due.
LEMMA AllocKeeps ==
  ASSUME DataInv, NEW h \in Offset, NEW sz \in 0..MaxSize, NEW k \in 1..MaxBlocks,
         NEW l \in [1..k -> Block], Alloc(h, sz, l)
  PROVE  DataInv'
<1> USE DEF Alloc
<1>1. head' = h /\ size' = sz /\ list' = l /\ copy' = 1 /\ dataPc' = "store" /\ dataPc = "alloc"
  OBVIOUS
<1>2. D \in Nat \ {0} /\ MaxBlocks \in Nat \ {0} /\ h \in Nat
  BY DataAssumption DEF Offset
<1>3. sz \in Nat /\ sz <= MaxSize
  <2>1. MaxSize \in Nat
    BY <1>2 DEF MaxSize
  <2> QED
    BY <2>1
<1>4. l \in Seq(Block) /\ Len(l) = Size2Blocks(h + sz) /\ Injective(l)
  BY <1>2
<1>5. h + sz \in Nat \ {0} /\ h + sz = sz + h
  BY <1>2, <1>3
<1>6. Len(l) \in Nat \ {0}
  BY <1>4, <1>5, BlocksBound
<1>7. data' \in [Block -> [Offset -> Nat]]
  <2>1. data \in [Block -> [Offset -> Nat]]
    BY <1>1 DEF DataInv
  <2>2. Header \in Nat
    BY <1>2 DEF Header, MaxSize
  <2>3. l[1] \in Block
    BY <1>4, <1>6
  <2>4. [x \in Offset |-> IF x < h THEN Header ELSE data[l[1]][x]] \in [Offset -> Nat]
    BY <2>1, <2>2, <2>3
  <2> QED
    BY <2>1, <2>4
<1>8. ListOK'
  BY <1>1, <1>3, <1>4, <1>5, <1>7 DEF ListOK, Fits
<1>9. Transfers(size, head, Len(list))'
  BY <1>1, <1>3, <1>4, <1>5, <1>6 DEF Transfers
<1>10. StoredUpTo(copy - 1)'
  BY <1>1 DEF StoredUpTo
<1> QED
  BY <1>1, <1>8, <1>9, <1>10 DEF DataInv

\* A memcpy of bliss_store fills its block with what belongs there and leaves the
\* earlier blocks alone, for no block is twice in the list.
LEMMA StoreKeeps ==
  ASSUME DataInv, Store
  PROVE  DataInv'
<1>1. /\ dataPc = "store" /\ ListOK /\ Transfers(size, head, Len(list))
      /\ (~ExactFits => StoredUpTo(copy - 1))
  BY DEF Store, DataInv
<1> DEFINE n    == Len(list)
           from == InBlock(copy, head)
           to   == InBuffer(copy, head)
           len  == Length(copy, n, size, head)
           blk  == [x \in Offset |-> IF from <= x /\ x < from + len
                                     THEN to + (x - from) + 1 ELSE data[list[copy]][x]]
<1>2. /\ size \in Nat /\ head \in Offset /\ head \in Nat /\ size + head > 0 /\ D \in Nat \ {0}
      /\ n = Size2Blocks(size + head) /\ copy \in 1..n
      /\ list \in Seq(Block) /\ n \in Nat /\ Injective(list) /\ data \in [Block -> [Offset -> Nat]]
  BY <1>1, DataAssumption DEF ListOK, Transfers, Offset
<1>3. CopyIsPlaced(copy, n, size, head)
  BY <1>2, CopyPlaced
<1>4. /\ from \in Nat /\ to \in Nat /\ len \in Nat
      /\ to + head = Base(copy) + from /\ from + len <= D
      /\ (copy < n => from + len = D)
      /\ (copy = n /\ Fits(size, head) => to + len = size)
  BY <1>3 DEF CopyIsPlaced, Offset
<1>5. /\ data' = [data EXCEPT ![list[copy]] = blk]
      /\ dataPc' = IF copy = n THEN "stored" ELSE "store"
      /\ copy' = copy + 1
      /\ UNCHANGED <<list, head, size, dst, off, wanted>>
  BY <1>2 DEF Store
<1>6. from = IF copy = 1 THEN head ELSE 0
  BY DEF InBlock
<1>7. Base(copy) \in Nat /\ (copy > 1 => Base(copy) >= D)
  <2>3. copy \in Nat \ {0}
    BY <1>2
  <2>1. Base(copy) \in Nat
    BY <2>3, BaseSteps
  <2>2. ASSUME copy > 1 PROVE Base(copy) >= D
    <3>1. Base(1) + D <= Base(copy)
      BY <2>3, <2>2, BaseGrows
    <3>2. Base(1) = 0
      BY <1>2 DEF Base
    <3> QED
      BY <1>2, <2>1, <3>1, <3>2
  <2> QED
    BY <2>1, <2>2
<1> HIDE DEF n, from, to, len
<1>8. blk \in [Offset -> Nat]
  <2> SUFFICES ASSUME NEW x \in Offset
               PROVE  (IF from <= x /\ x < from + len
                       THEN to + (x - from) + 1 ELSE data[list[copy]][x]) \in Nat
    OBVIOUS
  <2>1. x \in Nat
    BY <1>2 DEF Offset
  <2>2. list[copy] \in Block
    BY <1>2 DEF n
  <2> QED
    BY <1>2, <1>4, <2>1, <2>2
<1>9. data' \in [Block -> [Offset -> Nat]] /\ data'[list[copy]] = blk
      /\ \A b \in Block : b # list[copy] => data'[b] = data[b]
  <2>1. list[copy] \in Block
    BY <1>2 DEF n
  <2> HIDE DEF blk
  <2> QED
    BY <1>2, <1>5, <1>8, <2>1
<1>10. ListOK'
  BY <1>1, <1>5, <1>9 DEF ListOK, Injective, Fits
<1>11. ~ExactFits => StoredUpTo(copy - 1)'
  <2>5. copy' - 1 = copy
    BY <1>2, <1>5
  <2>6. StoredUpTo(copy - 1)' <=> \A i \in 1..(copy' - 1) : \A x \in Offset : Holds(i, x)'
    BY DEF StoredUpTo
  <2> SUFFICES ASSUME ~ExactFits, NEW i \in 1..copy, NEW x \in Offset
               PROVE  Holds(i, x)'
    BY <2>5, <2>6, Zenon
  <2>1. i \in 1..copy /\ x \in Nat /\ x < D
    BY <1>2 DEF Offset
  <2>2. Fits(size, head)
    BY <1>1 DEF ListOK
  <2>3. CASE i < copy
    <3>1. Holds(i, x)
      BY <1>1, <1>2, <2>1, <2>3 DEF StoredUpTo
    <3>4. i \in 1..Len(list) /\ copy \in 1..Len(list) /\ DOMAIN list = 1..Len(list)
      BY <1>2, <2>1, <2>3 DEF n
    <3>5. list[i] \in Block
      BY <1>2, <3>4
    <3>6. i # copy
      BY <1>2, <2>1, <2>3
    <3>2. list[i] # list[copy] /\ list[i] \in Block
      BY <1>2, <3>4, <3>5, <3>6, Zenon DEF Injective
    <3>3. data'[list[i]] = data[list[i]]
      BY <1>9, <3>2
    <3> QED
      BY <1>5, <3>1, <3>3 DEF Holds
  <2>4. CASE i = copy
    <3> DEFINE k == Base(copy) + x - head
    <3> SUFFICES ASSUME 0 <= k, k < size
                 PROVE  data'[list[copy]][x] = k + 1
      BY <1>5, <2>4 DEF Holds
    <3>1. data'[list[copy]][x] = blk[x]
      BY <1>9
    <3>2. from <= x
      BY <1>2, <1>6, <1>7, <2>1, DataAssumption, BaseSteps
    <3>3. x < from + len
      <4>1. CASE copy < n
        BY <1>4, <2>1, <4>1
      <4>2. CASE copy = n
        BY <1>2, <1>4, <1>7, <2>1, <2>2, <4>2
      <4> QED
        BY <1>2, <4>1, <4>2
    <3>4. to + (x - from) = k
      BY <1>2, <1>4, <1>7, <2>1
    <3> QED
      BY <3>1, <3>2, <3>3, <3>4
  <2> QED
    BY <1>2, <2>1, <2>3, <2>4
<1>12. CASE copy = n
  BY <1>2, <1>5, <1>10, <1>11, <1>12 DEF DataInv, n, StoredUpTo, Holds
<1>13. CASE copy # n
  <2>1. Transfers(size, head, Len(list))'
    BY <1>2, <1>5, <1>13 DEF Transfers, n
  <2> QED
    BY <1>5, <1>10, <1>11, <1>13, <2>1 DEF DataInv
<1> QED
  BY <1>12, <1>13

\* An extraction begins with nothing copied.
LEMMA BeginExtractKeeps ==
  ASSUME DataInv, NEW o \in 0..MaxSize, NEW c \in 1..MaxSize, BeginExtract(o, c)
  PROVE  DataInv'
<1>1. /\ dataPc \in {"stored", "extracted"} /\ ListOK
      /\ (~ExactFits => StoredUpTo(Len(list)))
  BY DEF BeginExtract, DataInv
<1>2. /\ c > 0 /\ o + c <= size /\ (ExactFits \/ Fits(c, (o + head) % D))
      /\ off' = o /\ wanted' = c /\ dst' = [k \in 0..MaxSize-1 |-> 0]
      /\ copy' = 1 /\ dataPc' = "extract" /\ UNCHANGED <<list, head, size, data>>
  BY DEF BeginExtract
<1>3. D \in Nat \ {0} /\ MaxSize \in Nat /\ head \in Nat
  BY <1>1, DataAssumption DEF MaxSize, ListOK, Offset
<1>4. o \in Nat /\ c \in Nat \ {0} /\ o + head \in Nat
  BY <1>3
<1>5. FirstByte' = (o + head) % D
  BY <1>2 DEF FirstByte
<1>16. PICK f : f = (o + head) % D
  OBVIOUS
<1>17. f \in Offset /\ f \in Nat
  BY <1>3, <1>4, <1>16 DEF Offset
<1>6. FirstByte' = f
  BY <1>5, <1>16
<1>7. Copies' = Size2Blocks(c + f)
  BY <1>2, <1>6 DEF Copies
<1>8. c + f \in Nat \ {0}
  BY <1>3, <1>4, <1>17
<1>9. Copies' \in Nat \ {0}
  BY <1>7, <1>8, BlocksBound
<1>10. ListOK'
  BY <1>1, <1>2 DEF ListOK, Injective, Fits
<1>11. (~ExactFits => StoredUpTo(Len(list)))'
  BY <1>1, <1>2 DEF StoredUpTo, Holds
<1>12. RangeOK'
  BY <1>2, <1>4, <1>5 DEF RangeOK, Fits
<1>13. Transfers(wanted, FirstByte, Copies)'
  BY <1>2, <1>4, <1>6, <1>17, <1>7, <1>8, <1>9 DEF Transfers
<1>14. InBuffer(copy, FirstByte)' = 0
  BY <1>2 DEF InBuffer
<1>15. ExtractedUpTo(InBuffer(copy, FirstByte))'
  BY <1>2, <1>3, <1>14 DEF ExtractedUpTo
<1> QED
  BY <1>2, <1>10, <1>11, <1>12, <1>13, <1>15 DEF DataInv

\* The blocks an extraction reads are those of the list behind the skipped ones.
LEMMA ExtractAims ==
  ASSUME ListOK, RangeOK, Transfers(wanted, FirstByte, Copies)
  PROVE  /\ SkipBlocks \in Nat /\ off + head = SkipBlocks * D + FirstByte
         /\ Size2Blocks(wanted + off + head) - SkipBlocks = Copies
         /\ Copies \in Nat \ {0} /\ SkipBlocks + Copies <= Len(list)
         /\ Base(SkipBlocks + copy) = SkipBlocks * D + Base(copy)
<1>1. /\ head \in Nat /\ size \in Nat /\ off \in Nat /\ wanted \in Nat \ {0} /\ off + wanted <= size
      /\ Len(list) = Size2Blocks(head + size) /\ D \in Nat \ {0} /\ head + size \in Nat \ {0}
  BY DataAssumption DEF ListOK, RangeOK, Offset
<1>2. PICK p : p = off + head
  OBVIOUS
<1>3. PICK q : q = p \div D
  OBVIOUS
<1>4. PICK o : o = p % D
  OBVIOUS
<1>5. p \in Nat /\ wanted + off + head = wanted + p /\ FirstByte = o /\ SkipBlocks = q
  BY <1>1, <1>2, <1>3, <1>4 DEF FirstByte, SkipBlocks
<1>6. PICK c : c = wanted
  OBVIOUS
<1>13. p \in Nat /\ c \in Nat \ {0}
  BY <1>1, <1>5, <1>6
<1>14. o \in Offset /\ q \in Nat /\ p = q * D + o
  BY <1>3, <1>4, <1>13, DataAssumption DEF Offset
<1>7. /\ o \in Offset /\ q \in Nat /\ p = q * D + o
      /\ Size2Blocks(c + p) - q = Size2Blocks(c + o)
      /\ Size2Blocks(c + o) \in Nat \ {0}
  BY <1>13, <1>14, SkippedBlocks
<1>8. Copies = Size2Blocks(c + o)
  BY <1>5, <1>6 DEF Copies
<1>9. Size2Blocks(c + p) = q + Copies /\ c + p \in Nat \ {0} /\ c + p <= head + size
  <2>1. PICK m : m = Size2Blocks(c + p)
    OBVIOUS
  <2>2. c + p \in Nat \ {0} /\ c + p <= head + size
    BY <1>1, <1>2, <1>5, <1>6
  <2>3. m \in Nat
    BY <2>1, <2>2, BlocksBound
  <2> QED
    BY <1>7, <1>8, <2>1, <2>2, <2>3
<1>10. q + Copies <= Len(list)
  <2>1. PICK n : n = Len(list)
    OBVIOUS
  <2>2. PICK m : m = q + Copies
    OBVIOUS
  <2>3. n \in Nat \ {0} /\ head + size <= Base(n) + D
    BY <1>1, <2>1, BlocksBound
  <2>4. m \in Nat \ {0} /\ Base(m) < c + p
    BY <1>9, <2>2, BlocksBound
  <2>5. Base(n) \in Nat /\ Base(m) \in Nat
    BY <2>3, <2>4, BaseSteps
  <2>6. n < m => Base(n) + D <= Base(m)
    BY <2>3, <2>4, BaseGrows
  <2>7. ~(n < m)
    BY <1>1, <1>5, <1>9, <2>3, <2>4, <2>5, <2>6
  <2> QED
    BY <2>1, <2>2, <2>3, <2>4, <2>7
<1>11. copy \in Nat \ {0}
  BY <1>7, <1>8 DEF Transfers
<1>12. Base(q + copy) = q * D + Base(copy)
  BY <1>7, <1>11, BaseSkips
<1> QED
  BY <1>2, <1>5, <1>6, <1>7, <1>8, <1>10, <1>12

\* A memcpy of bliss_extract_woffset brings the next bytes of what was stored.
LEMMA ExtractKeeps ==
  ASSUME DataInv, Extract
  PROVE  DataInv'
<1>1. /\ dataPc = "extract" /\ ListOK /\ RangeOK /\ Transfers(wanted, FirstByte, Copies)
      /\ (~ExactFits => StoredUpTo(Len(list)) /\ ExtractedUpTo(InBuffer(copy, FirstByte)))
  BY DEF Extract, DataInv
<1> DEFINE from == InBlock(copy, FirstByte)
           to   == InBuffer(copy, FirstByte)
           len  == Length(copy, Copies, wanted, FirstByte)
           blk  == SkipBlocks + copy
<1>2. /\ SkipBlocks \in Nat /\ off + head = SkipBlocks * D + FirstByte
      /\ Size2Blocks(wanted + off + head) - SkipBlocks = Copies
      /\ Copies \in Nat \ {0} /\ SkipBlocks + Copies <= Len(list)
      /\ Base(SkipBlocks + copy) = SkipBlocks * D + Base(copy)
  BY <1>1, ExtractAims
<1>3. /\ off \in Nat /\ wanted \in Nat \ {0} /\ off + wanted <= size /\ size \in Nat
      /\ FirstByte \in Offset /\ copy \in 1..Copies /\ FirstByte \in Nat /\ head \in Nat
      /\ wanted + FirstByte > 0 /\ Copies = Size2Blocks(wanted + FirstByte) /\ D \in Nat \ {0}
  BY <1>1, DataAssumption DEF ListOK, RangeOK, Transfers, Offset
<1>4. CopyIsPlaced(copy, Copies, wanted, FirstByte)
  BY <1>3, CopyPlaced
<1>5. /\ from \in Nat /\ to \in Nat /\ len \in Nat
      /\ to + FirstByte = Base(copy) + from /\ from + len <= D /\ to + len <= wanted
      /\ (copy < Copies => to + len = InBuffer(copy + 1, FirstByte))
      /\ (copy = Copies /\ Fits(wanted, FirstByte) => to + len = wanted)
  BY <1>4 DEF CopyIsPlaced, Offset
<1>6. /\ dst' = [k \in DOMAIN dst |->
                   IF to <= k /\ k < to + len THEN data[list[blk]][from + (k - to)] ELSE dst[k]]
      /\ dataPc' = IF copy = Copies THEN "extracted" ELSE "extract"
      /\ copy' = copy + 1
      /\ UNCHANGED <<list, head, size, data, off, wanted>>
  BY <1>2 DEF Extract, FirstByte
<1>7. FirstByte' = FirstByte /\ Copies' = Copies
  BY <1>6 DEF FirstByte, Copies
<1>8. ListOK'
  BY <1>1, <1>6 DEF ListOK, Injective, Fits
<1>9. (~ExactFits => StoredUpTo(Len(list)))'
  BY <1>1, <1>6 DEF StoredUpTo, Holds
<1>10. RangeOK'
  BY <1>1, <1>6, <1>7 DEF RangeOK, Fits
<1>16. copy \in Nat \ {0}
  BY <1>2, <1>3
<1>11. Base(copy) \in Nat /\ SkipBlocks * D \in Nat
  BY <1>2, <1>16, BaseSteps, BaseSkips
<1> HIDE DEF from, to, len, blk
<1>12. ASSUME ~ExactFits, NEW k \in DOMAIN dst
       PROVE  dst'[k] = IF k < to + len THEN off + k + 1 ELSE 0
  <2>1. k \in Nat
    <3>1. k \in 0..MaxSize-1
      BY <1>1 DEF RangeOK
    <3> QED
      BY <3>1, <1>3, DataAssumption DEF MaxSize
  <2>2. dst[k] = IF k < to THEN off + k + 1 ELSE 0
    BY <1>1, <1>12 DEF ExtractedUpTo, to
  <2>3. CASE to <= k /\ k < to + len
    <3>1. PICK x : x = from + (k - to)
      OBVIOUS
    <3>2. x \in Offset
      BY <1>3, <1>5, <2>1, <2>3, <3>1 DEF Offset
    <3>3. blk \in 1..Len(list) /\ Base(blk) = SkipBlocks * D + Base(copy)
      BY <1>2, <1>3 DEF blk
    <3>4. Base(blk) + x - head = off + k
      <4>1. PICK sd : sd = SkipBlocks * D
        OBVIOUS
      <4>2. sd \in Nat /\ Base(blk) = sd + Base(copy) /\ off + head = sd + FirstByte
        BY <1>2, <1>11, <3>3, <4>1
      <4>3. x = from + (k - to) /\ k - to \in Nat /\ Base(copy) = to + FirstByte - from
        BY <1>3, <1>5, <1>11, <2>1, <2>3, <3>1
      <4> QED
        BY <1>3, <1>5, <1>11, <2>1, <4>2, <4>3
    <3>5. off + k >= 0 /\ off + k < size
      BY <1>3, <1>5, <2>1, <2>3
    <3>6. Holds(blk, x)
      BY <1>1, <1>12, <3>2, <3>3 DEF StoredUpTo
    <3>7. data[list[blk]][x] = off + k + 1
      BY <3>4, <3>5, <3>6 DEF Holds
    <3> QED
      BY <1>6, <2>3, <3>1, <3>7
  <2>4. CASE ~(to <= k /\ k < to + len)
    <3>1. dst'[k] = dst[k]
      BY <1>6, <2>4
    <3> QED
      BY <1>5, <2>1, <2>2, <2>4, <3>1
  <2> QED
    BY <2>3, <2>4
<1>13. DOMAIN dst' = DOMAIN dst
  BY <1>6
<1>14. CASE copy = Copies
  <2>1. ~ExactFits => Fits(wanted, FirstByte)
    BY <1>1 DEF RangeOK
  <2>2. (~ExactFits => ExtractedUpTo(wanted))'
    BY <1>5, <1>6, <1>12, <1>13, <1>14, <2>1 DEF ExtractedUpTo
  <2>3. dataPc' = "extracted"
    BY <1>6, <1>14
  <2> QED
    BY <1>8, <1>9, <1>10, <2>2, <2>3 DEF DataInv
<1>15. CASE copy # Copies
  <2>1. copy < Copies /\ copy + 1 \in 1..Copies
    BY <1>3, <1>2, <1>15
  <2>2. Transfers(wanted, FirstByte, Copies)'
    BY <1>1, <1>6, <1>7, <2>1 DEF Transfers
  <2>3. InBuffer(copy, FirstByte)' = to + len
    <3>1. InBuffer(copy, FirstByte)' = InBuffer(copy', FirstByte')
      BY DEF InBuffer
    <3> QED
      BY <1>5, <1>6, <1>7, <2>1, <3>1
  <2>4. (~ExactFits => ExtractedUpTo(InBuffer(copy, FirstByte)))'
    BY <1>6, <1>12, <1>13, <2>3 DEF ExtractedUpTo
  <2>5. dataPc' = "extract"
    BY <1>6, <1>15
  <2> QED
    BY <1>8, <1>9, <1>10, <2>2, <2>4, <2>5 DEF DataInv
<1> QED
  BY <1>14, <1>15

\* The invariant holds of every sequence of stores and extractions.
THEOREM DataInvariance == DataSpec => []DataInv
<1>1. DataInit => DataInv
  <2> SUFFICES ASSUME DataInit PROVE DataInv
    OBVIOUS
  <2>1. dataPc = "alloc" /\ data \in [Block -> [Offset -> Nat]]
    BY DEF DataInit
  <2> QED
    BY <2>1 DEF DataInv
<1>2. DataInv /\ [DataNext]_dataVars => DataInv'
  <2> SUFFICES ASSUME DataInv, [DataNext]_dataVars
               PROVE  DataInv'
    OBVIOUS
  <2>1. ASSUME NEW h \in Offset, NEW sz \in 0..MaxSize,
               NEW l \in UNION {[1..k -> Block] : k \in 1..MaxBlocks}, Alloc(h, sz, l)
        PROVE  DataInv'
    <3>1. PICK k \in 1..MaxBlocks : l \in [1..k -> Block]
      OBVIOUS
    <3> QED
      BY <2>1, <3>1, AllocKeeps
  <2>2. CASE Store
    BY <2>2, StoreKeeps
  <2>3. ASSUME NEW o \in 0..MaxSize, NEW c \in 1..MaxSize, BeginExtract(o, c)
        PROVE  DataInv'
    BY <2>3, BeginExtractKeeps
  <2>4. CASE Extract
    BY <2>4, ExtractKeeps
  <2>5. CASE NothingToExtract \/ UNCHANGED dataVars
    <3>1. UNCHANGED dataVars
      BY <2>5 DEF NothingToExtract
    <3>2. UNCHANGED <<list, head, size, data, dst, off, wanted, copy, dataPc>>
      BY <3>1 DEF dataVars
    <3>3. ListOK' <=> ListOK
      BY <3>2 DEF ListOK
    <3>4. RangeOK' <=> RangeOK
      BY <3>2 DEF RangeOK, FirstByte
    <3>5. \A n : StoredUpTo(n)' <=> StoredUpTo(n)
      BY <3>2 DEF StoredUpTo, Holds
    <3>6. \A n : ExtractedUpTo(n)' <=> ExtractedUpTo(n)
      BY <3>2 DEF ExtractedUpTo
    <3>7. FirstByte' = FirstByte /\ Copies' = Copies
      BY <3>2 DEF FirstByte, Copies
    <3>8. \A c, o, n : Transfers(c, o, n)' <=> Transfers(c, o, n)
      BY <3>2 DEF Transfers
    <3> QED
      BY <3>2, <3>3, <3>4, <3>5, <3>6, <3>7, <3>8 DEF DataInv
  <2> QED
    BY <2>1, <2>2, <2>3, <2>4, <2>5 DEF DataNext
<1> QED
  BY <1>1, <1>2, PTL DEF DataSpec

\* Every memcpy of bliss_store and bliss_extract_woffset (bliss_allocator.c:224, 273)
\* stays inside a block of the list and inside the client's buffer, also where a
\* transfer fits its blocks exactly.
THEOREM CopiesStayInside == DataSpec => []NoOverrun
<1>1. DataInv => NoOverrun
  <2> SUFFICES ASSUME DataInv PROVE NoOverrun
    OBVIOUS
  <2>1. CASE dataPc = "store"
    <3>1. ListOK /\ Transfers(size, head, Len(list))
      BY <2>1 DEF DataInv
    <3>2. /\ size \in Nat /\ head \in Offset /\ size + head > 0 /\ copy \in 1..Len(list)
          /\ Len(list) = Size2Blocks(size + head)
      BY <3>1 DEF Transfers
    <3>3. CopyIsPlaced(copy, Len(list), size, head)
      BY <3>2, CopyPlaced
    <3>4. 0 + copy <= Len(list)
      BY <3>2
    <3> QED
      BY <2>1, <3>2, <3>3, <3>4 DEF NoOverrun, CopyIsPlaced
  <2>2. CASE dataPc = "extract"
    <3>1. ListOK /\ RangeOK /\ Transfers(wanted, FirstByte, Copies)
      BY <2>2 DEF DataInv
    <3>2. /\ SkipBlocks \in Nat /\ Copies \in Nat \ {0} /\ SkipBlocks + Copies <= Len(list)
          /\ Copies = Size2Blocks(wanted + FirstByte) /\ copy \in 1..Copies
          /\ wanted \in Nat /\ FirstByte \in Offset /\ wanted + FirstByte > 0
      BY <3>1, ExtractAims DEF Transfers
    <3>3. CopyIsPlaced(copy, Copies, wanted, FirstByte)
      BY <3>2, CopyPlaced
    <3>4. SkipBlocks + copy <= Len(list)
      <4>1. Len(list) \in Nat
        BY <3>1 DEF ListOK
      <4> QED
        BY <3>2, <4>1
    <3> QED
      BY <2>2, <3>2, <3>3, <3>4 DEF NoOverrun, CopyIsPlaced, FirstByte
  <2> QED
    BY <2>1, <2>2 DEF NoOverrun
<1> QED
  BY <1>1, DataInvariance, PTL

\* Whatever range is extracted is what was stored there, for every block size,
\* header, length and offset, as long as no transfer of several blocks ends where
\* a block ends; that it may not is a finding (run bliss_exact).
THEOREM TransfersRoundTrip ==
  ASSUME ExactFits = FALSE
  PROVE  DataSpec => []RoundTrip
<1>1. DataInv => RoundTrip
  BY DEF DataInv, RoundTrip, ExtractedUpTo
<1> QED
  BY <1>1, DataInvariance, PTL
=============================================================================
