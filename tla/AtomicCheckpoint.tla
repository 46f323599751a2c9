-------------------------- MODULE AtomicCheckpoint --------------------------
(***************************************************************************)
(* What a checkpoint library promises its application: a checkpoint takes  *)
(* the whole volatile image at one instant, a power failure loses the      *)
(* image, and the next boot continues from exactly the last image taken.   *)
(* CheckpointCore is shown to implement it for the part of its image that  *)
(* interrupts do not write, MPatch for the memory it tracks.               *)
(***************************************************************************)

CONSTANT Image   \* the volatile images an application can have

VARIABLES mem,   \* {i} while the application runs with image i, {} without power
          saved  \* {i} when a restore continues from image i, {} when none can

avars == <<mem, saved>>

AInit == mem = {} /\ saved = {}

\* A first boot builds an image; there is nothing to continue from.
Start == mem = {} /\ saved = {} /\ (\E i \in Image : mem' = {i}) /\ saved' = {}

Compute == mem # {} /\ (\E i \in Image : mem' = {i}) /\ saved' = saved

Take == mem # {} /\ saved' = mem /\ mem' = mem

Fail == mem' = {} /\ saved' = saved

Continue == mem = {} /\ saved # {} /\ mem' = saved /\ saved' = saved

\* Only a boot, before anything runs, may throw the checkpoint away.
Discard == mem = {} /\ saved' = {} /\ mem' = mem

ANext == Start \/ Compute \/ Take \/ Fail \/ Continue \/ Discard

ASpec == AInit /\ [][ANext]_avars
=============================================================================
