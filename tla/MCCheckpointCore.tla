------------------------- MODULE MCCheckpointCore -------------------------
EXTENDS CheckpointCore

\* Two contents are enough to tell a restored component from a lost one.
MCValue == {0, 1}

\* The second of three components is the one that interrupts write.
MCShared == {2}
=============================================================================
