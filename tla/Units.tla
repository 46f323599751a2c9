------------------------------- MODULE Units -------------------------------
(***************************************************************************)
(* The components that share no state with each other, one beside the      *)
(* other: a behaviour is a behaviour of one of them while the others stay  *)
(* as they are in their initial state.                                     *)
(***************************************************************************)
EXTENDS Buttons, MemTracker, BlissData, MPatchSlots, Display, Mspi,
        CartridgeBus

VARIABLE active

unitVars == <<buttonVars, trackVars, dataVars, slotVars, displayVars, mspiVars, busVars, active>>

Unit == {"buttons", "memtracker", "data", "slots", "display", "mspi", "bus"}

\* Only the active unit has a choice of initial states.
UnitsInit ==
  /\ active \in Unit
  /\ ButtonsInit /\ DataInit /\ SlotsInit /\ MspiInit
  /\ TrackInit /\ (active = "memtracker" \/ mem = [s \in Sub |-> Blank])
  /\ DisplayInit /\ (active = "display" \/ displayBuffer = [l \in Line |-> CHOOSE p \in Picture : TRUE])
  /\ BusInit /\ (active = "bus" \/ (kind = "mbc1" /\ banks = 2 /\ lowReg = 0))

\* The other units stay as they are.
Others(u) ==
  /\ UNCHANGED active
  /\ u = "buttons"    \/ UNCHANGED buttonVars
  /\ u = "memtracker" \/ UNCHANGED trackVars
  /\ u = "data"       \/ UNCHANGED dataVars
  /\ u = "slots"      \/ UNCHANGED slotVars
  /\ u = "display"    \/ UNCHANGED displayVars
  /\ u = "mspi"       \/ UNCHANGED mspiVars
  /\ u = "bus"        \/ UNCHANGED busVars

UnitsNext ==
  \/ active = "buttons" /\ ButtonsNext /\ Others("buttons")
  \/ active = "memtracker" /\ TrackNext /\ Others("memtracker")
  \/ active = "data" /\ DataNext /\ Others("data")
  \/ active = "slots" /\ SlotsNext /\ Others("slots")
  \/ active = "display" /\ DisplayNext /\ Others("display")
  \/ active = "mspi" /\ MspiNext /\ Others("mspi")
  \/ active = "bus" /\ BusNext /\ Others("bus")

UnitsSpec ==
  /\ UnitsInit /\ [][UnitsNext]_unitVars
  /\ DisplayFairness

-----------------------------------------------------------------------------
\* The type invariants of the units.
UnitsTypeOK ==
  /\ ButtonsTypeOK /\ TrackTypeOK /\ SlotsTypeOK /\ DisplayTypeOK /\ MspiTypeOK /\ BusTypeOK
=============================================================================
