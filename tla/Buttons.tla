------------------------------ MODULE Buttons ------------------------------
(***************************************************************************)
(* The buttons: am_gpio_isr stores a key code where the emulator reads it  *)
(* and starts a timer, am_ctimer_isr takes the code away again.  The two   *)
(* interrupts have the same priority and do not interrupt each other.  The *)
(* codes are in the checkpointed memory; the timers and the latched        *)
(* interrupts are lost when power fails.                                   *)
(***************************************************************************)
EXTENDS Naturals

CONSTANT Keys  \* the buttons the player presses

Btn    == {"A", "B", "Start", "Select"}     \* code_btn, timer A
Cursor == {"Up", "Down", "Left", "Right"}   \* code_cursor, timer B
Group  == {"btn", "cursor"}

ASSUME KeysAssumption == Keys \subseteq Btn \cup Cursor

VARIABLES
  latched,    \* interrupt status of the pins
  code,       \* GB.key.code_btn and GB.key.code_cursor
  timer,      \* "clear", "running" or "expired": both are one-shot
  fired,      \* timers whose interrupt is pending
  savedCode,  \* the codes of the last checkpoint
  powered,
  orphans     \* history: groups whose code was restored and not set since

buttonVars == <<latched, code, timer, fired, savedCode, powered, orphans>>

\* Which of code_btn and code_cursor a key is stored in.
GroupOf(k) == IF k \in Btn THEN "btn" ELSE "cursor"
\* The order of the tests in am_gpio_isr.
Rank == [A |-> 1, B |-> 2, Up |-> 3, Down |-> 4, Left |-> 5, Right |-> 6,
         Start |-> 7, Select |-> 8]

Released == [g \in Group |-> "none"]
Stopped  == [g \in Group |-> "clear"]

ButtonsInit ==
  /\ latched = {} /\ code = Released /\ timer = Stopped /\ fired = {}
  /\ savedCode = Released /\ powered = TRUE /\ orphans = {}

\* What the two codes may be.
Codes == {c \in [Group -> Keys \cup {"none"}] : c["btn"] \notin Cursor /\ c["cursor"] \notin Btn}

ButtonsTypeOK ==
  /\ latched \subseteq Keys
  /\ code \in Codes /\ savedCode \in Codes
  /\ timer \in [Group -> {"clear", "running", "expired"}]
  /\ fired \subseteq Group /\ orphans \subseteq Group /\ powered \in BOOLEAN

-----------------------------------------------------------------------------

Press(k) ==
  /\ powered
  /\ latched' = latched \cup {k}
  /\ UNCHANGED <<code, timer, fired, savedCode, powered, orphans>>

Expire(g) ==
  /\ powered /\ timer[g] = "running"
  /\ timer' = [timer EXCEPT ![g] = "expired"]
  /\ fired' = fired \cup {g}
  /\ UNCHANGED <<latched, code, savedCode, powered, orphans>>

\* The test of processPress, which compares every key with code_btn.  The codes
\* are the emulator's: one of a cursor key may be one of a button.
SameCode(k) ==
  IF k \in Btn THEN {code["btn"] = k}
  ELSE IF code["btn"] = "none" THEN {FALSE} ELSE BOOLEAN

\* Mutant: a timer that was stopped is not started.
RestartedLate(t, same) == IF same THEN "running" ELSE t

\* processPress: clear and start, or start only, which does nothing to a timer
\* that is running or has expired.
Restarted(t, same) == IF same \/ t = "clear" THEN "running" ELSE t

\* am_gpio_isr clears every latched interrupt and processes the first.
GpioIsr ==
  /\ powered /\ latched # {}
  /\ LET k == CHOOSE x \in latched : \A y \in latched : Rank[x] <= Rank[y]
         g == GroupOf(k)
     IN /\ \E same \in SameCode(k) : timer' = [timer EXCEPT ![g] = Restarted(@, same)]
        /\ code' = [code EXCEPT ![g] = k]
        /\ orphans' = orphans \ {g}
  /\ latched' = {}
  /\ UNCHANGED <<fired, savedCode, powered>>

\* am_ctimer_isr
TimerIsr ==
  /\ powered /\ fired # {}
  /\ code' = [g \in Group |-> IF g \in fired THEN "none" ELSE code[g]]
  /\ timer' = [g \in Group |-> IF g \in fired THEN "clear" ELSE timer[g]]
  /\ orphans' = orphans \ fired
  /\ fired' = {}
  /\ UNCHANGED <<latched, savedCode, powered>>

-----------------------------------------------------------------------------
(* Checkpoint, power failure and boot.                                     *)

ButtonsSave ==
  /\ powered
  /\ savedCode' = code
  /\ UNCHANGED <<latched, code, timer, fired, powered, orphans>>

ButtonsOff ==
  /\ powered
  /\ powered' = FALSE
  /\ latched' = {} /\ timer' = Stopped /\ fired' = {}
  /\ UNCHANGED <<code, savedCode, orphans>>

\* The memory is restored, and then buttonsConfig configures the pins and
\* debounceTimerInit the timers, which do not run.
ButtonsBoot ==
  /\ ~powered
  /\ powered' = TRUE
  /\ code' = savedCode
  /\ orphans' = {g \in Group : savedCode[g] # "none"}
  /\ UNCHANGED <<latched, timer, fired, savedCode>>

Pressed      == \E k \in Keys : Press(k)
ButtonsServe == (\E g \in Group : Expire(g)) \/ GpioIsr \/ TimerIsr
ButtonsNext  == Pressed \/ ButtonsServe \/ ButtonsSave \/ ButtonsOff \/ ButtonsBoot

ButtonsSpec == ButtonsInit /\ [][ButtonsNext]_buttonVars

-----------------------------------------------------------------------------
(* Properties.                                                             *)

\* A key that is held has a timer that runs or an interrupt that is pending to
\* release it, whatever other keys of the group were pressed and in whatever
\* order the two interrupts came (buttons.h:18, buttons.c:26, 133).  The
\* exception is a key that a restore brought back: its timer is gone, and it
\* stays pressed until another press (buttons.c:34).
KeyReleased ==
  powered =>
    \A g \in Group : code[g] # "none" /\ g \notin orphans => timer[g] = "running" \/ g \in fired
=============================================================================
