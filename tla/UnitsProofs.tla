----------------------------- MODULE UnitsProofs ----------------------------
(***************************************************************************)
(* Theorems about the drivers: Buttons for any set of keys, Mspi and       *)
(* Display for queues of any length, CartridgeBus for any number of banks; *)
(* and the units side by side.                                             *)
(***************************************************************************)
EXTENDS Units, StagingProofs, SequenceTheorems, TLAPS

-----------------------------------------------------------------------------
(* Buttons: every key that is held will be released.                       *)

\* A timer that has expired has its interrupt pending: without it a key whose
\* timer is started too late would not be released (am_hal_ctimer_start does
\* nothing to such a timer).
ExpiredIsPending == \A g \in Group : timer[g] = "expired" => g \in fired

ButtonsInv == ButtonsTypeOK /\ KeyReleased /\ ExpiredIsPending

\* The group a key's code is stored in can hold it (buttons.c:32-75).
LEMMA GroupHolds ==
  ASSUME NEW k \in Keys
  PROVE  /\ GroupOf(k) \in Group
         /\ GroupOf(k) = "btn" => k \notin Cursor
         /\ GroupOf(k) = "cursor" => k \notin Btn
  BY KeysAssumption DEF GroupOf, Group, Btn, Cursor

\* The latched interrupt that am_gpio_isr looks for first is one of them.
LEMMA FirstLatched ==
  ASSUME NEW L, L \subseteq Keys, L # {}
  PROVE  (CHOOSE x \in L : \A y \in L : Rank[x] <= Rank[y]) \in L
<1>1. /\ Rank["A"] = 1 /\ Rank["B"] = 2 /\ Rank["Up"] = 3 /\ Rank["Down"] = 4
      /\ Rank["Left"] = 5 /\ Rank["Right"] = 6 /\ Rank["Start"] = 7 /\ Rank["Select"] = 8
  BY DEF Rank
<1>2. \A y \in L : y \in {"A", "B", "Up", "Down", "Left", "Right", "Start", "Select"}
  BY KeysAssumption DEF Btn, Cursor
<1>3. \A y \in L : Rank[y] \in 1..8
  BY <1>1, <1>2
<1>5. CASE "A" \in L
  BY <1>1, <1>3, <1>5
<1>6. CASE "B" \in L /\ {"A"} \cap L = {}
  BY <1>1, <1>2, <1>6
<1>7. CASE "Up" \in L /\ {"A", "B"} \cap L = {}
  BY <1>1, <1>2, <1>7
<1>8. CASE "Down" \in L /\ {"A", "B", "Up"} \cap L = {}
  BY <1>1, <1>2, <1>8
<1>9. CASE "Left" \in L /\ {"A", "B", "Up", "Down"} \cap L = {}
  BY <1>1, <1>2, <1>9
<1>10. CASE "Right" \in L /\ {"A", "B", "Up", "Down", "Left"} \cap L = {}
  BY <1>1, <1>2, <1>10
<1>11. CASE "Start" \in L /\ {"A", "B", "Up", "Down", "Left", "Right"} \cap L = {}
  BY <1>1, <1>2, <1>11
<1>12. CASE "Select" \in L /\ {"A", "B", "Up", "Down", "Left", "Right", "Start"} \cap L = {}
  BY <1>1, <1>2, <1>12
<1> QED
  BY <1>2, <1>5, <1>6, <1>7, <1>8, <1>9, <1>10, <1>11, <1>12

\* A timer that is restarted runs, unless it has expired (buttons.h:18-26).
LEMMA RestartedRuns ==
  ASSUME NEW t \in {"clear", "running", "expired"}, NEW same
  PROVE  /\ Restarted(t, same) \in {"clear", "running", "expired"}
         /\ Restarted(t, same) \in {"running", "expired"}
         /\ Restarted(t, same) = "expired" => t = "expired"
  BY DEF Restarted

\* The invariant holds at the start: no key is held.
LEMMA InitInv == ButtonsInit => ButtonsInv
  BY DEF ButtonsInit, ButtonsInv, ButtonsTypeOK, KeyReleased, ExpiredIsPending,
         Released, Stopped, Codes, Group, Btn, Cursor

\* No step of the player, the timers, the interrupts, a checkpoint or a power
\* failure leaves it.
LEMMA StepInv == ButtonsInv /\ [ButtonsNext]_buttonVars => ButtonsInv'
<1> SUFFICES ASSUME ButtonsInv, [ButtonsNext]_buttonVars PROVE ButtonsInv'
  OBVIOUS
<1> USE DEF ButtonsInv, ButtonsTypeOK, KeyReleased, ExpiredIsPending, Codes, Group
<1>1. ASSUME NEW k \in Keys, Press(k) PROVE ButtonsInv'
  BY <1>1 DEF Press
<1>2. ASSUME NEW g \in Group, Expire(g) PROVE ButtonsInv'
  BY <1>2 DEF Expire
<1>3. CASE GpioIsr
  <2> DEFINE k == CHOOSE x \in latched : \A y \in latched : Rank[x] <= Rank[y]
             g == GroupOf(k)
  <2>1. PICK same \in SameCode(k) : timer' = [timer EXCEPT ![g] = Restarted(@, same)]
    BY <1>3 DEF GpioIsr
  <2>2. code' = [code EXCEPT ![g] = k] /\ orphans' = orphans \ {g} /\ latched' = {}
    BY <1>3 DEF GpioIsr
  <2>3. UNCHANGED <<fired, savedCode, powered>> /\ powered
    BY <1>3 DEF GpioIsr
  <2>4. k \in latched /\ k \in Keys
    BY <1>3, FirstLatched DEF GpioIsr
  <2> HIDE DEF k
  <2> QED
    BY <2>1, <2>2, <2>3, <2>4, GroupHolds, RestartedRuns
<1>4. CASE TimerIsr
  <2>1. code' \in Codes
    BY <1>4 DEF TimerIsr, Btn, Cursor
  <2>2. timer' \in [Group -> {"clear", "running", "expired"}]
    BY <1>4 DEF TimerIsr
  <2> QED
    BY <1>4, <2>1, <2>2 DEF TimerIsr
<1>5. CASE ButtonsSave
  BY <1>5 DEF ButtonsSave
<1>6. CASE ButtonsOff
  BY <1>6 DEF ButtonsOff, Stopped
<1>7. CASE ButtonsBoot
  BY <1>7 DEF ButtonsBoot
<1>8. CASE UNCHANGED buttonVars
  BY <1>8 DEF buttonVars
<1> QED
  BY <1>1, <1>2, <1>3, <1>4, <1>5, <1>6, <1>7, <1>8 DEF ButtonsNext, Pressed, ButtonsServe

\* Type correctness of the buttons' state.
THEOREM ButtonsTypeCorrect == ButtonsSpec => []ButtonsTypeOK
  BY InitInv, StepInv, PTL DEF ButtonsSpec, ButtonsInv

\* A key that is held has a timer that runs or an interrupt that is pending to
\* release it, unless a restore brought it back (buttons.h:18, buttons.c:26, 133).
THEOREM KeyIsReleased == ButtonsSpec => []KeyReleased
  BY InitInv, StepInv, PTL DEF ButtonsSpec, ButtonsInv

-----------------------------------------------------------------------------
(* Mspi: the FRAM is mapped into memory only when it was identified, and a *)
(* call that waits neither misses the end of its transfer nor takes one for*)
(* granted.                                                                *)

Transfer == [cb: Callback, own: BOOLEAN]

\* A member of the queue.
Queued(q, t) == \E i \in DOMAIN q : q[i] = t

\* The states in which the caller's own transfer may be in the queue, or ended.
Waiting == mspiPc \in {"wait", "success", "error"}

-----------------------------------------------------------------------------
(* The initialisation and its reverse.                                     *)

\* What the steps of the initialisation before the next one have achieved.
Prepared ==
  /\ "xip" \notin hw
  /\ mspiStep >= 2 => "initialized" \in hw
  /\ mspiStep >= 3 => "awake" \in hw
  /\ mspiStep >= 5 => "configured" \in hw
  /\ mspiStep >= 6 => "enabled" \in hw
  /\ mspiStep >= 8 => identified

HwInv ==
  /\ mspiPc = "init" => mspiStep \in 1..10 /\ Prepared
  /\ mspiPc = "deinit" => mspiStep \in 1..7 /\ (mspiStep > 1 => "xip" \notin hw)
  /\ mspiPc = "down" => "xip" \notin hw
  /\ mspiPc = "start" => mspiStep \in 1..2
  /\ XipMeansIdentified

\* The lists of steps.
LEMMA Steps ==
  /\ Len(InitSteps) = 10 /\ Len(DeinitSteps) = 7 /\ Len(BlockingSteps) = 2
  /\ BlockingSteps[1] = "reset" /\ BlockingSteps[2] = "submit"
  /\ InitSteps[1] = "initialize" /\ InitSteps[2] = "wake" /\ InitSteps[3] = "disable"
  /\ InitSteps[4] = "configure" /\ InitSteps[5] = "enable" /\ InitSteps[6] = "identify"
  /\ InitSteps[7] = "latch" /\ InitSteps[8] = "irqClear" /\ InitSteps[9] = "irqEnable"
  /\ InitSteps[10] = "xipEnable" /\ DeinitSteps[1] = "xipDisable"
  BY DEF InitSteps, DeinitSteps, BlockingSteps

\* A step of the initialisation adds its fact, and only the third one takes one
\* away, before it matters (main_emulator.c:117-147).
LEMMA InitKeepsHw ==
  ASSUME HwInv, InitCall \/ InitCallFails \/ Identify \/ SetLatch
  PROVE  HwInv'
<1>1. mspiPc = "init" /\ mspiStep \in 1..10 /\ Prepared /\ XipMeansIdentified
  BY DEF HwInv, InitCall, InitCallFails, Identify, SetLatch
<1>2. CASE InitCall
  <2> DEFINE s == InitSteps[mspiStep]
  <2>1. /\ s \notin {"identify", "latch"} /\ hw' = (hw \cup Gain(s)) \ Loss(s)
        /\ identified' = identified /\ Go(InitSteps, "ready")
    BY <1>2 DEF InitCall
  <2>2. CASE mspiStep < 10
    <3>1. mspiStep' = mspiStep + 1 /\ mspiPc' = "init" /\ mspiStep' \in 1..10
      BY <1>1, <2>1, <2>2, Steps DEF Go
    <3>2. Prepared'
      <4>1. CASE mspiStep = 1
        BY <1>1, <2>1, <3>1, <4>1, Steps DEF Prepared, Gain, Loss
      <4>2. CASE mspiStep = 2
        BY <1>1, <2>1, <3>1, <4>2, Steps DEF Prepared, Gain, Loss
      <4>3. CASE mspiStep = 3
        BY <1>1, <2>1, <3>1, <4>3, Steps DEF Prepared, Gain, Loss
      <4>4. CASE mspiStep = 4
        BY <1>1, <2>1, <3>1, <4>4, Steps DEF Prepared, Gain, Loss
      <4>5. CASE mspiStep = 5
        BY <1>1, <2>1, <3>1, <4>5, Steps DEF Prepared, Gain, Loss
      <4>6. CASE mspiStep \in {6, 7}
        BY <2>1, <4>6, Steps
      <4>7. CASE mspiStep = 8
        BY <1>1, <2>1, <3>1, <4>7, Steps DEF Prepared, Gain, Loss
      <4>8. CASE mspiStep = 9
        BY <1>1, <2>1, <3>1, <4>8, Steps DEF Prepared, Gain, Loss
      <4> QED
        BY <1>1, <2>2, <4>1, <4>2, <4>3, <4>4, <4>5, <4>6, <4>7, <4>8
    <3> QED
      BY <3>1, <3>2 DEF HwInv, Prepared, XipMeansIdentified
  <2>3. CASE mspiStep = 10
    <3>1. mspiPc' = "ready" /\ hw' = (hw \cup {"xip"}) \ {}
      BY <1>1, <2>1, <2>3, Steps DEF Go, Gain, Loss
    <3> QED
      BY <1>1, <2>1, <2>3, <3>1 DEF HwInv, Prepared, XipMeansIdentified
  <2> QED
    BY <1>1, <2>2, <2>3
<1>3. CASE InitCallFails
  BY <1>1, <1>3 DEF InitCallFails, Abort, hwVars, HwInv, XipMeansIdentified
<1>4. CASE Identify
  <2>1. mspiStep = 6
    BY <1>1, <1>4, Steps DEF Identify
  <2>2. mspiStep' = 7 /\ mspiPc' = "init" /\ hw' = hw
    BY <1>1, <1>4, <2>1, Steps DEF Identify, Go
  <2> QED
    BY <1>1, <2>1, <2>2 DEF HwInv, Prepared, XipMeansIdentified
<1>5. CASE SetLatch
  <2>1. mspiStep = 7
    BY <1>1, <1>5, Steps DEF SetLatch
  <2>2. hw' = hw /\ identified' = identified
    BY <1>5 DEF SetLatch
  <2>3. CASE identified
    <3>1. mspiStep' = 8 /\ mspiPc' = "init"
      BY <1>1, <1>5, <2>1, <2>3, Steps DEF SetLatch, Go
    <3> QED
      BY <1>1, <2>1, <2>2, <2>3, <3>1 DEF HwInv, Prepared, XipMeansIdentified
  <2>4. CASE ~identified
    <3>1. mspiPc' = "failed"
      BY <1>5, <2>4 DEF SetLatch
    <3> QED
      BY <1>1, <2>2, <3>1 DEF HwInv, XipMeansIdentified
  <2> QED
    BY <2>3, <2>4
<1> QED
  BY <1>2, <1>3, <1>4, <1>5

\* The reverse takes the memory mapping away first, so what it takes away after
\* that is not missed (main_emulator.c:152-172).
LEMMA DeinitKeepsHw ==
  ASSUME HwInv, BeginDeinit \/ DeinitCall \/ DeinitCallFails \/ BeginInit \/ Scramble
  PROVE  HwInv'
<1>1. CASE BeginDeinit
  BY <1>1 DEF BeginDeinit, hwVars, HwInv, XipMeansIdentified
<1>2. CASE DeinitCall
  <2>1. /\ mspiPc = "deinit" /\ mspiStep \in 1..7 /\ (mspiStep > 1 => "xip" \notin hw)
        /\ hw' = hw \ Loss(DeinitSteps[mspiStep]) /\ Go(DeinitSteps, "down")
    BY <1>2 DEF DeinitCall, HwInv
  <2>2. "xip" \notin hw'
    BY <2>1, Steps DEF Loss
  <2>3. \/ mspiStep' \in 1..7 /\ mspiPc' = "deinit"
        \/ mspiPc' = "down"
    BY <2>1, Steps DEF Go
  <2> QED
    BY <2>2, <2>3 DEF HwInv, XipMeansIdentified
<1>3. CASE DeinitCallFails
  BY <1>3 DEF DeinitCallFails, Abort, hwVars, HwInv, XipMeansIdentified
<1>4. CASE BeginInit
  BY <1>4 DEF BeginInit, hwVars, HwInv, Prepared, XipMeansIdentified
<1>5. CASE Scramble
  BY <1>5 DEF Scramble, HwInv, Prepared, XipMeansIdentified
<1> QED
  BY <1>1, <1>2, <1>3, <1>4, <1>5

\* Reads, writes and the interrupt leave the configuration alone.
LEMMA CallsKeepHw ==
  ASSUME HwInv,
         \/ \E cb \in Callback, high \in BOOLEAN : NonblockingCall(cb, high)
         \/ BlockingCall \/ ResetFlag \/ Submit \/ SubmitFails
         \/ WaitEnds \/ WaitTimesOut \/ Return
         \/ \E ok \in BOOLEAN : TransferEnds(ok)
         \/ MspiFail \/ UNCHANGED mspiVars
  PROVE  HwInv'
<1> USE DEF HwInv, XipMeansIdentified, Prepared, hwVars
<1>1. ASSUME NEW cb \in Callback, NEW high \in BOOLEAN, NonblockingCall(cb, high)
      PROVE  HwInv'
  BY <1>1 DEF NonblockingCall
<1>2. CASE BlockingCall
  BY <1>2 DEF BlockingCall
<1>3. CASE ResetFlag
  BY <1>3, Steps DEF ResetFlag, Go
<1>4. CASE Submit
  BY <1>4, Steps DEF Submit, Go
<1>5. CASE SubmitFails
  BY <1>5 DEF SubmitFails
<1>6. CASE WaitEnds
  BY <1>6 DEF WaitEnds
<1>7. CASE WaitTimesOut
  BY <1>7 DEF WaitTimesOut
<1>8. CASE Return
  BY <1>8 DEF Return
<1>9. ASSUME NEW ok \in BOOLEAN, TransferEnds(ok)
      PROVE  HwInv'
  BY <1>9 DEF TransferEnds
<1>10. CASE MspiFail
  BY <1>10 DEF MspiFail
<1>11. CASE UNCHANGED mspiVars
  BY <1>11 DEF mspiVars
<1> QED
  BY <1>1, <1>2, <1>3, <1>4, <1>5, <1>6, <1>7, <1>8, <1>9, <1>10, <1>11

\* The configuration is what the program counter says, in every state.
LEMMA HwInvariance == MspiSpec => []HwInv
<1>1. MspiInit => HwInv
  BY DEF MspiInit, HwInv, Prepared, XipMeansIdentified
<1>2. HwInv /\ [MspiNext]_mspiVars => HwInv'
  BY InitKeepsHw, DeinitKeepsHw, CallsKeepHw DEF MspiNext
<1> QED
  BY <1>1, <1>2, PTL DEF MspiSpec

\* Memory-mapped access is never on without an identified FRAM and every step
\* that leads to it, in whichever order the driver is shut down, initialised
\* again and failed by the vendor's functions (main_emulator.c:117-172).
THEOREM XipIsIdentified == MspiSpec => []XipMeansIdentified
<1>1. HwInv => XipMeansIdentified
  BY DEF HwInv
<1> QED
  BY <1>1, HwInvariance, PTL
-----------------------------------------------------------------------------
(* Calls that wait.                                                        *)

\* A caller that reports success has seen its transfer end, well or with an error
\* that the callback does not look at, or another one that it could be mistaken for.
SuccessMeansEnded == mspiPc = "success" => ownEnd \in {"done", "failed"} \/ others

\* A callback that sets the flag and belongs to another call.
Foreign(t) == t.cb = "flag" /\ ~t.own

CallInv ==
  /\ transfers \in Seq(Transfer)
  /\ mspiPc = "start" => mspiStep \in 1..2
  /\ \A t : Queued(transfers, t) /\ t.own => t.cb = "flag" /\ Waiting
  /\ mspiPc \in {"start", "wait"} => \A t : Queued(transfers, t) /\ Foreign(t) => others
  /\ ~Waiting => ownEnd = "none"
  /\ mspiPc = "start" /\ mspiStep = 2 /\ g_MSPIDMAComplete => others
  /\ FlagMeansEnd /\ SuccessMeansEnded

\* A transfer at the end of the queue.
LEMMA AppendKeepsQueue ==
  ASSUME NEW q \in Seq(Transfer), NEW t \in Transfer
  PROVE  /\ Append(q, t) \in Seq(Transfer) /\ Len(Append(q, t)) = Len(q) + 1
         /\ \A u : Queued(Append(q, t), u) => u = t \/ Queued(q, u)
<1>1. Append(q, t) \in Seq(Transfer) /\ Len(Append(q, t)) = Len(q) + 1
  OBVIOUS
<1>2. ASSUME NEW i \in DOMAIN Append(q, t)
      PROVE  Append(q, t)[i] = t \/ (i \in DOMAIN q /\ Append(q, t)[i] = q[i])
  <2>1. i \in 1..Len(q) + 1 /\ DOMAIN q = 1..Len(q) /\ Len(q) \in Nat
    BY <1>1
  <2>2. /\ \A j \in 1..Len(q) : Append(q, t)[j] = q[j]
        /\ Append(q, t)[Len(q) + 1] = t
    BY AppendProperties
  <2>3. i \in 1..Len(q) \/ i = Len(q) + 1
    BY <2>1
  <2> QED
    BY <2>1, <2>2, <2>3, Zenon
<1> QED
  BY <1>1, <1>2 DEF Queued

\* A transfer in front of those that have not begun.
LEMMA InsertKeepsQueue ==
  ASSUME NEW q \in Seq(Transfer), q # <<>>, NEW t \in Transfer
  PROVE  /\ InsertAt(q, 2, t) \in Seq(Transfer) /\ Len(InsertAt(q, 2, t)) = Len(q) + 1
         /\ \A u : Queued(InsertAt(q, 2, t), u) => u = t \/ Queued(q, u)
<1> DEFINE a == SubSeq(q, 1, 1)
           b == SubSeq(q, 2, Len(q))
<1>1. Len(q) \in Nat \ {0} /\ DOMAIN q = 1..Len(q) /\ \A i \in 1..Len(q) : q[i] \in Transfer
  OBVIOUS
<1>2. a \in Seq(Transfer) /\ Len(a) = 1 /\ a[1] = q[1]
  BY <1>1, SubSeqProperties
<1>3. /\ b \in Seq(Transfer) /\ Len(b) = Len(q) - 1
      /\ \A i \in 1..Len(q) - 1 : b[i] = q[i + 1]
  BY <1>1, SubSeqProperties
<1>4. InsertAt(q, 2, t) = a \o <<t>> \o b
  BY DEF InsertAt
<1> HIDE DEF a, b
<1>5. a \o <<t>> \in Seq(Transfer) /\ Len(a \o <<t>>) = 2
      /\ (a \o <<t>>)[1] = q[1] /\ (a \o <<t>>)[2] = t
  <2>1. <<t>> \in Seq(Transfer) /\ Len(<<t>>) = 1 /\ <<t>>[1] = t
    OBVIOUS
  <2>2. /\ a \o <<t>> \in Seq(Transfer) /\ Len(a \o <<t>>) = Len(a) + Len(<<t>>)
        /\ \A i \in 1..Len(a) + Len(<<t>>) :
             (a \o <<t>>)[i] = IF i <= Len(a) THEN a[i] ELSE <<t>>[i - Len(a)]
    BY <1>2, <2>1, ConcatProperties, Zenon
  <2> DEFINE d == a \o <<t>>
             e == <<t>>
  <2>3. /\ d \in Seq(Transfer) /\ Len(d) = Len(a) + Len(e) /\ Len(e) = 1 /\ e[1] = t
        /\ \A i \in 1..Len(a) + Len(e) : d[i] = IF i <= Len(a) THEN a[i] ELSE e[i - Len(a)]
    BY <2>1, <2>2
  <2> HIDE DEF d, e
  <2>4. Len(d) = 2 /\ d[1] = q[1] /\ d[2] = t
    BY <1>2, <2>3
  <2> QED
    BY <2>3, <2>4 DEF d
<1> DEFINE c == a \o <<t>>
<1> HIDE DEF c
<1>6. c \in Seq(Transfer) /\ Len(c) = 2 /\ c[1] = q[1] /\ c[2] = t
  BY <1>5 DEF c
<1>7. c \o b \in Seq(Transfer) /\ Len(c \o b) = Len(q) + 1
  <2>1. c \o b \in Seq(Transfer) /\ Len(c \o b) = Len(c) + Len(b)
    BY <1>3, <1>6, ConcatProperties, Zenon
  <2> QED
    BY <1>1, <1>3, <1>6, <2>1
<1>8. ASSUME NEW i \in 1..Len(q) + 1
      PROVE  (c \o b)[i] = t \/ \E j \in 1..Len(q) : (c \o b)[i] = q[j]
  <2>1. (c \o b)[i] = IF i <= 2 THEN c[i] ELSE b[i - 2]
    <3>1. i \in 1..Len(c) + Len(b)
      BY <1>1, <1>3, <1>6
    <3> QED
      <4>1. (c \o b)[i] = IF i <= Len(c) THEN c[i] ELSE b[i - Len(c)]
        BY <1>3, <1>6, <3>1, ConcatProperties, Zenon
      <4> QED
        BY <1>6, <4>1
  <2>2. CASE i <= 2
    BY <1>1, <1>6, <2>1, <2>2
  <2>3. CASE i > 2
    <3>1. i - 2 \in 1..Len(q) - 1 /\ i - 1 \in 1..Len(q) /\ (i - 2) + 1 = i - 1
      BY <1>1, <2>3
    <3> QED
      BY <1>3, <2>1, <2>3, <3>1
  <2>4. i <= 2 \/ i > 2
    BY <1>1
  <2> QED
    BY <2>2, <2>3, <2>4
<1>9. InsertAt(q, 2, t) = c \o b
  BY <1>4 DEF c
<1>10. DOMAIN (c \o b) = 1..Len(q) + 1
  BY <1>7
<1> QED
  BY <1>1, <1>7, <1>8, <1>9, <1>10 DEF Queued

\* The queue without its first transfer.
LEMMA TailKeepsQueue ==
  ASSUME NEW q \in Seq(Transfer), q # <<>>
  PROVE  /\ Tail(q) \in Seq(Transfer) /\ Len(Tail(q)) = Len(q) - 1
         /\ Queued(q, Head(q))
         /\ \A u : Queued(Tail(q), u) => Queued(q, u)
<1>1. Tail(q) \in Seq(Transfer) /\ Len(Tail(q)) = Len(q) - 1
  OBVIOUS
<1>2. Queued(q, Head(q))
  BY DEF Queued
<1>3. ASSUME NEW i \in DOMAIN Tail(q)
      PROVE  i + 1 \in DOMAIN q /\ Tail(q)[i] = q[i + 1]
  OBVIOUS
<1> QED
  BY <1>1, <1>2, <1>3 DEF Queued

\* The queue when no transfer is the current call's own any more.
Disowned(q) == [i \in DOMAIN q |-> [cb |-> q[i].cb, own |-> FALSE]]

\* Disowning keeps a queue's type and length.
LEMMA DisownKeepsQueue ==
  ASSUME NEW q \in Seq(Transfer)
  PROVE  /\ Disowned(q) \in Seq(Transfer) /\ Len(Disowned(q)) = Len(q)
         /\ \A u : Queued(Disowned(q), u) => ~u.own
<1>1. Len(q) \in Nat /\ DOMAIN q = 1..Len(q) /\ \A i \in 1..Len(q) : q[i] \in Transfer
  OBVIOUS
<1>2. Disowned(q) \in [1..Len(q) -> Transfer]
  BY <1>1 DEF Disowned, Transfer
<1>3. Disowned(q) \in Seq(Transfer) /\ Len(Disowned(q)) = Len(q)
  BY <1>1, <1>2, SeqDef
<1> QED
  BY <1>3 DEF Disowned, Queued
\* Outside of a call that waits nothing of it remains.
LEMMA ConfigurationKeepsCalls ==
  ASSUME CallInv,
         \/ InitCall \/ InitCallFails \/ Identify \/ SetLatch
         \/ BeginDeinit \/ DeinitCall \/ DeinitCallFails \/ BeginInit \/ Scramble
         \/ MspiFail \/ UNCHANGED mspiVars
  PROVE  CallInv'
<1> USE DEF CallInv, Waiting, SuccessMeansEnded, FlagMeansEnd
<1>1. CASE MspiFail
  BY <1>1, EmptySeq DEF MspiFail, Queued
<1>2. CASE UNCHANGED mspiVars
  BY <1>2 DEF mspiVars, Queued
<1>3. CASE InitCall \/ InitCallFails \/ Identify \/ SetLatch \/ BeginDeinit \/ DeinitCall
             \/ DeinitCallFails \/ BeginInit \/ Scramble
  <2>1. ~Waiting /\ mspiPc # "start" /\ UNCHANGED callVars
    BY <1>3 DEF InitCall, InitCallFails, Identify, SetLatch, BeginDeinit, DeinitCall,
                DeinitCallFails, BeginInit, Scramble
  <2>2. mspiPc' \in {"init", "ready", "failed", "deinit", "down"}
    BY <1>3 DEF InitCall, InitCallFails, Identify, SetLatch, BeginDeinit, DeinitCall,
                DeinitCallFails, BeginInit, Scramble, Go, Abort
  <2>3. transfers' = transfers \/ transfers' = <<>>
    BY <1>3 DEF InitCall, InitCallFails, Identify, SetLatch, BeginDeinit, DeinitCall,
                DeinitCallFails, BeginInit, Scramble
  <2>4. transfers' \in Seq(Transfer) /\ \A t : Queued(transfers', t) => Queued(transfers, t)
    <3>1. <<>> \in Seq(Transfer) /\ \A t : ~Queued(<<>>, t)
      BY EmptySeq DEF Queued
    <3>2. CASE transfers' = transfers
      BY <3>2 DEF Queued
    <3>3. CASE transfers' = <<>>
      BY <3>1, <3>3
    <3> QED
      BY <2>3, <3>2, <3>3
  <2>5. \A t : Queued(transfers', t) => ~t.own
    BY <2>1, <2>4
  <2>6. ownEnd' = "none" /\ ~Waiting' /\ mspiPc' # "start"
    BY <2>1, <2>2 DEF callVars
  <2> QED
    BY <2>4, <2>5, <2>6 DEF Queued
<1> QED
  BY <1>1, <1>2, <1>3

\* The steps of a caller: the flag is down, and the transfers it may be mistaken
\* for are known, before its own transfer is queued (mspi.c:595, 697).
LEMMA CallerKeepsCalls ==
  ASSUME CallInv,
         \/ \E cb \in Callback, high \in BOOLEAN : NonblockingCall(cb, high)
         \/ BlockingCall \/ ResetFlag \/ Submit \/ SubmitFails
         \/ WaitEnds \/ WaitTimesOut \/ Return
  PROVE  CallInv'
<1> USE DEF SuccessMeansEnded, FlagMeansEnd
<1>1. ASSUME NEW cb \in Callback, NEW high \in BOOLEAN, NonblockingCall(cb, high)
      PROVE  CallInv'
  <2> DEFINE t == [cb |-> cb, own |-> FALSE]
  <2>1. t \in Transfer /\ ~t.own
    BY DEF Transfer
  <2>2. /\ mspiPc = "ready" /\ mspiPc' = "ready" /\ ownEnd' = ownEnd
        /\ transfers' = IF high THEN EnqueuedHigh(t) ELSE Enqueued(t)
    BY <1>1 DEF NonblockingCall, callVars
  <2> HIDE DEF t
  <2>3. transfers \in Seq(Transfer)
    BY DEF CallInv
  <2>4. /\ Enqueued(t) \in Seq(Transfer)
        /\ \A u : Queued(Enqueued(t), u) => u = t \/ Queued(transfers, u)
    BY <2>1, <2>3, AppendKeepsQueue DEF Enqueued
  <2>5. /\ EnqueuedHigh(t) \in Seq(Transfer)
        /\ \A u : Queued(EnqueuedHigh(t), u) => u = t \/ Queued(transfers, u)
    <3>1. CASE transfers = <<>>
      BY <2>1, <3>1 DEF EnqueuedHigh, Queued
    <3>2. CASE transfers # <<>>
      BY <2>1, <2>3, <3>2, InsertKeepsQueue DEF EnqueuedHigh
    <3> QED
      BY <3>1, <3>2
  <2>6. transfers' \in Seq(Transfer) /\ \A u : Queued(transfers', u) => ~u.own
    BY <2>1, <2>2, <2>4, <2>5 DEF CallInv, Waiting
  <2> QED
    BY <2>2, <2>6 DEF CallInv, Waiting, Queued
<1>2. CASE BlockingCall
  <2>1. /\ mspiPc = "ready" /\ mspiPc' = "start" /\ mspiStep' = 1 /\ ownEnd' = "none"
        /\ others' = (\E i \in DOMAIN transfers : transfers[i].cb = "flag")
        /\ transfers' = transfers
    BY <1>2 DEF BlockingCall
  <2> QED
    BY <2>1 DEF CallInv, Waiting, Queued, Foreign
<1>3. CASE ResetFlag
  <2>1. /\ mspiPc = "start" /\ mspiStep = 1 /\ g_MSPIDMAComplete' = FALSE
        /\ mspiStep' = 2 /\ mspiPc' = "start"
        /\ transfers' = transfers /\ ownEnd' = ownEnd /\ others' = others
    BY <1>3, Steps DEF ResetFlag, CallInv, Go
  <2> QED
    BY <2>1 DEF CallInv, Waiting, Queued
<1>4. CASE Submit
  <2> DEFINE t == [cb |-> "flag", own |-> TRUE]
  <2>1. t \in Transfer /\ t.own /\ t.cb = "flag"
    BY DEF Transfer, Callback
  <2>2. /\ mspiPc = "start" /\ mspiStep = 2 /\ mspiPc' = "wait"
        /\ transfers' = Append(transfers, t) /\ ownEnd' = "queued"
        /\ g_MSPIDMAComplete' = g_MSPIDMAComplete /\ others' = others
    BY <1>4, Steps DEF Submit, CallInv, Go, Enqueued
  <2> HIDE DEF t
  <2>3. /\ transfers' \in Seq(Transfer)
        /\ \A u : Queued(transfers', u) => u = t \/ Queued(transfers, u)
    BY <2>1, <2>2, AppendKeepsQueue DEF CallInv
  <2>4. \A u : Queued(transfers', u) /\ u.own => u.cb = "flag"
    BY <2>1, <2>2, <2>3 DEF CallInv, Waiting
  <2>5. \A u : Queued(transfers', u) /\ Foreign(u) => others'
    BY <2>1, <2>2, <2>3 DEF CallInv, Foreign
  <2>6. g_MSPIDMAComplete' => others'
    BY <2>2 DEF CallInv
  <2> QED
    BY <2>2, <2>3, <2>4, <2>5, <2>6 DEF CallInv, Waiting, Queued
<1>5. CASE SubmitFails
  <2>1. /\ mspiPc = "start" /\ mspiPc' = "error" /\ transfers' = transfers /\ ownEnd' = ownEnd
    BY <1>5 DEF SubmitFails, callVars
  <2> QED
    BY <2>1 DEF CallInv, Waiting, Queued
<1>6. CASE WaitEnds
  <2>1. /\ mspiPc = "wait" /\ mspiPc' = "success" /\ g_MSPIDMAComplete
        /\ transfers' = transfers /\ ownEnd' = ownEnd /\ others' = others
    BY <1>6 DEF WaitEnds, callVars
  <2> QED
    BY <2>1 DEF CallInv, Waiting, Queued
<1>7. CASE WaitTimesOut \/ Return
  <2>1. transfers' = Disowned(transfers) /\ mspiPc' \in {"error", "ready"}
    BY <1>7 DEF WaitTimesOut, Return, Disowned
  <2>2. transfers' \in Seq(Transfer) /\ \A u : Queued(transfers', u) => ~u.own
    BY <2>1, DisownKeepsQueue DEF CallInv
  <2>3. mspiPc' = "ready" => ownEnd' = "none"
    BY <1>7 DEF WaitTimesOut, Return
  <2> QED
    BY <2>1, <2>2, <2>3 DEF CallInv, Waiting, Queued
<1> QED
  BY <1>1, <1>2, <1>3, <1>4, <1>5, <1>6, <1>7

\* The interrupt sets the flag for the caller's own transfer, and for another's
\* only when the caller had to expect it (mspi.c:144).
LEMMA InterruptKeepsCalls ==
  ASSUME CallInv, NEW ok \in BOOLEAN, TransferEnds(ok)
  PROVE  CallInv'
<1> DEFINE h == Head(transfers)
<1>1. /\ transfers' \in Seq(Transfer) /\ Queued(transfers, h) /\ h \in Transfer
      /\ \A u : Queued(transfers', u) => Queued(transfers, u)
  BY TailKeepsQueue DEF CallInv, TransferEnds
<1>2. /\ g_MSPIDMAComplete' = (g_MSPIDMAComplete \/ h.cb = "flag")
      /\ ownEnd' = IF h.own THEN IF ok THEN "done" ELSE "failed" ELSE ownEnd
      /\ others' = others /\ mspiPc' = mspiPc /\ mspiStep' = mspiStep
  BY DEF TransferEnds
<1> HIDE DEF h
<1>3. h.own => h.cb = "flag" /\ Waiting /\ ownEnd' \in {"done", "failed"}
  BY <1>1, <1>2 DEF CallInv
<1>4. mspiPc \in {"start", "wait"} /\ h.cb = "flag" => h.own \/ others
  BY <1>1 DEF CallInv, Foreign
<1>5. ~h.own => ownEnd' = ownEnd
  BY <1>2
<1>6. (\A t : Queued(transfers, t) /\ t.own => t.cb = "flag" /\ Waiting)'
  BY <1>1, <1>2 DEF CallInv, Waiting
<1>7. (mspiPc \in {"start", "wait"} => \A t : Queued(transfers, t) /\ Foreign(t) => others)'
  BY <1>1, <1>2 DEF CallInv, Foreign
<1>8. /\ (~Waiting => ownEnd = "none")'
      /\ (mspiPc = "start" /\ mspiStep = 2 /\ g_MSPIDMAComplete => others)'
  BY <1>2, <1>3, <1>4, <1>5 DEF CallInv, Waiting
<1>9. FlagMeansEnd'
  BY <1>2, <1>3, <1>4, <1>5 DEF CallInv, FlagMeansEnd
<1>10. SuccessMeansEnded'
  BY <1>2, <1>3, <1>5 DEF CallInv, SuccessMeansEnded
<1> QED
  BY <1>1, <1>2, <1>6, <1>7, <1>8, <1>9, <1>10 DEF CallInv

\* What holds of the calls, in every state.
LEMMA CallInvariance == MspiSpec => []CallInv
<1>1. MspiInit => CallInv
  BY EmptySeq DEF MspiInit, CallInv, Waiting, Queued, SuccessMeansEnded, FlagMeansEnd
<1>2. CallInv /\ [MspiNext]_mspiVars => CallInv'
  BY ConfigurationKeepsCalls, CallerKeepsCalls, InterruptKeepsCalls DEF MspiNext
<1> QED
  BY <1>1, <1>2, PTL DEF MspiSpec

\* A call that reports success has seen its transfer end, or had another one
\* that it could be mistaken for (mspi.c:144, 595, 617).
THEOREM SuccessIsAnEnd == MspiSpec => []SuccessMeansEnded
<1>1. CallInv => SuccessMeansEnded
  BY DEF CallInv
<1> QED
  BY <1>1, CallInvariance, PTL

\* The flag is up exactly when the caller's transfer has ended, however early it
\* ends, unless another one could be mistaken for it (mspi.c:144, 595, 697).
THEOREM FlagIsTheEnd == MspiSpec => []FlagMeansEnd
<1>1. CallInv => FlagMeansEnd
  BY DEF CallInv
<1> QED
  BY <1>1, CallInvariance, PTL

\* The type invariant; the queue never holds more than the vendor's code allows.
THEOREM MspiTypeCorrect == MspiSpec => []MspiTypeOK
<1>1. MspiInit => MspiTypeOK
  <2>1. <<>> \in Seq([cb: Callback, own: BOOLEAN]) /\ Len(<<>>) = 0 /\ 0 <= Pending
    BY MspiAssumption
  <2> SUFFICES ASSUME MspiInit PROVE MspiTypeOK
    OBVIOUS
  <2>2. transfers \in Seq([cb: Callback, own: BOOLEAN]) /\ Len(transfers) <= Pending
    BY <2>1 DEF MspiInit
  <2>3. hw \subseteq Facts /\ mspiStep \in 1..10
    BY DEF MspiInit
  <2> QED
    BY <2>2, <2>3, Zenon DEF MspiInit, MspiTypeOK
<1>2. MspiTypeOK /\ HwInv /\ CallInv /\ CallInv' /\ [MspiNext]_mspiVars => MspiTypeOK'
  <2> SUFFICES ASSUME MspiTypeOK, HwInv, CallInv, CallInv', [MspiNext]_mspiVars
               PROVE  MspiTypeOK'
    OBVIOUS
  <2> USE DEF hwVars, callVars
  <2>1. transfers' \in Seq(Transfer) /\ transfers \in Seq(Transfer)
    BY DEF CallInv
  <2>2. Len(<<>>) = 0 /\ Pending \in Nat /\ Len(transfers) \in Nat
    BY <2>1, MspiAssumption
  <2>3. CASE InitCall
    <3>1. \A s : Gain(s) \subseteq Facts
      BY DEF Gain, Facts
    <3>2. hw' \subseteq Facts
      BY <2>3, <3>1 DEF InitCall, MspiTypeOK
    <3>3. mspiStep \in 1..10 /\ mspiPc = "init"
      BY <2>3 DEF InitCall, HwInv
    <3>4. mspiStep' \in 1..10 /\ mspiPc' \in {"init", "ready"}
      BY <2>3, <3>3, Steps DEF InitCall, Go
    <3> QED
      BY <2>3, <3>2, <3>4 DEF InitCall, MspiTypeOK
  <2>4. CASE Identify \/ SetLatch
    <3>1. mspiStep \in 1..10 /\ mspiPc = "init"
      BY <2>4 DEF Identify, SetLatch, HwInv
    <3>2. mspiStep' \in 1..10 /\ mspiPc' \in {"init", "ready", "failed"}
      <4>1. CASE Identify
        <5>1. Go(InitSteps, "ready")
          BY <4>1 DEF Identify
        <5> QED
          BY <3>1, <5>1, Steps DEF Go
      <4>2. CASE SetLatch
        <5>1. CASE Go(InitSteps, "ready")
          BY <3>1, <5>1, Steps DEF Go
        <5>2. CASE ~Go(InitSteps, "ready")
          BY <4>2, <5>2 DEF SetLatch, Abort
        <5> QED
          BY <5>1, <5>2
      <4> QED
        BY <2>4, <4>1, <4>2
    <3>3. CASE Identify
      BY <3>2, <3>3 DEF Identify, MspiTypeOK
    <3>4. CASE SetLatch
      BY <3>2, <3>4 DEF SetLatch, MspiTypeOK
    <3> QED
      BY <2>4, <3>3, <3>4
  <2>5. CASE DeinitCall
    <3>1. mspiStep \in 1..7 /\ mspiPc = "deinit"
      BY <2>5 DEF DeinitCall, HwInv
    <3>2. mspiStep' \in 1..10 /\ mspiPc' \in {"deinit", "down"}
      BY <2>5, <3>1, Steps DEF DeinitCall, Go
    <3>3. Len(transfers') <= Pending
      BY <2>2, <2>5 DEF DeinitCall, MspiTypeOK
    <3> QED
      BY <2>1, <2>5, <3>2, <3>3 DEF DeinitCall, MspiTypeOK, Transfer
  <2>6. CASE InitCallFails \/ DeinitCallFails \/ BeginDeinit \/ BeginInit
    BY <2>6 DEF InitCallFails, DeinitCallFails, BeginDeinit, BeginInit, Abort, MspiTypeOK
  <2>7. CASE Scramble
    BY <2>7 DEF Scramble, MspiTypeOK, Facts
  <2>8. ASSUME NEW cb \in Callback, NEW high \in BOOLEAN, NonblockingCall(cb, high)
        PROVE  MspiTypeOK'
    <3> DEFINE t == [cb |-> cb, own |-> FALSE]
    <3>1. t \in Transfer
      BY DEF Transfer
    <3>2. /\ transfers' = IF high THEN EnqueuedHigh(t) ELSE Enqueued(t)
          /\ Len(transfers) < Pending
      BY <2>8 DEF NonblockingCall
    <3> HIDE DEF t
    <3>3. Len(Enqueued(t)) = Len(transfers) + 1
      BY <2>1, <3>1, AppendKeepsQueue DEF Enqueued
    <3>4. Len(EnqueuedHigh(t)) = Len(transfers) + 1
      <4>1. CASE transfers = <<>>
        BY <2>2, <4>1 DEF EnqueuedHigh
      <4>2. CASE transfers # <<>>
        BY <2>1, <3>1, <4>2, InsertKeepsQueue DEF EnqueuedHigh
      <4> QED
        BY <4>1, <4>2
    <3>5. Len(transfers') <= Pending
      BY <2>2, <3>2, <3>3, <3>4
    <3> QED
      BY <2>1, <2>8, <3>5 DEF NonblockingCall, MspiTypeOK, Transfer
  <2>9. CASE BlockingCall
    <3>1. others' \in BOOLEAN
      BY <2>9 DEF BlockingCall
    <3> QED
      BY <2>9, <3>1 DEF BlockingCall, MspiTypeOK
  <2>10. CASE ResetFlag
    <3>1. mspiStep' \in 1..10 /\ mspiPc' \in {"start", "wait"}
      BY <2>10, Steps DEF ResetFlag, Go, HwInv
    <3> QED
      BY <2>10, <3>1 DEF ResetFlag, MspiTypeOK
  <2>11. CASE Submit
    <3>1. mspiStep' \in 1..10 /\ mspiPc' \in {"start", "wait"}
      BY <2>11, Steps DEF Submit, Go, HwInv
    <3>2. [cb |-> "flag", own |-> TRUE] \in Transfer
      BY DEF Transfer, Callback
    <3>3. Len(transfers') <= Pending
      BY <2>1, <2>2, <2>11, <3>2, AppendKeepsQueue DEF Submit, Enqueued
    <3> QED
      BY <2>1, <2>11, <3>1, <3>3 DEF Submit, MspiTypeOK, Transfer
  <2>12. CASE SubmitFails \/ WaitEnds
    BY <2>12 DEF SubmitFails, WaitEnds, MspiTypeOK
  <2>13. CASE WaitTimesOut \/ Return
    <3>1. transfers' = Disowned(transfers)
      BY <2>13 DEF WaitTimesOut, Return, Disowned
    <3>2. Len(transfers') <= Pending
      BY <2>1, <3>1, DisownKeepsQueue DEF MspiTypeOK
    <3> QED
      BY <2>1, <2>13, <3>2 DEF WaitTimesOut, Return, MspiTypeOK, Transfer
  <2>14. ASSUME NEW ok \in BOOLEAN, TransferEnds(ok)
         PROVE  MspiTypeOK'
    <3>1. Len(transfers') <= Pending
      BY <2>1, <2>2, <2>14, TailKeepsQueue DEF TransferEnds, MspiTypeOK
    <3>2. g_MSPIDMAComplete' \in BOOLEAN
      BY <2>14 DEF TransferEnds, MspiTypeOK
    <3>3. ownEnd' \in {"none", "queued", "done", "failed"}
      BY <2>14 DEF TransferEnds, MspiTypeOK
    <3> QED
      BY <2>1, <2>14, <3>1, <3>2, <3>3 DEF TransferEnds, MspiTypeOK, Transfer
  <2>15. CASE MspiFail
    <3>1. Len(transfers') <= Pending
      BY <2>2, <2>15 DEF MspiFail
    <3> QED
      <4>1. hw' \subseteq Facts /\ mspiStep' \in 1..10
        BY <2>15 DEF MspiFail
      <4> QED
        BY <2>1, <2>15, <3>1, <4>1, Zenon DEF MspiFail, MspiTypeOK, Transfer
  <2>16. CASE UNCHANGED mspiVars
    BY <2>16 DEF mspiVars, MspiTypeOK
  <2> QED
    BY <2>3, <2>4, <2>5, <2>6, <2>7, <2>8, <2>9, <2>10, <2>11, <2>12, <2>13, <2>14, <2>15,
       <2>16 DEF MspiNext
<1> QED
  BY <1>1, <1>2, HwInvariance, CallInvariance, PTL DEF MspiSpec

-----------------------------------------------------------------------------
(* The display driver: the panel's place for a line, and the queue of      *)
(* writes.                                                                 *)

\* A nibble reversed is read back by the weights of its bits from the other end.
LEMMA NibbleReversed ==
  ASSUME NEW x \in 0..15
  PROVE  /\ ReverseBits[x + 1] \in 0..15
         /\ x = 8 * Bit(ReverseBits[x+1], 1) + 4 * Bit(ReverseBits[x+1], 2)
                + 2 * Bit(ReverseBits[x+1], 4) + Bit(ReverseBits[x+1], 8)
<1>1. x \in {0, 1, 2, 3, 4, 5, 6, 7, 8, 9, 10, 11, 12, 13, 14, 15}
  OBVIOUS
<1> QED
  BY <1>1 DEF ReverseBits, Bit

\* The bits of a byte are those of its two nibbles.
LEMMA BitsOfNibbles ==
  ASSUME NEW x \in 0..15, NEW y \in 0..15
  PROVE  /\ \A w \in {1, 2, 4, 8} : Bit(16 * x + y, w) = Bit(y, w)
         /\ \A w \in {1, 2, 4, 8} : Bit(16 * x + y, 16 * w) = Bit(x, w)
<1>1. \A w \in {1, 2, 4, 8} : Bit(16 * x + y, w) = Bit(y, w)
  BY DEF Bit
<1>2. \A w \in {1, 2, 4, 8} : Bit(16 * x + y, 16 * w) = Bit(x, w)
  BY DEF Bit
<1> QED
  BY <1>1, <1>2

\* The weights of a byte's bits, nibble by nibble.
LEMMA WeightsOfBits ==
  ASSUME NEW a \in 0..1, NEW b \in 0..1, NEW c \in 0..1, NEW d \in 0..1,
         NEW e \in 0..1, NEW f \in 0..1, NEW g \in 0..1, NEW h \in 0..1
  PROVE  a * 128 + b * 64 + c * 32 + d * 16 + e * 8 + f * 4 + g * 2 + h
           = 16 * (8 * a + 4 * b + 2 * c + d) + (8 * e + 4 * f + 2 * g + h)
  OBVIOUS

\* The address of a line selects that line of the panel (populateAddressInBuffer).
LEMMA PanelReadsAddress ==
  ASSUME NEW l \in 0..255
  PROVE  LineAddress(l) \in 0..255 /\ PanelLine(LineAddress(l)) = l
<1> DEFINE lo == l % 16
           hi == l \div 16
           x == ReverseBits[lo + 1]
           y == ReverseBits[hi + 1]
<1>1. lo \in 0..15 /\ hi \in 0..15 /\ l = 16 * hi + lo
  OBVIOUS
<1>2. LineAddress(l) = x * 16 + y
  BY DEF LineAddress
<1> HIDE DEF lo, hi
<1>3. /\ x \in 0..15 /\ y \in 0..15
      /\ lo = 8 * Bit(x, 1) + 4 * Bit(x, 2) + 2 * Bit(x, 4) + Bit(x, 8)
      /\ hi = 8 * Bit(y, 1) + 4 * Bit(y, 2) + 2 * Bit(y, 4) + Bit(y, 8)
  BY <1>1, NibbleReversed
<1> HIDE DEF x, y
<1> DEFINE a == 16 * x + y
<1>4. LineAddress(l) = a /\ a \in 0..255
  BY <1>2, <1>3
<1>5. /\ Bit(a, 1) = Bit(y, 1) /\ Bit(a, 2) = Bit(y, 2) /\ Bit(a, 4) = Bit(y, 4)
      /\ Bit(a, 8) = Bit(y, 8) /\ Bit(a, 16) = Bit(x, 1) /\ Bit(a, 32) = Bit(x, 2)
      /\ Bit(a, 64) = Bit(x, 4) /\ Bit(a, 128) = Bit(x, 8)
  BY <1>3, BitsOfNibbles
<1>6. \A n \in 0..15, w \in {1, 2, 4, 8} : Bit(n, w) \in 0..1
  BY DEF Bit
<1>7. PanelLine(a) = 16 * hi + lo
  <2>1. /\ Bit(x, 1) \in 0..1 /\ Bit(x, 2) \in 0..1 /\ Bit(x, 4) \in 0..1 /\ Bit(x, 8) \in 0..1
        /\ Bit(y, 1) \in 0..1 /\ Bit(y, 2) \in 0..1 /\ Bit(y, 4) \in 0..1 /\ Bit(y, 8) \in 0..1
    BY <1>3, <1>6
  <2>2. PanelLine(a) = Bit(y, 1) * 128 + Bit(y, 2) * 64 + Bit(y, 4) * 32 + Bit(y, 8) * 16
                       + Bit(x, 1) * 8 + Bit(x, 2) * 4 + Bit(x, 4) * 2 + Bit(x, 8)
    BY <1>5 DEF PanelLine
  <2>3. PanelLine(a)
          = 16 * (8 * Bit(y, 1) + 4 * Bit(y, 2) + 2 * Bit(y, 4) + Bit(y, 8))
            + (8 * Bit(x, 1) + 4 * Bit(x, 2) + 2 * Bit(x, 4) + Bit(x, 8))
    BY <2>1, <2>2, WeightsOfBits
  <2> QED
    BY <1>3, <2>3, Zenon
<1> QED
  BY <1>1, <1>4, <1>7

\* What the queue holds.
Writes == [line: 1..NumLines+1, left: 0..NumLines]

\* A queue of writes of lines there are, of which only the first may be done.
QueueOK(q) ==
  /\ q \in Seq(Writes) /\ Len(q) <= QueueLimit
  /\ \A i \in 1..Len(q) : q[i].line + q[i].left <= NumLines + 1 /\ (i > 1 => q[i].left > 0)

\* Is line l part of a write in the queue?
Covers(q, l) == \E i \in 1..Len(q) : l \in q[i].line .. q[i].line + q[i].left - 1

\* No line is written without its address, the queue is lost with power, and the
\* interrupt of a write is pending exactly when the write is done.
DisplayInv ==
  /\ DisplayTypeOK /\ QueueOK(queue)
  /\ displayPc # "off" => \A l \in Line : PanelLine(address[l]) = l
  /\ displayPc # "on" => Len(queue) = 0
  /\ served <=> (Len(queue) > 0 /\ queue[1].left = 0)
  /\ LinesShown

\* A write that enters the queue: those before it stay what they are.
LEMMA AppendWrite ==
  ASSUME NEW q, QueueOK(q), Len(q) < QueueLimit, NEW e \in Writes,
         e.line + e.left <= NumLines + 1, e.left > 0
  PROVE  /\ QueueOK(Append(q, e)) /\ Len(Append(q, e)) > 0
         /\ Len(q) > 0 => Append(q, e)[1] = q[1]
         /\ Len(q) = 0 => Append(q, e)[1] = e
         /\ \A l : Covers(q, l) => Covers(Append(q, e), l)
<1> DEFINE r == Append(q, e)
<1>1. q \in Seq(Writes) /\ Len(q) \in Nat
  BY DEF QueueOK
<1>2. /\ r \in Seq(Writes) /\ Len(r) = Len(q) + 1 /\ r[Len(q) + 1] = e
      /\ \A i \in 1..Len(q) : r[i] = q[i] /\ i \in 1..Len(r)
  BY <1>1, AppendProperties
<1> HIDE DEF r
<1>3. \A i \in 1..Len(r) : i \in 1..Len(q) \/ i = Len(q) + 1
  BY <1>1, <1>2
<1>4. QueueOK(r)
  BY <1>1, <1>2, <1>3, DisplayAssumption DEF QueueOK
<1>5. \A l : Covers(q, l) => Covers(r, l)
  BY <1>2, Zenon DEF Covers
<1>7. (Len(q) > 0 => r[1] = q[1]) /\ (Len(q) = 0 => r[1] = e) /\ Len(r) > 0
  BY <1>1, <1>2
<1> QED
  BY <1>4, <1>5, <1>7 DEF r

\* The lines of a write at the end of the queue.
LEMMA AppendCovers ==
  ASSUME NEW q, QueueOK(q), NEW e \in Writes
  PROVE  \A l \in e.line .. e.line + e.left - 1 : Covers(Append(q, e), l)
<1> DEFINE r == Append(q, e)
<1>1. q \in Seq(Writes) /\ Len(q) \in Nat
  BY DEF QueueOK
<1>2. r \in Seq(Writes) /\ Len(r) = Len(q) + 1 /\ r[Len(q) + 1] = e
  BY <1>1, AppendProperties
<1> HIDE DEF r
<1> QED
  BY <1>1, <1>2 DEF Covers, r

\* The panel has a number of lines.
LEMMA LinesCount == NumLines \in Nat
BY DisplayAssumption

\* A line is sent: the first write shrinks by that line only.
LEMMA AdvanceWrite ==
  ASSUME NEW q, QueueOK(q), Len(q) > 0, q[1].left > 0,
         NEW r, r = <<[line |-> Head(q).line + 1, left |-> Head(q).left - 1]>> \o Tail(q)
  PROVE  /\ QueueOK(r) /\ Len(r) > 0 /\ r[1].left = q[1].left - 1
         /\ \A l : Covers(q, l) => l = q[1].line \/ Covers(r, l)
<1> DEFINE e == [line |-> Head(q).line + 1, left |-> Head(q).left - 1]
           t == Tail(q)
<1>1. /\ q \in Seq(Writes) /\ Len(q) \in Nat /\ Len(q) >= 1 /\ q[1] \in Writes /\ Head(q) = q[1]
      /\ q[1].line + q[1].left <= NumLines + 1 /\ NumLines \in Nat
  <2>1. q \in Seq(Writes) /\ Len(q) \in Nat /\ Len(q) >= 1 /\ q[1] \in Writes /\ Head(q) = q[1]
    BY DEF QueueOK
  <2>2. q[1].line + q[1].left <= NumLines + 1
    BY <2>1 DEF QueueOK
  <2> QED
    BY <2>1, <2>2, LinesCount, Zenon
<1>2. e \in Writes /\ e.line = q[1].line + 1 /\ e.left = q[1].left - 1
  <2>1. q[1].line + 1 \in 1..NumLines+1 /\ q[1].left - 1 \in 0..NumLines
    BY <1>1 DEF Writes
  <2>2. e = [line |-> q[1].line + 1, left |-> q[1].left - 1]
    BY <1>1
  <2> QED
    BY <2>1, <2>2 DEF Writes
<1>3. t \in Seq(Writes) /\ Len(t) = Len(q) - 1 /\ \A i \in 1..Len(q)-1 : t[i] = q[i+1]
  BY <1>1
<1> HIDE DEF e, t
<1>4. r = <<e>> \o t
  BY DEF e, t
<1>5. /\ r \in Seq(Writes) /\ Len(r) = Len(q) /\ r[1] = e
      /\ \A i \in 2..Len(q) : r[i] = q[i]
  BY <1>1, <1>2, <1>3, <1>4
<1>6. \A i \in 1..Len(q) : i = 1 \/ i \in 2..Len(q)
  BY <1>1
<1>7. QueueOK(r)
  <2>1. Len(r) <= QueueLimit
    BY <1>5 DEF QueueOK
  <2>2. \A i \in 2..Len(q) : q[i].line + q[i].left <= NumLines + 1 /\ q[i].left > 0
    BY <1>1 DEF QueueOK
  <2>3. e.line + e.left <= NumLines + 1
    BY <1>1, <1>2 DEF Writes
  <2> QED
    BY <1>1, <1>5, <1>6, <2>1, <2>2, <2>3 DEF QueueOK
<1>8. ASSUME NEW l, Covers(q, l) PROVE l = q[1].line \/ Covers(r, l)
  <2>1. PICK i \in 1..Len(q) : l \in q[i].line .. q[i].line + q[i].left - 1
    BY <1>8 DEF Covers
  <2>2. CASE i = 1
    <3>1. l = q[1].line \/ l \in e.line .. e.line + e.left - 1
      <4>1. PICK a \in Nat, b \in Nat : a = q[1].line /\ b = q[1].left
        BY <1>1, LinesCount DEF Writes
      <4>2. l \in a .. a + b - 1 /\ e.line = a + 1 /\ e.left = b - 1
        BY <1>2, <2>1, <2>2, <4>1
      <4>3. l = a \/ l \in a + 1 .. a + 1 + (b - 1) - 1
        BY <4>2
      <4> QED
        BY <4>1, <4>2, <4>3
    <3> QED
      BY <1>1, <1>5, <3>1 DEF Covers
  <2>3. CASE i \in 2..Len(q)
    BY <1>1, <1>5, <2>1, <2>3 DEF Covers
  <2> QED
    BY <1>6, <2>2, <2>3
<1> QED
  BY <1>1, <1>2, <1>5, <1>7, <1>8

\* A write that is done leaves the queue and no line with it.
LEMMA FinishWrite ==
  ASSUME NEW q, QueueOK(q), Len(q) > 0, q[1].left = 0
  PROVE  /\ QueueOK(Tail(q))
         /\ Len(Tail(q)) > 0 => Tail(q)[1].left > 0
         /\ \A l : Covers(q, l) => Covers(Tail(q), l)
<1> DEFINE t == Tail(q)
<1>1. q \in Seq(Writes) /\ Len(q) \in Nat /\ Len(q) >= 1 /\ q[1] \in Writes
  BY DEF QueueOK
<1>2. t \in Seq(Writes) /\ Len(t) = Len(q) - 1 /\ \A i \in 1..Len(q)-1 : t[i] = q[i+1]
  BY <1>1
<1> HIDE DEF t
<1>3. \A i \in 1..Len(t) : i + 1 \in 1..Len(q) /\ i + 1 > 1 /\ t[i] = q[i+1]
  BY <1>1, <1>2
<1>4. Len(t) <= QueueLimit
  BY <1>1, <1>2, DisplayAssumption DEF QueueOK
<1>5. QueueOK(t) /\ \A i \in 1..Len(t) : t[i].left > 0
  BY <1>2, <1>3, <1>4 DEF QueueOK
<1>6. ASSUME NEW l, Covers(q, l) PROVE Covers(t, l)
  <2>1. PICK i \in 1..Len(q) : l \in q[i].line .. q[i].line + q[i].left - 1
    BY <1>6 DEF Covers
  <2>2. i # 1
    BY <1>1, <2>1 DEF Writes
  <2>3. i - 1 \in 1..Len(t) /\ t[i-1] = q[i]
    BY <1>1, <1>2, <2>2
  <2> QED
    BY <2>1, <2>3 DEF Covers
<1>7. Len(t) > 0 => 1 \in 1..Len(t)
  BY <1>1, <1>2
<1> QED
  BY <1>5, <1>6, <1>7 DEF t

\* The lines that are awaited, for a queue that is in order.
LEMMA AwaitedIsCovered ==
  ASSUME QueueOK(queue)
  PROVE  \A l : Awaited(l) <=> Covers(queue, l)
  BY DEF QueueOK, Awaited, Covers

\* The type of a queue that is in order.
LEMMA QueueTyped ==
  ASSUME NEW q, QueueOK(q)
  PROVE  Len(q) <= QueueLimit /\ \A i \in DOMAIN q : q[i] \in Writes
  BY DEF QueueOK

\* What of the type invariant does not speak of the queue.
Drawn ==
  /\ displayBuffer \in [Line -> Picture] /\ address \in [Line -> 0..255]
  /\ panel \in [Line -> Picture \cup {Blanked}]
  /\ served \in BOOLEAN /\ spi \in BOOLEAN /\ displayPc \in {"off", "on", "shut"}
  /\ status \in [Line -> {"settled", "changed", "dropped", "undrawn"}]

\* The type invariant is that of the queue and that of the rest.
LEMMA TypeSplits == QueueOK(queue) => (DisplayTypeOK <=> Drawn)
<1>1. QueueOK(queue) => /\ Len(queue) <= QueueLimit
                        /\ \A i \in DOMAIN queue : queue[i] \in [line: 1..NumLines+1, left: 0..NumLines]
  BY QueueTyped DEF Writes
<1> QED
  BY <1>1, Zenon DEF DisplayTypeOK, Drawn

\* Nothing is drawn at the start.
LEMMA DisplayInitInv == DisplayInit => DisplayInv
<1> SUFFICES ASSUME DisplayInit PROVE DisplayInv
  OBVIOUS
<1>1. queue = <<>> /\ Len(queue) = 0 /\ QueueOK(queue)
  BY DisplayAssumption DEF DisplayInit, QueueOK
<1>2. Drawn
  <2>1. address \in [Line -> 0..255]
    BY DEF DisplayInit
  <2>2. panel \in [Line -> Picture \cup {Blanked}]
    BY DEF DisplayInit
  <2>3. status \in [Line -> {"settled", "changed", "dropped", "undrawn"}]
    BY DEF DisplayInit
  <2> QED
    BY <2>1, <2>2, <2>3 DEF DisplayInit, Drawn
<1>3. LinesShown /\ displayPc = "off" /\ served = FALSE
  BY DEF DisplayInit, LinesShown
<1> QED
  BY <1>1, <1>2, <1>3, TypeSplits DEF DisplayInv

\* A write by spiWrite, whether or not the queue takes it: the lines that are
\* drawn on are those that the caller expects to be written.
LEMMA WriteKeepsInv ==
  ASSUME DisplayInv, displayPc = "on",
         NEW first \in Nat, NEW count \in Nat, NEW buf \in [Line -> Picture],
         NEW asked \in SUBSET Line,
         first >= 1, count >= 1, first + count <= NumLines + 1,
         asked \subseteq first .. first + count - 1,
         \A l \in Line : l \notin asked => buf[l] = displayBuffer[l],
         Write(first, count, buf, asked),
         UNCHANGED <<address, panel, served, spi, displayPc>>
  PROVE  DisplayInv'
<1> DEFINE e == [line |-> first, left |-> count]
<1>1. /\ QueueOK(queue) /\ Drawn /\ Len(queue) \in Nat
      /\ \A l \in Line : PanelLine(address[l]) = l
      /\ served <=> (Len(queue) > 0 /\ queue[1].left = 0)
  BY TypeSplits DEF DisplayInv, QueueOK
<1>2. e \in Writes /\ e.line = first /\ e.left = count
  BY DisplayAssumption DEF Writes
<1>3. displayBuffer' = buf /\ status' \in [Line -> {"settled", "changed", "dropped", "undrawn"}]
  BY <1>1 DEF Write, Drawn
<1>4. Drawn'
  BY <1>1, <1>3 DEF Drawn
<1>5. \A l \in Line : /\ l \notin asked => status'[l] = status[l]
                      /\ l \in asked /\ status'[l] = "settled" => spi /\ Len(queue) < QueueLimit
  BY DEF Write
<1>6. \A l \in Line : status[l] = "settled" /\ ~Covers(queue, l) => panel[l] = displayBuffer[l]
  BY <1>1, AwaitedIsCovered DEF DisplayInv, LinesShown
<1>7. /\ QueueOK(queue') /\ (served <=> (Len(queue') > 0 /\ queue'[1].left = 0))
      /\ \A l : Covers(queue, l) => Covers(queue', l)
      /\ \A l \in asked : status'[l] = "settled" => Covers(queue', l)
  <2>1. CASE spi /\ Len(queue) < QueueLimit
    <3>1. queue' = Append(queue, e)
      BY <2>1 DEF Write
    <3> HIDE DEF e
    <3>2. /\ QueueOK(queue') /\ Len(queue') > 0
          /\ Len(queue) > 0 => queue'[1] = queue[1]
          /\ Len(queue) = 0 => queue'[1] = e
          /\ \A l : Covers(queue, l) => Covers(queue', l)
      BY <1>1, <1>2, <2>1, <3>1, AppendWrite
    <3>3. \A l \in first .. first + count - 1 : Covers(queue', l)
      <4>1. QueueOK(queue) /\ Len(queue) < QueueLimit /\ e \in Writes
            /\ e.line + e.left <= NumLines + 1 /\ e.left > 0
        BY <1>1, <1>2, <2>1
      <4>2. \A l \in e.line .. e.line + e.left - 1 : Covers(Append(queue, e), l)
        BY <4>1, AppendCovers
      <4> QED
        BY <1>2, <3>1, <4>2
    <3>4. served <=> (Len(queue') > 0 /\ queue'[1].left = 0)
      BY <1>1, <1>2, <3>2
    <3> QED
      BY <3>2, <3>3, <3>4
  <2>2. CASE ~(spi /\ Len(queue) < QueueLimit)
    <3>1. queue' = queue
      BY <2>2 DEF Write
    <3> QED
      BY <1>1, <1>5, <2>2, <3>1
  <2> QED
    BY <2>1, <2>2
<1>8. \A l : Awaited(l)' <=> Covers(queue', l)
  BY <1>7 DEF QueueOK, Awaited, Covers
<1>9. LinesShown'
  <2> SUFFICES ASSUME NEW l \in Line, status'[l] = "settled", ~Covers(queue', l)
               PROVE  panel'[l] = displayBuffer'[l]
    BY <1>8 DEF LinesShown
  <2>1. l \notin asked /\ ~Covers(queue, l)
    BY <1>7
  <2>2. status[l] = "settled" /\ buf[l] = displayBuffer[l]
    BY <1>5, <2>1
  <2> QED
    BY <1>3, <1>6, <2>1, <2>2
<1>10. DisplayTypeOK'
  <2>1. QueueOK(queue)' /\ Drawn'
    BY <1>4, <1>7
  <2>2. (QueueOK(queue) => (DisplayTypeOK <=> Drawn))'
    BY TypeSplits, PTL
  <2> QED
    BY <2>1, <2>2
<1> QED
  BY <1>1, <1>7, <1>9, <1>10 DEF DisplayInv

\* Drawing.
LEMMA DrawKeepsInv ==
  ASSUME DisplayInv, NEW l \in Line, NEW p \in Picture, Draw(l, p)
  PROVE  DisplayInv'
<1>1. QueueOK(queue) /\ Drawn
  BY TypeSplits DEF DisplayInv
<1>2. Drawn' /\ QueueOK(queue') /\ queue' = queue
  BY <1>1 DEF Draw, Drawn
<1>3. \A m : Awaited(m)' <=> Awaited(m)
  BY <1>2 DEF Awaited
<1>4. LinesShown'
  <2> SUFFICES ASSUME NEW m \in Line, status'[m] = "settled", ~Awaited(m)
               PROVE  panel'[m] = displayBuffer'[m]
    BY <1>3 DEF LinesShown
  <2>1. m # l /\ status[m] = "settled"
    BY <1>1 DEF Draw, Drawn
  <2> QED
    BY <1>1, <2>1 DEF Draw, Drawn, DisplayInv, LinesShown
<1>5. (QueueOK(queue) => (DisplayTypeOK <=> Drawn))'
  BY TypeSplits, PTL
<1> QED
  BY <1>2, <1>4, <1>5 DEF Draw, DisplayInv

\* The game's calls of the driver.
LEMMA GameKeepsDisplay == ASSUME DisplayInv, Game PROVE DisplayInv'
<1>1. displayBuffer \in [Line -> Picture] /\ NumLines \in Nat /\ BarLines \in Nat
      /\ NumLines >= 1 /\ BarLines >= 1 /\ BarLines < NumLines
  BY DisplayAssumption DEF DisplayInv, DisplayTypeOK
<1>2. ASSUME NEW l \in Line, NEW p \in Picture, WriteLineCpy(l, p) PROVE DisplayInv'
  <2> DEFINE buf == [displayBuffer EXCEPT ![l] = p]
  <2>1. buf \in [Line -> Picture] /\ \A m \in Line : m \notin {l} => buf[m] = displayBuffer[m]
    BY <1>1
  <2> HIDE DEF buf
  <2>2. /\ l \in Nat /\ l >= 1 /\ l + 1 <= NumLines + 1 /\ {l} \subseteq l .. l + 1 - 1
        /\ {l} \in SUBSET Line
    BY <1>1 DEF Line
  <2>3. /\ Write(l, 1, buf, {l}) /\ displayPc = "on"
        /\ UNCHANGED <<address, panel, served, spi, displayPc>>
    BY <1>2 DEF WriteLineCpy, buf
  <2> QED
    BY <2>1, <2>2, <2>3, WriteKeepsInv
<1>3. ASSUME NEW l \in Line, WriteLine(l) PROVE DisplayInv'
  <2>1. /\ l \in Nat /\ l >= 1 /\ l + 1 <= NumLines + 1 /\ {l} \subseteq l .. l + 1 - 1
        /\ {l} \in SUBSET Line
    BY <1>1 DEF Line
  <2>2. /\ Write(l, 1, displayBuffer, {l}) /\ displayPc = "on"
        /\ UNCHANGED <<address, panel, served, spi, displayPc>>
    BY <1>3 DEF WriteLine
  <2> QED
    BY <1>1, <2>1, <2>2, WriteKeepsInv
<1>4. ASSUME NEW p \in Picture, WriteBar(p) PROVE DisplayInv'
  <2> DEFINE bar == NumLines - BarLines .. NumLines - 1
             buf == [l \in Line |-> IF l \in bar THEN p ELSE displayBuffer[l]]
             first == NumLines - BarLines
  <2>1. /\ bar \in SUBSET Line /\ first \in Nat /\ first >= 1
        /\ BarWrite.first = first /\ BarWrite.count = BarLines
        /\ first + BarLines <= NumLines + 1
        /\ bar \subseteq first .. first + BarLines - 1
    BY <1>1 DEF Line, BarWrite
  <2>2. buf \in [Line -> Picture] /\ \A m \in Line : m \notin bar => buf[m] = displayBuffer[m]
    BY <1>1
  <2>3. /\ Write(first, BarLines, buf, bar) /\ displayPc = "on"
        /\ UNCHANGED <<address, panel, served, spi, displayPc>>
    BY <1>4, <2>1 DEF WriteBar
  <2> HIDE DEF bar, buf, first
  <2> QED
    BY <1>1, <2>1, <2>2, <2>3, WriteKeepsInv
<1>5. CASE WriteScreen
  <2>1. /\ 1 + NumLines <= NumLines + 1 /\ Line \subseteq 1 .. 1 + NumLines - 1
    BY <1>1 DEF Line
  <2>2. /\ Write(1, NumLines, displayBuffer, Line) /\ displayPc = "on"
        /\ UNCHANGED <<address, panel, served, spi, displayPc>>
    BY <1>5 DEF WriteScreen
  <2> QED
    BY <1>1, <2>1, <2>2, WriteKeepsInv
<1> QED
  BY <1>2, <1>3, <1>4, <1>5, DrawKeepsInv DEF Game

\* A line is sent to the place on the panel that its address selects.
LEMMA SendKeepsInv == ASSUME DisplayInv, SendLine PROVE DisplayInv'
<1>1. /\ QueueOK(queue) /\ Drawn /\ displayPc = "on" /\ queue # <<>> /\ Head(queue).left > 0
      /\ \A l \in Line : PanelLine(address[l]) = l
  BY TypeSplits DEF DisplayInv, SendLine, Drawn, QueueOK
<1>2. Len(queue) \in Nat /\ Len(queue) > 0 /\ Head(queue) = queue[1] /\ queue[1] \in Writes
  BY <1>1 DEF QueueOK
<1>3. PICK l : l = queue[1].line
  OBVIOUS
<1>4. l \in Line
  <2>1. queue[1].line + queue[1].left <= NumLines + 1
    BY <1>1, <1>2 DEF QueueOK
  <2>2. queue[1].line \in 1..NumLines+1 /\ queue[1].left \in 0..NumLines /\ queue[1].left > 0
    BY <1>1, <1>2 DEF Writes
  <2>3. NumLines \in Nat
    BY DisplayAssumption
  <2> QED
    BY <1>3, <2>1, <2>2, <2>3 DEF Line
<1>5. panel' = [panel EXCEPT ![l] = displayBuffer[l]]
  BY <1>1, <1>2, <1>3, <1>4 DEF SendLine
<1>6. /\ QueueOK(queue') /\ Len(queue') > 0 /\ queue'[1].left = queue[1].left - 1
      /\ \A m : Covers(queue, m) => m = l \/ Covers(queue', m)
  BY <1>1, <1>2, <1>3, AdvanceWrite DEF SendLine
<1>7. served' <=> queue'[1].left = 0
  <2>1. served' <=> queue[1].left = 1
    BY <1>2 DEF SendLine
  <2>2. queue[1].left \in Nat
    BY <1>2, DisplayAssumption DEF Writes
  <2> QED
    BY <1>6, <2>1, <2>2
<1>8. Drawn'
  <2>1. panel' \in [Line -> Picture \cup {Blanked}]
    BY <1>1, <1>4, <1>5 DEF Drawn
  <2>2. served' \in BOOLEAN
    BY <1>2 DEF SendLine
  <2> QED
    BY <1>1, <2>1, <2>2 DEF SendLine, Drawn
<1>9. \A m : Awaited(m)' <=> Covers(queue', m)
  BY <1>6 DEF QueueOK, Awaited, Covers
<1>10. \A m : Awaited(m) <=> Covers(queue, m)
  BY <1>1, AwaitedIsCovered
<1>11. LinesShown'
  <2> SUFFICES ASSUME NEW m \in Line, status[m] = "settled", ~Covers(queue', m)
               PROVE  panel'[m] = displayBuffer[m]
    BY <1>9 DEF LinesShown, SendLine
  <2>1. CASE m = l
    BY <1>1, <1>4, <1>5, <2>1 DEF Drawn
  <2>2. CASE m # l
    <3>1. panel[m] = displayBuffer[m]
      BY <1>1, <1>6, <1>10, <2>2 DEF DisplayInv, LinesShown
    <3> QED
      BY <1>1, <1>5, <2>2, <3>1 DEF Drawn
  <2> QED
    BY <2>1, <2>2
<1>12. (QueueOK(queue) => (DisplayTypeOK <=> Drawn))'
  BY TypeSplits, PTL
<1> QED
  BY <1>1, <1>6, <1>7, <1>8, <1>11, <1>12 DEF SendLine, DisplayInv

\* The interrupt at the end of a write.
LEMMA IsrKeepsDisplay == ASSUME DisplayInv, DisplayIsr PROVE DisplayInv'
<1>1. /\ QueueOK(queue) /\ Drawn /\ displayPc = "on" /\ Len(queue) > 0 /\ queue[1].left = 0
      /\ Len(queue) \in Nat
  BY TypeSplits DEF DisplayInv, DisplayIsr, Drawn, QueueOK
<1>2. /\ QueueOK(queue') /\ (Len(queue') > 0 => queue'[1].left > 0)
      /\ \A m : Covers(queue, m) => Covers(queue', m)
  BY <1>1, FinishWrite DEF DisplayIsr
<1>3. Drawn' /\ served' = FALSE
  BY <1>1 DEF DisplayIsr, Drawn
<1>4. \A m : Awaited(m)' <=> Covers(queue', m)
  BY <1>2 DEF QueueOK, Awaited, Covers
<1>5. \A m : Awaited(m) <=> Covers(queue, m)
  BY <1>1, AwaitedIsCovered
<1>6. LinesShown'
  BY <1>2, <1>4, <1>5 DEF DisplayIsr, DisplayInv, LinesShown
<1>7. (QueueOK(queue) => (DisplayTypeOK <=> Drawn))'
  BY TypeSplits, PTL
<1>8. ~(Len(queue') > 0 /\ queue'[1].left = 0)
  BY <1>2
<1> QED
  BY <1>1, <1>2, <1>3, <1>6, <1>7, <1>8 DEF DisplayIsr, DisplayInv

\* Power-up, shutdown and the loss of power.
LEMMA PowerKeepsDisplay ==
  ASSUME DisplayInv, DisplayBoot \/ DisplayShutdown \/ DisplayFail \/ UNCHANGED displayVars
  PROVE  DisplayInv'
<1>1. QueueOK(queue) /\ Drawn
  BY TypeSplits DEF DisplayInv
<1>2. (QueueOK(queue) => (DisplayTypeOK <=> Drawn))'
  BY TypeSplits, PTL
<1>3. CASE DisplayBoot
  <2>1. Len(queue) = 0 /\ queue' = queue /\ ~served /\ served' = served
    BY <1>3 DEF DisplayBoot, DisplayInv
  <2>2. /\ address' \in [Line -> 0..255]
        /\ \A l \in Line : PanelLine(address'[l]) = l
    <3>1. \A l \in Line : l \in 0..255
      BY DisplayAssumption DEF Line
    <3>2. \A l \in Line : address'[l] = LineAddress(l)
      BY <1>3 DEF DisplayBoot
    <3>3. \A l \in Line : LineAddress(l) \in 0..255 /\ PanelLine(LineAddress(l)) = l
      BY <3>1, PanelReadsAddress
    <3>4. address' = [l \in Line |-> LineAddress(l)]
      BY <1>3 DEF DisplayBoot
    <3> QED
      BY <3>2, <3>3, <3>4
  <2>3. Drawn'
    BY <1>1, <1>3, <2>2 DEF DisplayBoot, Drawn
  <2>4. LinesShown'
    BY <1>3 DEF DisplayBoot, LinesShown
  <2> QED
    BY <1>1, <1>2, <2>1, <2>2, <2>3, <2>4, <1>3 DEF DisplayBoot, DisplayInv
<1>4. CASE DisplayShutdown
  <2>1. Drawn' /\ LinesShown'
    BY <1>1, <1>4 DEF DisplayShutdown, Drawn, LinesShown
  <2>2. Len(queue) = 0 /\ queue' = queue
    BY <1>4 DEF DisplayShutdown
  <2> QED
    BY <1>1, <1>2, <1>4, <2>1, <2>2 DEF DisplayShutdown, DisplayInv
<1>5. CASE DisplayFail
  <2>1. Drawn' /\ LinesShown'
    BY <1>1, <1>5 DEF DisplayFail, Drawn, LinesShown
  <2>2. queue' = <<>> /\ Len(queue') = 0 /\ QueueOK(queue')
    BY <1>5, DisplayAssumption DEF DisplayFail, QueueOK
  <2> QED
    BY <1>2, <1>5, <2>1, <2>2 DEF DisplayFail, DisplayInv
<1>6. CASE UNCHANGED displayVars
  <2>1. Drawn' /\ QueueOK(queue')
    BY <1>1, <1>6 DEF displayVars, Drawn
  <2>2. LinesShown'
    BY <1>6 DEF displayVars, DisplayInv, LinesShown, Awaited
  <2> QED
    BY <1>2, <1>6, <2>1, <2>2 DEF displayVars, DisplayInv
<1> QED
  BY <1>3, <1>4, <1>5, <1>6

\* The invariant holds whatever the fairness.
LEMMA DisplayInvariance == DisplayInit /\ [][DisplayNext]_displayVars => []DisplayInv
<1>1. DisplayInv /\ [DisplayNext]_displayVars => DisplayInv'
  BY GameKeepsDisplay, SendKeepsInv, IsrKeepsDisplay, PowerKeepsDisplay DEF DisplayNext
<1> QED
  BY <1>1, DisplayInitInv, PTL

\* Type correctness of the display driver.
THEOREM DisplayTypeCorrect == DisplaySpec => []DisplayTypeOK
<1>1. DisplayInv => DisplayTypeOK
  BY DEF DisplayInv
<1> QED
  BY <1>1, DisplayInvariance, PTL DEF DisplaySpec

\* A line whose write was accepted and sent is on the panel as it is in the buffer,
\* unless it was drawn on since, for a panel of any height and a queue of any
\* length (display.c:88, 162, 203).
THEOREM LinesAreShown == DisplaySpec => []LinesShown
<1>1. DisplayInv => LinesShown
  BY DEF DisplayInv
<1> QED
  BY <1>1, DisplayInvariance, PTL DEF DisplaySpec

-----------------------------------------------------------------------------
(* The cartridge reader: an invariant for every operation of the commands  *)
(* of a round, which are unfolded into sequences of single operations.     *)

\* The operations and the values of the registers.
Value == Address \cup Nat \cup {"in", "out", "idle", "read", "write"}
Op    == [op: {"set", "sample"}, reg: {"addressA", "addressB", "dataA", "dirA", "control"},
          v: Value]

\* One operation and then others.
Then(o, r) == <<o>> \o r

\* The operation that comes next is done and leaves the others.
LEMMA ThenIsNext ==
  ASSUME NEW o \in Op, NEW r \in Seq(Op)
  PROVE  /\ Then(o, r) \in Seq(Op) /\ Then(o, r) # <<>>
         /\ Head(Then(o, r)) = o /\ Tail(Then(o, r)) = r
<1> DEFINE s == <<o>> \o r
<1>1. <<o>> \in Seq(Op) /\ Len(<<o>>) = 1 /\ <<o>>[1] = o /\ Len(r) \in Nat
  OBVIOUS
<1>2. /\ s \in Seq(Op) /\ Len(s) = 1 + Len(r) /\ s[1] = o
      /\ \A i \in 1..Len(r) : s[i+1] = r[i]
  BY <1>1, ConcatProperties
<1> HIDE DEF s
<1>3. s # <<>> /\ Head(s) = o
  BY <1>1, <1>2
<1>4. Tail(s) \in Seq(Op) /\ Len(Tail(s)) = Len(r) /\ \A i \in 1..Len(r) : Tail(s)[i] = r[i]
  BY <1>1, <1>2, <1>3, HeadTailProperties
<1>5. Tail(s) = r
  BY <1>4, SeqEqual
<1> QED
  BY <1>2, <1>3, <1>5 DEF s, Then

\* A pair, one operation after the other.
LEMMA PairIsConcat == ASSUME NEW a \in Op, NEW b \in Op PROVE <<a, b>> = <<a>> \o <<b>>
<1> DEFINE s == <<a>> \o <<b>>
           t == <<a, b>>
           x == <<a>>
           y == <<b>>
<1>1. x \in Seq(Op) /\ y \in Seq(Op) /\ Len(x) = 1 /\ Len(y) = 1 /\ x[1] = a /\ y[1] = b
  OBVIOUS
<1>2. t \in Seq(Op) /\ Len(t) = 2 /\ t[1] = a /\ t[2] = b
  OBVIOUS
<1>3. s = x \o y
  OBVIOUS
<1> HIDE DEF s, t, x, y
<1>4. s \in Seq(Op) /\ Len(s) = 2 /\ s[1] = a /\ s[2] = b
  BY <1>1, <1>3, ConcatProperties
<1>5. s = t
  <2>1. \A i \in 1..2 : i = 1 \/ i = 2
    OBVIOUS
  <2> QED
    BY <1>2, <1>4, <2>1, SeqEqual
<1> QED
  BY <1>5 DEF s, t

\* Two, three and five operations in front of others.
LEMMA PairUnfolds ==
  ASSUME NEW a \in Op, NEW b \in Op, NEW r \in Seq(Op)
  PROVE  <<a, b>> \o r = Then(a, Then(b, r))
<1>1. <<a>> \in Seq(Op) /\ <<b>> \in Seq(Op)
  OBVIOUS
<1>2. <<a, b>> = <<a>> \o <<b>>
  BY PairIsConcat
<1>3. (<<a>> \o <<b>>) \o r = <<a>> \o (<<b>> \o r)
  BY <1>1, ConcatAssociative
<1> QED
  BY <1>2, <1>3, Zenon DEF Then

\* Three operations in front of others.
LEMMA TripleUnfolds ==
  ASSUME NEW a \in Op, NEW b \in Op, NEW c \in Op, NEW r \in Seq(Op)
  PROVE  <<a, b, c>> \o r = Then(a, Then(b, Then(c, r)))
<1>1. <<a>> \in Seq(Op) /\ <<b, c>> \in Seq(Op)
  OBVIOUS
<1>2. <<a, b, c>> = <<a>> \o <<b, c>>
  OBVIOUS
<1>3. (<<a>> \o <<b, c>>) \o r = <<a>> \o (<<b, c>> \o r)
  BY <1>1, ConcatAssociative
<1>4. <<b, c>> \o r = Then(b, Then(c, r))
  BY PairUnfolds
<1> QED
  BY <1>2, <1>3, <1>4, Zenon DEF Then

\* Five operations one after the other.
Unfolds(a, b, c, d, e, r) ==
  <<a, b, c, d, e>> \o r = Then(a, Then(b, Then(c, Then(d, Then(e, r)))))

\* Five operations in front of others.
LEMMA QuintupleUnfolds ==
  ASSUME NEW a \in Op, NEW b \in Op, NEW c \in Op, NEW d \in Op, NEW e \in Op,
         NEW r \in Seq(Op)
  PROVE  Unfolds(a, b, c, d, e, r)
<1>1. /\ <<a>> \in Seq(Op) /\ <<b>> \in Seq(Op)
      /\ <<c, d, e>> \in Seq(Op) /\ <<b, c, d, e>> \in Seq(Op)
  OBVIOUS
<1>2. <<b, c, d, e>> = <<b>> \o <<c, d, e>>
  OBVIOUS
<1>3. <<a, b, c, d, e>> = <<a>> \o <<b, c, d, e>>
  OBVIOUS
<1>4. (<<b>> \o <<c, d, e>>) \o r = <<b>> \o (<<c, d, e>> \o r)
  BY <1>1, ConcatAssociative
<1>5. (<<a>> \o <<b, c, d, e>>) \o r = <<a>> \o (<<b, c, d, e>> \o r)
  BY <1>1, ConcatAssociative
<1>6. <<c, d, e>> \o r = Then(c, Then(d, Then(e, r)))
  BY TripleUnfolds
<1> QED
  BY <1>2, <1>3, <1>4, <1>5, <1>6, Zenon DEF Then, Unfolds

\* The registers of the two expanders.
Registers == {"addressA", "addressB", "dataA", "dirA", "control"}

\* What is left of a write of d to address a, and then r.
W6(r)       == Then(Set("dirA", "in"), r)
W5(r)       == Then(Set("control", "idle"), W6(r))
W4(r)       == Then(Set("control", "write"), W5(r))
W3(r)       == Then(Set("dirA", "out"), W4(r))
W2(d, r)    == Then(Set("dataA", d), W3(r))
W1(a, d, r) == Then(Set("addressB", a), W2(d, r))
W0(a, d, r) == Then(Set("addressA", a), W1(a, d, r))

\* What is left of a read from address a, and then r.
R4(r)    == Then(Set("control", "idle"), r)
R3(r)    == Then(Sample, R4(r))
R2(r)    == Then(Set("control", "read"), R3(r))
R1(a, r) == Then(Set("addressB", a), R2(r))
R0(a, r) == Then(Set("addressA", a), R1(a, r))

\* The commands of a round, with their operands and what follows them.
Where(s) == CASE s = "mode" -> "0x6000" [] s = "high" -> "0x4000"
              [] s = "low" -> IF kind = "later" THEN "0x2100" ELSE "0x2000"
Datum(s) == CASE s = "mode" -> 0 [] s = "high" -> bank \div LowBanks
              [] s = "low" -> IF kind = "later" THEN bank ELSE bank % LowBanks
AfterLow(b)  == IF b > 1 THEN R0("half1", <<>>) ELSE R0("half0", R0("half1", <<>>))
AfterHigh(b) == W0("0x2000", b % LowBanks, AfterLow(b))
AfterMode(b) == W0("0x4000", b \div LowBanks, AfterHigh(b))
Rest(s) == CASE s = "mode" -> AfterMode(bank) [] s = "high" -> AfterHigh(bank)
             [] s = "low" -> AfterLow(bank)

\* The bank registers of the cartridge hold the bank's number.
HighLoaded == kind = "mbc1" => highReg = bank \div LowBanks
LowLoaded  == lowReg = IF kind = "later" THEN bank ELSE bank % LowBanks

\* What the bank registers hold before a write, and when it is over.
Ready(s)  == s = "low" => HighLoaded
Loaded(s) == (s \in {"high", "low"} => HighLoaded) /\ (s = "low" => LowLoaded)

\* Neither strobe is low and the expander does not drive the data lines.
Idle == expander.control = "idle" /\ expander.dirA = "in"

\* A write is at one of its operations: what has been set so far, and what is left.
WriteAt(s) ==
  LET a == Where(s)
      d == Datum(s)
      r == Rest(s)
  IN /\ bank >= 1 /\ (s \in {"mode", "high"} => kind = "mbc1")
     /\ Len(image) = (IF bank = 1 THEN 0 ELSE bank)
     /\ \/ todo = W0(a, d, r) /\ Idle /\ Ready(s)
        \/ todo = W1(a, d, r) /\ Idle /\ Ready(s) /\ expander.addressA = a
        \/ /\ todo = W2(d, r) /\ Idle /\ Ready(s)
           /\ expander.addressA = a /\ expander.addressB = a
        \/ /\ todo = W3(r) /\ Idle /\ Ready(s)
           /\ expander.addressA = a /\ expander.addressB = a /\ expander.dataA = d
        \/ /\ todo = W4(r) /\ Ready(s) /\ expander.control = "idle" /\ expander.dirA = "out"
           /\ expander.addressA = a /\ expander.addressB = a /\ expander.dataA = d
        \/ /\ todo = W5(r) /\ Ready(s) /\ expander.control = "write" /\ expander.dirA = "out"
           /\ expander.addressA = a /\ expander.addressB = a /\ expander.dataA = d
        \/ todo = W6(r) /\ Loaded(s) /\ expander.control = "idle" /\ expander.dirA = "out"

\* The reads of a round and of the configuration, with what follows them and how
\* long the image is before and after.
Half(s) == IF s = "half1" THEN "half1" ELSE "half0"
Follows(s) == IF s = "half0" THEN R0("half1", <<>>) ELSE <<>>
Before(s) == IF s = "half1" THEN bank ELSE 0
After(s)  == CASE s = "config" -> 0 [] s = "half0" -> 1 [] s = "half1" -> bank + 1

\* A read is at one of its operations.
ReadAt(s) ==
  LET a == Half(s)
      r == Follows(s)
  IN /\ (s = "config" => bank = 0) /\ (s = "half0" => bank = 1) /\ (s = "half1" => bank >= 1)
     /\ s # "config" => HighLoaded /\ LowLoaded
     /\ expander.dirA = "in"
     /\ \/ todo = R0(a, r) /\ expander.control = "idle" /\ Len(image) = Before(s)
        \/ /\ todo = R1(a, r) /\ expander.control = "idle" /\ Len(image) = Before(s)
           /\ expander.addressA = a
        \/ /\ todo = R2(r) /\ expander.control = "idle" /\ Len(image) = Before(s)
           /\ expander.addressA = a /\ expander.addressB = a
        \/ /\ todo = R3(r) /\ expander.control = "read" /\ Len(image) = Before(s)
           /\ expander.addressA = a /\ expander.addressB = a
        \/ /\ todo = R4(r) /\ expander.control = "read" /\ Len(image) = After(s)
           /\ expander.addressA = a /\ expander.addressB = a

\* The configuration is at one of its own operations, and a round is over.
Configuring ==
  /\ bank = 0 /\ Idle /\ Len(image) = 0
  /\ \/ todo = Then(Set("dirA", "in"), Then(Set("control", "idle"), R0("half0", <<>>)))
     \/ todo = Then(Set("control", "idle"), R0("half0", <<>>))

Done == todo = <<>> /\ Idle /\ Len(image) = (IF bank = 0 THEN 0 ELSE bank + 1)

Writing == \E s \in {"mode", "high", "low"} : WriteAt(s)
Reading == \E s \in {"config", "half0", "half1"} : ReadAt(s)

\* Types, the expander as a function of its registers.
BusTypes ==
  /\ kind \in Kind /\ banks \in 2..TopBank /\ bank \in 0..banks-1
  /\ expander \in [Registers -> Value]
  /\ expander.addressA \in Address /\ expander.addressB \in Address
  /\ expander.dataA \in 0..TopBank /\ expander.dirA \in {"in", "out"}
  /\ expander.control \in {"idle", "read", "write"}
  /\ lowReg \in 0..TopBank /\ highReg \in 0..TopBank
  /\ image \in Seq(Nat)

\* The expander, the cartridge and the image are what the operation that comes next
\* requires.
BusInv ==
  BusTypes /\ ImageInOrder /\ (Configuring \/ Writing \/ Reading \/ Done)

-----------------------------------------------------------------------------

\* A bank's number is made of the two that the registers take.
LEMMA BanksDivide ==
  ASSUME NEW b \in Nat, NEW q, q = b \div LowBanks, NEW m, m = b % LowBanks
  PROVE  /\ q \in 0..b /\ m \in 0..b /\ LowBanks \in Nat /\ m < LowBanks
         /\ b = q * LowBanks + m
<1>1. LowBanks \in Nat /\ LowBanks > 0
  BY BusAssumption
<1>2. q \in Nat /\ q <= b /\ m \in Nat /\ m <= b /\ m < LowBanks
  BY <1>1
<1>3. b = q * LowBanks + m
  BY <1>1, <1>2
<1> QED
  BY <1>1, <1>2, <1>3

\* The operations on registers.
LEMMA OpsTyped ==
  /\ \A g \in Registers, v \in Value : Set(g, v) \in Op
  /\ Sample \in Op
  BY DEF Set, Sample, Op, Registers, Value

\* What is left of a write is a sequence of operations.
LEMMA WriteTyped ==
  ASSUME NEW a \in Value, NEW d \in Value, NEW r \in Seq(Op)
  PROVE  /\ W6(r) \in Seq(Op) /\ W5(r) \in Seq(Op) /\ W4(r) \in Seq(Op) /\ W3(r) \in Seq(Op)
         /\ W2(d, r) \in Seq(Op) /\ W1(a, d, r) \in Seq(Op) /\ W0(a, d, r) \in Seq(Op)
<1>1. /\ Set("dirA", "in") \in Op /\ Set("control", "idle") \in Op
      /\ Set("control", "write") \in Op /\ Set("dirA", "out") \in Op
      /\ Set("dataA", d) \in Op /\ Set("addressB", a) \in Op /\ Set("addressA", a) \in Op
  BY OpsTyped DEF Registers, Value
<1>2. \A o \in Op, q \in Seq(Op) : Then(o, q) \in Seq(Op)
  BY ThenIsNext
<1>3. W6(r) \in Seq(Op)
  BY <1>1, <1>2, Zenon DEF W6
<1>4. W5(r) \in Seq(Op)
  BY <1>1, <1>2, <1>3, Zenon DEF W5
<1>5. W4(r) \in Seq(Op)
  BY <1>1, <1>2, <1>4, Zenon DEF W4
<1>6. W3(r) \in Seq(Op)
  BY <1>1, <1>2, <1>5, Zenon DEF W3
<1>7. W2(d, r) \in Seq(Op)
  BY <1>1, <1>2, <1>6, Zenon DEF W2
<1>8. W1(a, d, r) \in Seq(Op)
  BY <1>1, <1>2, <1>7, Zenon DEF W1
<1>9. W0(a, d, r) \in Seq(Op)
  BY <1>1, <1>2, <1>8, Zenon DEF W0
<1> QED
  BY <1>3, <1>4, <1>5, <1>6, <1>7, <1>8, <1>9

\* What is left of a read is one as well.
LEMMA ReadTyped ==
  ASSUME NEW a \in Address, NEW r \in Seq(Op)
  PROVE  /\ R4(r) \in Seq(Op) /\ R3(r) \in Seq(Op) /\ R2(r) \in Seq(Op)
         /\ R1(a, r) \in Seq(Op) /\ R0(a, r) \in Seq(Op)
<1>1. /\ Set("control", "idle") \in Op /\ Set("control", "read") \in Op /\ Sample \in Op
      /\ Set("addressB", a) \in Op /\ Set("addressA", a) \in Op
  BY OpsTyped DEF Registers, Value
<1>2. \A o \in Op, q \in Seq(Op) : Then(o, q) \in Seq(Op)
  BY ThenIsNext
<1>3. R4(r) \in Seq(Op)
  BY <1>1, <1>2, Zenon DEF R4
<1>4. R3(r) \in Seq(Op)
  BY <1>1, <1>2, <1>3, Zenon DEF R3
<1>5. R2(r) \in Seq(Op)
  BY <1>1, <1>2, <1>4, Zenon DEF R2
<1>6. R1(a, r) \in Seq(Op)
  BY <1>1, <1>2, <1>5, Zenon DEF R1
<1>7. R0(a, r) \in Seq(Op)
  BY <1>1, <1>2, <1>6, Zenon DEF R0
<1> QED
  BY <1>3, <1>4, <1>5, <1>6, <1>7

\* The commands as they are written in the code.
LEMMA WriteUnfolds ==
  ASSUME NEW a \in Value, NEW d \in Value, NEW r \in Seq(Op)
  PROVE  WriteData(a, d) \in Seq(Op) /\ WriteData(a, d) \o r = W0(a, d, r)
<1>1. /\ Set("dirA", "in") \in Op /\ Set("control", "idle") \in Op
      /\ Set("control", "write") \in Op /\ Set("dirA", "out") \in Op
      /\ Set("dataA", d) \in Op /\ Set("addressB", a) \in Op /\ Set("addressA", a) \in Op
  BY OpsTyped DEF Registers, Value
<1> DEFINE x == <<Set("dataA", d), Set("dirA", "out"), Set("control", "write"),
                  Set("control", "idle"), Set("dirA", "in")>>
<1>2. x \in Seq(Op) /\ SetAddress(a) \in Seq(Op)
  <2>1. \A o1, o2, o3, o4, o5 \in Op : <<o1, o2>> \in Seq(Op) /\ <<o1, o2, o3, o4, o5>> \in Seq(Op)
    OBVIOUS
  <2> QED
    BY <1>1, <2>1, Zenon DEF SetAddress
<1>3. x \o r = W2(d, r)
  <2>1. x \o r = Then(Set("dataA", d), Then(Set("dirA", "out"), Then(Set("control", "write"),
                  Then(Set("control", "idle"), Then(Set("dirA", "in"), r)))))
    <3>1. Unfolds(Set("dataA", d), Set("dirA", "out"), Set("control", "write"),
                  Set("control", "idle"), Set("dirA", "in"), r)
      BY <1>1, QuintupleUnfolds
    <3> QED
      BY <3>1, Zenon DEF Unfolds
  <2> QED
    BY <2>1, Zenon DEF W2, W3, W4, W5, W6
<1>4. W2(d, r) \in Seq(Op)
  BY WriteTyped
<1>5. SetAddress(a) \o W2(d, r) = W0(a, d, r)
  <2>1. <<Set("addressA", a), Set("addressB", a)>> \o W2(d, r)
          = Then(Set("addressA", a), Then(Set("addressB", a), W2(d, r)))
    BY <1>1, <1>4, PairUnfolds, Zenon
  <2> QED
    BY <2>1, Zenon DEF SetAddress, W0, W1
<1>6. WriteData(a, d) = SetAddress(a) \o x
  BY DEF WriteData
<1> HIDE DEF x
<1>7. (SetAddress(a) \o x) \o r = SetAddress(a) \o (x \o r)
  BY <1>2, ConcatAssociative
<1>8. SetAddress(a) \o x \in Seq(Op)
  BY <1>2, ConcatProperties
<1> QED
  BY <1>3, <1>5, <1>6, <1>7, <1>8

\* A read and what follows it.
LEMMA ReadUnfolds ==
  ASSUME NEW a \in Address, NEW r \in Seq(Op)
  PROVE  ReadData(a) \in Seq(Op) /\ ReadData(a) \o r = R0(a, r)
<1>1. /\ Set("control", "idle") \in Op /\ Set("control", "read") \in Op /\ Sample \in Op
      /\ Set("addressB", a) \in Op /\ Set("addressA", a) \in Op
  BY OpsTyped DEF Registers, Value
<1> DEFINE x == <<Set("control", "read"), Sample, Set("control", "idle")>>
<1>2. x \in Seq(Op) /\ SetAddress(a) \in Seq(Op)
  <2>1. \A o1, o2, o3 \in Op : <<o1, o2>> \in Seq(Op) /\ <<o1, o2, o3>> \in Seq(Op)
    OBVIOUS
  <2> QED
    BY <1>1, <2>1, Zenon DEF SetAddress
<1>3. x \o r = R2(r)
  <2>1. x \o r = Then(Set("control", "read"), Then(Sample, Then(Set("control", "idle"), r)))
    BY <1>1, TripleUnfolds, ZenonT(40)
  <2> QED
    BY <2>1, Zenon DEF R2, R3, R4
<1>4. R2(r) \in Seq(Op)
  BY ReadTyped
<1>5. SetAddress(a) \o R2(r) = R0(a, r)
  <2>1. <<Set("addressA", a), Set("addressB", a)>> \o R2(r)
          = Then(Set("addressA", a), Then(Set("addressB", a), R2(r)))
    BY <1>1, <1>4, PairUnfolds, Zenon
  <2> QED
    BY <2>1, Zenon DEF SetAddress, R0, R1
<1>6. ReadData(a) = SetAddress(a) \o x
  BY DEF ReadData
<1> HIDE DEF x
<1>7. (SetAddress(a) \o x) \o r = SetAddress(a) \o (x \o r)
  BY <1>2, ConcatAssociative
<1>8. SetAddress(a) \o x \in Seq(Op)
  BY <1>2, ConcatProperties
<1> QED
  BY <1>3, <1>5, <1>6, <1>7, <1>8

\* Operations may be grouped in any way.
LEMMA OpsAssociate ==
  ASSUME NEW s \in Seq(Op), NEW t \in Seq(Op), NEW u \in Seq(Op)
  PROVE  (s \o t) \o u = s \o (t \o u)
  BY ConcatAssociative

\* What follows a command of a round.
LEMMA Remainders ==
  ASSUME NEW b \in Nat
  PROVE  /\ R0("half1", <<>>) \in Seq(Op) /\ AfterLow(b) \in Seq(Op)
         /\ AfterHigh(b) \in Seq(Op) /\ AfterMode(b) \in Seq(Op)
         /\ b \in Value /\ b \div LowBanks \in Value /\ b % LowBanks \in Value /\ 0 \in Value
<1>1. <<>> \in Seq(Op)
  OBVIOUS
<1>2. "half0" \in Address /\ "half1" \in Address
  BY DEF Address
<1>3. b \in Value /\ b \div LowBanks \in Value /\ b % LowBanks \in Value /\ 0 \in Value
  BY BanksDivide DEF Value
<1>4. R0("half1", <<>>) \in Seq(Op)
  BY <1>1, <1>2, ReadTyped
<1>5. R0("half0", R0("half1", <<>>)) \in Seq(Op)
  BY <1>2, <1>4, ReadTyped
<1>6. AfterLow(b) \in Seq(Op)
  BY <1>4, <1>5, Zenon DEF AfterLow
<1>7. "0x2000" \in Value /\ "0x4000" \in Value
  BY DEF Value, Address
<1>8. AfterHigh(b) \in Seq(Op)
  BY <1>3, <1>6, <1>7, WriteTyped DEF AfterHigh
<1>9. AfterMode(b) \in Seq(Op)
  BY <1>3, <1>7, <1>8, WriteTyped DEF AfterMode
<1> QED
  BY <1>3, <1>4, <1>6, <1>8, <1>9

\* The one or two reads of a round.
LEMMA ReadsUnfold ==
  ASSUME NEW b \in Nat
  PROVE  /\ ReadData("half1") \in Seq(Op)
         /\ (IF b > 1 THEN <<>> ELSE ReadData("half0")) \in Seq(Op)
         /\ (IF b > 1 THEN <<>> ELSE ReadData("half0")) \o ReadData("half1") = AfterLow(b)
<1>1. <<>> \in Seq(Op)
  OBVIOUS
<1>2. "half0" \in Address /\ "half1" \in Address
  BY DEF Address
<1>3. ReadData("half1") \in Seq(Op) /\ ReadData("half1") \o <<>> = R0("half1", <<>>)
  BY <1>1, <1>2, ReadUnfolds
<1>4. ReadData("half1") = R0("half1", <<>>) /\ <<>> \o ReadData("half1") = ReadData("half1")
  BY <1>3, ConcatEmptySeq
<1>5. ReadData("half0") \in Seq(Op) /\ ReadData("half0") \o ReadData("half1") = R0("half0", R0("half1", <<>>))
  BY <1>2, <1>3, <1>4, ReadUnfolds
<1>6. CASE b > 1
  BY <1>1, <1>3, <1>4, <1>6 DEF AfterLow
<1>7. CASE ~(b > 1)
  BY <1>3, <1>5, <1>7 DEF AfterLow
<1> QED
  BY <1>6, <1>7

\* A round, as a sequence of operations.
LEMMA RoundUnfolds ==
  ASSUME NEW k \in Kind, NEW b \in Nat
  PROVE  CopyBank(k, b) = IF k = "later" THEN W0("0x2100", b, AfterLow(b))
                                         ELSE W0("0x6000", 0, AfterMode(b))
<1> DEFINE x == IF b > 1 THEN <<>> ELSE ReadData("half0")
           y == ReadData("half1")
<1>1. x \in Seq(Op) /\ y \in Seq(Op) /\ x \o y = AfterLow(b)
  BY ReadsUnfold
<1>2. CopyBank(k, b) = (SwitchBank(k, b) \o x) \o y
  BY DEF CopyBank
<1> HIDE DEF x, y
<1>3. /\ "0x2100" \in Value /\ "0x6000" \in Value /\ "0x4000" \in Value /\ "0x2000" \in Value
  BY DEF Value, Address
<1>4. ASSUME NEW s \in Seq(Op) PROVE (s \o x) \o y = s \o AfterLow(b)
  <2>1. (s \o x) \o y = s \o (x \o y)
    BY <1>1, OpsAssociate, Zenon
  <2> QED
    BY <1>1, <2>1, Zenon
<1>5. CASE k = "later"
  <2>1. SwitchBank(k, b) = WriteData("0x2100", b)
    BY <1>5 DEF SwitchBank
  <2>2. WriteData("0x2100", b) \in Seq(Op) /\ WriteData("0x2100", b) \o AfterLow(b) = W0("0x2100", b, AfterLow(b))
    BY <1>3, Remainders, WriteUnfolds
  <2> QED
    BY <1>2, <1>4, <1>5, <2>1, <2>2
<1>6. CASE k # "later"
  <2> DEFINE u == WriteData("0x6000", 0)
             v == WriteData("0x4000", b \div LowBanks)
             w == WriteData("0x2000", b % LowBanks)
             t == AfterLow(b)
  <2>1. SwitchBank(k, b) = (u \o v) \o w
    BY <1>6 DEF SwitchBank
  <2>2. w \in Seq(Op) /\ w \o AfterLow(b) = AfterHigh(b)
    BY <1>3, Remainders, WriteUnfolds DEF AfterHigh
  <2>3. v \in Seq(Op) /\ v \o AfterHigh(b) = AfterMode(b)
    BY <1>3, Remainders, WriteUnfolds DEF AfterMode
  <2>4. u \in Seq(Op) /\ u \o AfterMode(b) = W0("0x6000", 0, AfterMode(b))
    BY <1>3, Remainders, WriteUnfolds
  <2>5. AfterLow(b) \in Seq(Op) /\ AfterHigh(b) \in Seq(Op)
    BY Remainders
  <2> HIDE DEF u, v, w
  <2>6. u \o v \in Seq(Op) /\ (u \o v) \o w \in Seq(Op)
    BY <2>2, <2>3, <2>4, ConcatProperties
  <2>7. ((u \o v) \o w) \o AfterLow(b) = (u \o v) \o (w \o AfterLow(b))
    BY <2>2, <2>5, <2>6, OpsAssociate, Zenon
  <2>8. (u \o v) \o AfterHigh(b) = u \o (v \o AfterHigh(b))
    BY <2>3, <2>4, <2>5, OpsAssociate, Zenon
  <2> QED
    BY <1>2, <1>4, <1>6, <2>1, <2>2, <2>3, <2>4, <2>6, <2>7, <2>8
<1> QED
  BY <1>5, <1>6

\* The configuration, as a sequence of operations.
LEMMA ConfigUnfolds ==
  ConfigOps = Then(Set("dirA", "in"), Then(Set("control", "idle"), R0("half0", <<>>)))
<1>1. <<>> \in Seq(Op) /\ "half0" \in Address
  BY DEF Address
<1>2. ReadData("half0") \in Seq(Op) /\ ReadData("half0") \o <<>> = R0("half0", <<>>)
  BY <1>1, ReadUnfolds
<1>3. ReadData("half0") = R0("half0", <<>>)
  BY <1>2, ConcatEmptySeq
<1>4. Set("dirA", "in") \in Op /\ Set("control", "idle") \in Op
  BY OpsTyped DEF Registers, Value
<1> QED
  BY <1>2, <1>3, <1>4, PairUnfolds DEF ConfigOps

-----------------------------------------------------------------------------

\* What may be written to a register.
Legal(g, v) ==
  /\ g \in {"addressA", "addressB"} => v \in Address
  /\ g = "dataA" => v \in 0..TopBank
  /\ g = "dirA" => v \in {"in", "out"}
  /\ g = "control" => v \in {"idle", "read", "write"}

\* The only step when the next operation writes a register.
LEMMA SetHappens ==
  ASSUME BusTypes, BusNext, NEW g \in Registers, NEW v \in Value, NEW r \in Seq(Op),
         todo = Then(Set(g, v), r), Legal(g, v)
  PROVE  /\ BusTypes' /\ todo' = r /\ UNCHANGED <<kind, banks, bank, image>>
         /\ expander' = [expander EXCEPT ![g] = v]
         /\ expander.control # "write" \/ g # "control" => UNCHANGED <<lowReg, highReg>>
         /\ expander.control = "write" /\ g = "control" /\ v # "write" => Latch
<1>1. todo # <<>> /\ Head(todo) = Set(g, v) /\ Tail(todo) = r
  BY OpsTyped, ThenIsNext
<1>2. Head(todo).op = "set" /\ Head(todo).reg = g /\ Head(todo).v = v
  BY <1>1 DEF Set
<1>3. I2cWrite
  BY <1>1, <1>2 DEF BusNext, I2cRead, NextBank, BusDone
<1>4. /\ expander' = [expander EXCEPT ![g] = v] /\ todo' = r
      /\ UNCHANGED <<kind, banks, bank, image>>
      /\ IF expander.control = "write" /\ expander'.control # "write"
         THEN Latch ELSE UNCHANGED <<lowReg, highReg>>
  BY <1>1, <1>2, <1>3 DEF I2cWrite
<1>5. /\ expander' \in [Registers -> Value] /\ expander'[g] = v
      /\ \A h \in Registers : h # g => expander'[h] = expander[h]
  BY <1>4 DEF BusTypes
<1>6. /\ expander.control # "write" \/ g # "control" => UNCHANGED <<lowReg, highReg>>
      /\ expander.control = "write" /\ g = "control" /\ v # "write" => Latch
  BY <1>4, <1>5 DEF Registers
<1>7. lowReg' \in 0..TopBank /\ highReg' \in 0..TopBank
  BY <1>4 DEF BusTypes, Latch
<1>8. /\ expander'.addressA \in Address /\ expander'.addressB \in Address
      /\ expander'.dataA \in 0..TopBank /\ expander'.dirA \in {"in", "out"}
      /\ expander'.control \in {"idle", "read", "write"}
  BY <1>5 DEF BusTypes, Legal, Registers
<1> QED
  BY <1>4, <1>5, <1>6, <1>7, <1>8 DEF BusTypes

\* The only step when the next operation reads the data lines.
LEMMA SampleHappens ==
  ASSUME BusNext, NEW a, NEW r \in Seq(Op), todo = Then(Sample, r),
         expander.control = "read", expander.addressA = a, expander.addressB = a
  PROVE  /\ todo' = r /\ UNCHANGED <<kind, banks, expander, bank, lowReg, highReg>>
         /\ image' = IF bank = 0 THEN image ELSE Append(image, Shown(a))
<1>1. todo # <<>> /\ Head(todo) = Sample /\ Tail(todo) = r
  BY OpsTyped, ThenIsNext
<1>2. Head(todo).op = "sample"
  BY <1>1 DEF Sample
<1>3. I2cRead
  BY <1>1, <1>2 DEF BusNext, I2cWrite, NextBank, BusDone
<1> QED
  BY <1>1, <1>2, <1>3 DEF I2cRead, DataLines

\* The operands of a write.
LEMMA OperandsTyped ==
  ASSUME BusTypes, NEW s \in {"mode", "high", "low"}
  PROVE  /\ Where(s) \in Address \ {"half0", "half1", "none"} /\ Where(s) \in Value
         /\ Datum(s) \in 0..TopBank /\ Datum(s) \in Value /\ Rest(s) \in Seq(Op)
<1>1. bank \in Nat /\ bank <= TopBank /\ TopBank \in Nat
  BY BusAssumption DEF BusTypes
<1>2. Where(s) \in Address \ {"half0", "half1", "none"}
  BY DEF Where, Address
<1>3. bank \div LowBanks \in 0..bank /\ bank % LowBanks \in 0..bank
  BY <1>1, BanksDivide
<1>4. Datum(s) \in 0..TopBank
  BY <1>1, <1>3 DEF Datum
<1>5. Rest(s) \in Seq(Op)
  BY <1>1, Remainders DEF Rest
<1> QED
  BY <1>1, <1>2, <1>4, <1>5 DEF Value

\* What a command is depends on the cartridge and the bank only.
LEMMA OperandsStay ==
  ASSUME UNCHANGED <<kind, bank>>, NEW s
  PROVE  Where(s)' = Where(s) /\ Datum(s)' = Datum(s) /\ Rest(s)' = Rest(s)
         /\ Before(s)' = Before(s) /\ After(s)' = After(s)
  BY DEF Where, Datum, Rest, Before, After

\* The image is as it was.
LEMMA ImageStays ==
  ASSUME ImageInOrder, UNCHANGED <<kind, image>>
  PROVE  ImageInOrder'
  BY DEF ImageInOrder

\* A write takes its next step: the next operation of the same write, or the first
\* of what follows it.
LEMMA WriteAdvances ==
  ASSUME BusInv, BusNext, NEW s \in {"mode", "high", "low"}, WriteAt(s)
  PROVE  BusInv'
<1> DEFINE a == Where(s)
           d == Datum(s)
           r == Rest(s)
<1>1. /\ BusTypes /\ ImageInOrder /\ bank >= 1 /\ (s \in {"mode", "high"} => kind = "mbc1")
      /\ Len(image) = (IF bank = 1 THEN 0 ELSE bank) /\ bank \in Nat
      /\ expander \in [Registers -> Value]
  BY DEF BusInv, WriteAt, BusTypes
<1>2. /\ a \in Address \ {"half0", "half1", "none"} /\ a \in Value
      /\ d \in 0..TopBank /\ d \in Value /\ r \in Seq(Op)
  BY <1>1, OperandsTyped
<1>3. /\ W6(r) \in Seq(Op) /\ W5(r) \in Seq(Op) /\ W4(r) \in Seq(Op) /\ W3(r) \in Seq(Op)
      /\ W2(d, r) \in Seq(Op) /\ W1(a, d, r) \in Seq(Op)
  BY <1>2, WriteTyped
<1>4. {"in", "out", "idle", "read", "write"} \subseteq Value
  BY DEF Value
<1>5. ASSUME BusTypes', UNCHANGED <<kind, banks, bank, image>>, WriteAt(s)'
      PROVE  BusInv'
  BY <1>1, <1>5, ImageStays DEF BusInv, Writing
<1>6. ASSUME UNCHANGED <<kind, bank>> PROVE Where(s)' = a /\ Datum(s)' = d /\ Rest(s)' = r
  BY <1>6, OperandsStay
<1>7. CASE todo = W0(a, d, r) /\ Idle /\ Ready(s)
  <2>1. todo = Then(Set("addressA", a), W1(a, d, r)) /\ Legal("addressA", a)
    BY <1>2, <1>7 DEF W0, Legal
  <2> HIDE DEF a, d, r
  <2>2. /\ BusTypes' /\ todo' = W1(a, d, r) /\ UNCHANGED <<kind, banks, bank, image>>
        /\ expander' = [expander EXCEPT !["addressA"] = a] /\ UNCHANGED <<lowReg, highReg>>
    BY <1>1, <1>2, <1>3, <2>1, SetHappens DEF Registers
  <2>3. Idle' /\ Ready(s)' /\ expander'.addressA = a
    BY <1>1, <1>7, <2>2 DEF Idle, Ready, HighLoaded, Registers
  <2>4. WriteAt(s)'
    BY <1>1, <1>6, <2>2, <2>3 DEF WriteAt
  <2> QED
    BY <1>5, <2>2, <2>4
<1>8. CASE todo = W1(a, d, r) /\ Idle /\ Ready(s) /\ expander.addressA = a
  <2>1. todo = Then(Set("addressB", a), W2(d, r)) /\ Legal("addressB", a)
    BY <1>2, <1>8 DEF W1, Legal
  <2> HIDE DEF a, d, r
  <2>2. /\ BusTypes' /\ todo' = W2(d, r) /\ UNCHANGED <<kind, banks, bank, image>>
        /\ expander' = [expander EXCEPT !["addressB"] = a] /\ UNCHANGED <<lowReg, highReg>>
    BY <1>1, <1>2, <1>3, <2>1, SetHappens DEF Registers
  <2>3. Idle' /\ Ready(s)' /\ expander'.addressA = a /\ expander'.addressB = a
    BY <1>1, <1>8, <2>2 DEF Idle, Ready, HighLoaded, Registers
  <2>4. WriteAt(s)'
    BY <1>1, <1>6, <2>2, <2>3 DEF WriteAt
  <2> QED
    BY <1>5, <2>2, <2>4
<1>9. CASE /\ todo = W2(d, r) /\ Idle /\ Ready(s)
           /\ expander.addressA = a /\ expander.addressB = a
  <2>1. todo = Then(Set("dataA", d), W3(r)) /\ Legal("dataA", d)
    BY <1>2, <1>9 DEF W2, Legal
  <2> HIDE DEF a, d, r
  <2>2. /\ BusTypes' /\ todo' = W3(r) /\ UNCHANGED <<kind, banks, bank, image>>
        /\ expander' = [expander EXCEPT !["dataA"] = d] /\ UNCHANGED <<lowReg, highReg>>
    BY <1>1, <1>2, <1>3, <2>1, SetHappens DEF Registers
  <2>3. /\ Idle' /\ Ready(s)' /\ expander'.addressA = a /\ expander'.addressB = a
        /\ expander'.dataA = d
    BY <1>1, <1>9, <2>2 DEF Idle, Ready, HighLoaded, Registers
  <2>4. WriteAt(s)'
    BY <1>1, <1>6, <2>2, <2>3 DEF WriteAt
  <2> QED
    BY <1>5, <2>2, <2>4
<1>10. CASE /\ todo = W3(r) /\ Idle /\ Ready(s)
            /\ expander.addressA = a /\ expander.addressB = a /\ expander.dataA = d
  <2>1. todo = Then(Set("dirA", "out"), W4(r)) /\ Legal("dirA", "out")
    BY <1>2, <1>10 DEF W3, Legal
  <2> HIDE DEF a, d, r
  <2>2. /\ BusTypes' /\ todo' = W4(r) /\ UNCHANGED <<kind, banks, bank, image>>
        /\ expander' = [expander EXCEPT !["dirA"] = "out"] /\ UNCHANGED <<lowReg, highReg>>
    BY <1>1, <1>3, <1>4, <2>1, SetHappens DEF Registers
  <2>3. /\ expander'.control = "idle" /\ expander'.dirA = "out" /\ Ready(s)'
        /\ expander'.addressA = a /\ expander'.addressB = a /\ expander'.dataA = d
    BY <1>1, <1>10, <2>2 DEF Idle, Ready, HighLoaded, Registers
  <2>4. WriteAt(s)'
    BY <1>1, <1>6, <2>2, <2>3 DEF WriteAt
  <2> QED
    BY <1>5, <2>2, <2>4
<1>11. CASE /\ todo = W4(r) /\ Ready(s) /\ expander.control = "idle" /\ expander.dirA = "out"
            /\ expander.addressA = a /\ expander.addressB = a /\ expander.dataA = d
  <2>1. todo = Then(Set("control", "write"), W5(r)) /\ Legal("control", "write")
    BY <1>2, <1>11 DEF W4, Legal
  <2> HIDE DEF a, d, r
  <2>2. /\ BusTypes' /\ todo' = W5(r) /\ UNCHANGED <<kind, banks, bank, image>>
        /\ expander' = [expander EXCEPT !["control"] = "write"] /\ UNCHANGED <<lowReg, highReg>>
    BY <1>1, <1>3, <1>4, <1>11, <2>1, SetHappens DEF Registers
  <2>3. /\ expander'.control = "write" /\ expander'.dirA = "out" /\ Ready(s)'
        /\ expander'.addressA = a /\ expander'.addressB = a /\ expander'.dataA = d
    BY <1>1, <1>11, <2>2 DEF Ready, HighLoaded, Registers
  <2>4. WriteAt(s)'
    BY <1>1, <1>6, <2>2, <2>3 DEF WriteAt
  <2> QED
    BY <1>5, <2>2, <2>4
<1>12. CASE /\ todo = W5(r) /\ Ready(s) /\ expander.control = "write" /\ expander.dirA = "out"
            /\ expander.addressA = a /\ expander.addressB = a /\ expander.dataA = d
  <2>1. todo = Then(Set("control", "idle"), W6(r)) /\ Legal("control", "idle")
    BY <1>2, <1>12 DEF W5, Legal
  <2>2. /\ BusTypes' /\ todo' = W6(r) /\ UNCHANGED <<kind, banks, bank, image>>
        /\ expander' = [expander EXCEPT !["control"] = "idle"] /\ Latch
    BY <1>1, <1>3, <1>4, <1>12, <2>1, SetHappens DEF Registers
  <2>3. expander'.control = "idle" /\ expander'.dirA = "out"
    BY <1>1, <1>12, <2>2 DEF Registers
  <2>4. Loaded(s)'
    <3>1. /\ lowReg' = IF a \in {"0x2000", "0x2100"} THEN d ELSE lowReg
          /\ highReg' = IF a = "0x4000" THEN d ELSE highReg
      BY <1>12, <2>2 DEF Latch
    <3>2. s = "high" => a = "0x4000" /\ d = bank \div LowBanks
      BY DEF Where, Datum
    <3>3. s = "low" => /\ a \in {"0x2000", "0x2100"}
                       /\ d = IF kind = "later" THEN bank ELSE bank % LowBanks
      BY DEF Where, Datum
    <3>4. s = "low" => HighLoaded
      BY <1>12 DEF Ready
    <3> HIDE DEF a, d
    <3> QED
      BY <2>2, <3>1, <3>2, <3>3, <3>4 DEF Loaded, HighLoaded, LowLoaded
  <2> HIDE DEF a, d, r
  <2>5. WriteAt(s)'
    BY <1>1, <1>6, <2>2, <2>3, <2>4 DEF WriteAt
  <2> QED
    BY <1>5, <2>2, <2>5
<1>13. CASE todo = W6(r) /\ Loaded(s) /\ expander.control = "idle" /\ expander.dirA = "out"
  <2>1. todo = Then(Set("dirA", "in"), r) /\ Legal("dirA", "in")
    BY <1>2, <1>13 DEF W6, Legal
  <2>2. /\ BusTypes' /\ todo' = r /\ UNCHANGED <<kind, banks, bank, image>>
        /\ expander' = [expander EXCEPT !["dirA"] = "in"] /\ UNCHANGED <<lowReg, highReg>>
    BY <1>1, <1>2, <1>4, <2>1, SetHappens DEF Registers
  <2>3. Idle' /\ (s \in {"high", "low"} => HighLoaded') /\ (s = "low" => LowLoaded')
    BY <1>1, <1>13, <2>2 DEF Idle, Loaded, HighLoaded, LowLoaded, Registers
  <2>4. CASE s = "mode"
    <3>1. todo' = W0("0x4000", bank \div LowBanks, AfterHigh(bank))
      BY <2>2, <2>4 DEF Rest, AfterMode
    <3>2. Where("high")' = "0x4000" /\ Datum("high")' = bank \div LowBanks
          /\ Rest("high")' = AfterHigh(bank) /\ Ready("high")' /\ kind' = "mbc1"
      BY <1>1, <2>2, <2>4 DEF Where, Datum, Rest, Ready
    <3>3. WriteAt("high")'
      BY <1>1, <2>2, <2>3, <3>1, <3>2 DEF WriteAt
    <3> QED
      BY <1>1, <2>2, <3>3, ImageStays DEF BusInv, Writing
  <2>5. CASE s = "high"
    <3>1. todo' = W0("0x2000", bank % LowBanks, AfterLow(bank))
      BY <2>2, <2>5 DEF Rest, AfterHigh
    <3>2. Where("low")' = "0x2000" /\ Datum("low")' = bank % LowBanks
          /\ Rest("low")' = AfterLow(bank) /\ Ready("low")'
      BY <1>1, <2>2, <2>3, <2>5 DEF Where, Datum, Rest, Ready
    <3>3. WriteAt("low")'
      BY <1>1, <2>2, <2>3, <3>1, <3>2 DEF WriteAt
    <3> QED
      BY <1>1, <2>2, <3>3, ImageStays DEF BusInv, Writing
  <2>6. CASE s = "low"
    <3>1. todo' = AfterLow(bank) /\ expander'.dirA = "in" /\ expander'.control = "idle"
      BY <2>2, <2>3, <2>6 DEF Rest, Idle
    <3>2. CASE bank > 1
      <4>1. todo' = R0("half1", <<>>)
        BY <3>1, <3>2 DEF AfterLow
      <4>2. Half("half1") = "half1" /\ Follows("half1") = <<>> /\ Before("half1")' = bank
        BY <2>2 DEF Half, Follows, Before
      <4>3. ReadAt("half1")'
        BY <1>1, <2>2, <2>3, <2>6, <3>1, <3>2, <4>1, <4>2 DEF ReadAt
      <4> QED
        BY <1>1, <2>2, <4>3, ImageStays DEF BusInv, Reading
    <3>3. CASE bank = 1
      <4>1. todo' = R0("half0", R0("half1", <<>>))
        BY <3>1, <3>3 DEF AfterLow
      <4>2. Half("half0") = "half0" /\ Follows("half0") = R0("half1", <<>>) /\ Before("half0")' = 0
        BY DEF Half, Follows, Before
      <4>3. ReadAt("half0")'
        BY <1>1, <2>2, <2>3, <2>6, <3>1, <3>3, <4>1, <4>2 DEF ReadAt
      <4> QED
        BY <1>1, <2>2, <4>3, ImageStays DEF BusInv, Reading
    <3> QED
      BY <1>1, <3>2, <3>3
  <2> QED
    BY <2>4, <2>5, <2>6
<1> QED
  BY <1>7, <1>8, <1>9, <1>10, <1>11, <1>12, <1>13 DEF WriteAt

\* The bank that the cartridge shows in the upper half is the one that belongs
\* into the next unit of the image.
LEMMA ShownBelongs ==
  ASSUME BusTypes, bank >= 1, HighLoaded, LowLoaded
  PROVE  /\ Shown("half1") = IF kind = "mbc1" /\ bank % LowBanks = 0 THEN bank + 1 ELSE bank
         /\ Shown("half0") = 0 /\ bank \in Nat
<1>1. bank \in Nat /\ kind \in {"mbc1", "later"}
  BY DEF BusTypes, Kind
<1>2. Shown("half0") = 0
  BY DEF Shown
<1>3. CASE kind = "later"
  BY <1>1, <1>3 DEF Shown, NewLow, LowLoaded
<1>4. CASE kind = "mbc1"
  <2>1. PICK q : q = bank \div LowBanks
    OBVIOUS
  <2>2. PICK m : m = bank % LowBanks
    OBVIOUS
  <2>3. /\ q \in Nat /\ m \in Nat /\ LowBanks \in Nat /\ bank = q * LowBanks + m
    BY <1>1, <2>1, <2>2, BanksDivide
  <2>4. highReg = q /\ lowReg = m
    BY <1>4, <2>1, <2>2 DEF HighLoaded, LowLoaded
  <2>5. Shown("half1") = q * LowBanks + NewLow(m)
    BY <1>4, <2>4 DEF Shown
  <2>6. NewLow(m) = IF m = 0 THEN 1 ELSE m
    BY DEF NewLow
  <2>7. q * LowBanks \in Nat
    BY <2>3
  <2>8. Shown("half1") = IF m = 0 THEN bank + 1 ELSE bank
    BY <2>3, <2>5, <2>6, <2>7
  <2> QED
    BY <1>2, <1>4, <1>1, <2>2, <2>8
<1> QED
  BY <1>1, <1>2, <1>3, <1>4

\* A number at the end of the image.
LEMMA SeqNatAppend ==
  ASSUME NEW s \in Seq(Nat), NEW u \in Nat
  PROVE  /\ Append(s, u) \in Seq(Nat) /\ Len(Append(s, u)) = Len(s) + 1
         /\ \A i \in 1..Len(s) : Append(s, u)[i] = s[i]
         /\ Append(s, u)[Len(s) + 1] = u
  BY AppendProperties

\* A read of the data lines adds its unit to the image.
LEMMA ImageGrows ==
  ASSUME BusTypes, ImageInOrder, NEW u \in Nat, image' = Append(image, u), kind' = kind,
         u = IF kind = "mbc1" /\ Len(image) > 0 /\ Len(image) % LowBanks = 0
             THEN Len(image) + 1 ELSE Len(image)
  PROVE  ImageInOrder' /\ image' \in Seq(Nat) /\ Len(image') = Len(image) + 1
<1> DEFINE InPlace(i) == IF kind = "mbc1" /\ i > 1 /\ (i - 1) % LowBanks = 0 THEN i ELSE i - 1
<1>1. image \in Seq(Nat) /\ Len(image) \in Nat /\ DOMAIN image = 1..Len(image)
  BY DEF BusTypes
<1>2. PICK n \in Nat : n = Len(image)
  BY <1>1
<1>3. /\ image' \in Seq(Nat) /\ Len(image') = n + 1
      /\ \A i \in 1..n : image'[i] = image[i]
      /\ image'[n + 1] = u
  <2>1. /\ Append(image, u) \in Seq(Nat) /\ Len(Append(image, u)) = Len(image) + 1
        /\ \A i \in 1..Len(image) : Append(image, u)[i] = image[i]
        /\ Append(image, u)[Len(image) + 1] = u
    BY <1>1, SeqNatAppend
  <2> QED
    BY <1>2, <2>1, Zenon
<1>4. DOMAIN image' = 1..n + 1
  BY <1>3
<1>5. u = InPlace(n + 1)
  <2>1. u = IF kind = "mbc1" /\ n > 0 /\ n % LowBanks = 0 THEN n + 1 ELSE n
    BY <1>2, Zenon
  <2>2. (n + 1) - 1 = n /\ (n + 1 > 1 <=> n > 0)
    OBVIOUS
  <2> QED
    BY <2>1, <2>2
<1>6. \A i \in 1..n : image[i] = InPlace(i)
  BY <1>1, <1>2 DEF ImageInOrder
<1> HIDE DEF InPlace
<1>7. \A i \in 1..n + 1 : i \in 1..n \/ i = n + 1
  OBVIOUS
<1>8. \A i \in 1..n + 1 : image'[i] = InPlace(i)
  BY <1>3, <1>5, <1>6, <1>7, Zenon
<1>9. ImageInOrder'
  BY <1>4, <1>8 DEF ImageInOrder, InPlace
<1> QED
  BY <1>2, <1>3, <1>9

\* The operands of a read.
LEMMA HalvesTyped ==
  ASSUME NEW s \in {"config", "half0", "half1"}
  PROVE  Half(s) \in Address /\ Follows(s) \in Seq(Op)
<1>1. Half(s) \in Address
  BY DEF Half, Address
<1>2. <<>> \in Seq(Op) /\ R0("half1", <<>>) \in Seq(Op)
  <2>1. 0 \in Nat
    OBVIOUS
  <2> QED
    BY <2>1, Remainders
<1> QED
  BY <1>1, <1>2, Zenon DEF Follows

\* A read takes its next step, and its sample adds the right bank to the image.
LEMMA ReadAdvances ==
  ASSUME BusInv, BusNext, NEW s \in {"config", "half0", "half1"}, ReadAt(s)
  PROVE  BusInv'
<1> DEFINE a == Half(s)
           r == Follows(s)
<1>1. /\ BusTypes /\ ImageInOrder /\ bank \in Nat /\ expander \in [Registers -> Value]
      /\ image \in Seq(Nat) /\ Len(image) \in Nat
      /\ (s = "config" => bank = 0) /\ (s = "half0" => bank = 1) /\ (s = "half1" => bank >= 1)
      /\ s # "config" => HighLoaded /\ LowLoaded
      /\ expander.dirA = "in"
  BY DEF BusInv, ReadAt, BusTypes
<1>2. a \in Address /\ a \in Value /\ r \in Seq(Op)
  BY HalvesTyped DEF Value
<1>3. /\ R4(r) \in Seq(Op) /\ R3(r) \in Seq(Op) /\ R2(r) \in Seq(Op) /\ R1(a, r) \in Seq(Op)
  BY <1>2, ReadTyped
<1>4. {"in", "out", "idle", "read", "write"} \subseteq Value
  BY DEF Value
<1>5. ASSUME BusTypes', UNCHANGED <<kind, banks, bank, image>>, ReadAt(s)'
      PROVE  BusInv'
  BY <1>1, <1>5, ImageStays DEF BusInv, Reading
<1>6. ASSUME UNCHANGED <<kind, bank>> PROVE Before(s)' = Before(s) /\ After(s)' = After(s)
  BY <1>6, OperandsStay
<1>7. CASE todo = R0(a, r) /\ expander.control = "idle" /\ Len(image) = Before(s)
  <2>1. todo = Then(Set("addressA", a), R1(a, r)) /\ Legal("addressA", a)
    BY <1>2, <1>7 DEF R0, Legal
  <2> HIDE DEF a, r
  <2>2. /\ BusTypes' /\ todo' = R1(a, r) /\ UNCHANGED <<kind, banks, bank, image>>
        /\ expander' = [expander EXCEPT !["addressA"] = a] /\ UNCHANGED <<lowReg, highReg>>
    BY <1>1, <1>2, <1>3, <2>1, SetHappens DEF Registers
  <2>3. expander'.control = "idle" /\ expander'.dirA = "in" /\ expander'.addressA = a
    BY <1>1, <1>7, <2>2 DEF Registers
  <2>4. ReadAt(s)'
    BY <1>1, <1>6, <1>7, <2>2, <2>3 DEF ReadAt, HighLoaded, LowLoaded, a, r
  <2> QED
    BY <1>5, <2>2, <2>4
<1>8. CASE /\ todo = R1(a, r) /\ expander.control = "idle" /\ Len(image) = Before(s)
           /\ expander.addressA = a
  <2>1. todo = Then(Set("addressB", a), R2(r)) /\ Legal("addressB", a)
    BY <1>2, <1>8 DEF R1, Legal
  <2> HIDE DEF a, r
  <2>2. /\ BusTypes' /\ todo' = R2(r) /\ UNCHANGED <<kind, banks, bank, image>>
        /\ expander' = [expander EXCEPT !["addressB"] = a] /\ UNCHANGED <<lowReg, highReg>>
    BY <1>1, <1>2, <1>3, <2>1, SetHappens DEF Registers
  <2>3. /\ expander'.control = "idle" /\ expander'.dirA = "in"
        /\ expander'.addressA = a /\ expander'.addressB = a
    BY <1>1, <1>8, <2>2 DEF Registers
  <2>4. ReadAt(s)'
    BY <1>1, <1>6, <1>8, <2>2, <2>3 DEF ReadAt, HighLoaded, LowLoaded, a, r
  <2> QED
    BY <1>5, <2>2, <2>4
<1>9. CASE /\ todo = R2(r) /\ expander.control = "idle" /\ Len(image) = Before(s)
           /\ expander.addressA = a /\ expander.addressB = a
  <2>1. todo = Then(Set("control", "read"), R3(r)) /\ Legal("control", "read")
    BY <1>2, <1>9 DEF R2, Legal
  <2> HIDE DEF a, r
  <2>2. /\ BusTypes' /\ todo' = R3(r) /\ UNCHANGED <<kind, banks, bank, image>>
        /\ expander' = [expander EXCEPT !["control"] = "read"] /\ UNCHANGED <<lowReg, highReg>>
    BY <1>1, <1>3, <1>4, <1>9, <2>1, SetHappens DEF Registers
  <2>3. /\ expander'.control = "read" /\ expander'.dirA = "in"
        /\ expander'.addressA = a /\ expander'.addressB = a
    BY <1>1, <1>9, <2>2 DEF Registers
  <2>4. ReadAt(s)'
    BY <1>1, <1>6, <1>9, <2>2, <2>3 DEF ReadAt, HighLoaded, LowLoaded, a, r
  <2> QED
    BY <1>5, <2>2, <2>4
<1>10. CASE /\ todo = R3(r) /\ expander.control = "read" /\ Len(image) = Before(s)
            /\ expander.addressA = a /\ expander.addressB = a
  <2>1. todo = Then(Sample, R4(r))
    BY <1>10 DEF R3
  <2>2. /\ todo' = R4(r) /\ UNCHANGED <<kind, banks, expander, bank, lowReg, highReg>>
        /\ image' = IF bank = 0 THEN image ELSE Append(image, Shown(a))
    BY <1>2, <1>3, <1>10, <2>1, SampleHappens
  <2>3. ImageInOrder' /\ image' \in Seq(Nat) /\ Len(image') = After(s)
    <3>1. CASE s = "config"
      BY <1>1, <1>10, <2>2, <3>1, ImageStays DEF Before, After
    <3>2. CASE s = "half0"
      <4>1. image' = Append(image, 0) /\ Len(image) = 0 /\ After(s) = 1
        BY <1>1, <1>10, <2>2, <3>2, ShownBelongs DEF Half, Before, After
      <4>2. 0 = IF kind = "mbc1" /\ Len(image) > 0 /\ Len(image) % LowBanks = 0
                THEN Len(image) + 1 ELSE Len(image)
        BY <4>1
      <4>3. 0 \in Nat /\ kind' = kind
        BY <2>2
      <4>4. ImageInOrder' /\ image' \in Seq(Nat) /\ Len(image') = Len(image) + 1
        BY <1>1, <4>1, <4>2, <4>3, ImageGrows
      <4> QED
        BY <4>1, <4>4
    <3>3. CASE s = "half1"
      <4>1. /\ image' = Append(image, Shown("half1")) /\ Len(image) = bank
            /\ After(s) = bank + 1 /\ bank >= 1
        BY <1>1, <1>10, <2>2, <3>3 DEF Half, Before, After
      <4>2. /\ Shown("half1") = IF kind = "mbc1" /\ bank % LowBanks = 0 THEN bank + 1 ELSE bank
            /\ Shown("half1") \in Nat
        BY <1>1, <3>3, ShownBelongs
      <4>3. PICK u : u = Shown("half1")
        OBVIOUS
      <4>4. /\ u = IF kind = "mbc1" /\ Len(image) > 0 /\ Len(image) % LowBanks = 0
                   THEN Len(image) + 1 ELSE Len(image)
            /\ u \in Nat /\ image' = Append(image, u) /\ kind' = kind
        BY <1>1, <2>2, <4>1, <4>2, <4>3
      <4> QED
        BY <1>1, <4>1, <4>4, ImageGrows
    <3> QED
      BY <3>1, <3>2, <3>3
  <2>4. BusTypes'
    BY <1>1, <2>2, <2>3 DEF BusTypes
  <2>5. ReadAt(s)'
    BY <1>1, <1>6, <1>10, <2>2, <2>3 DEF ReadAt, HighLoaded, LowLoaded
  <2> QED
    BY <2>3, <2>4, <2>5 DEF BusInv, Reading
<1>11. CASE /\ todo = R4(r) /\ expander.control = "read" /\ Len(image) = After(s)
            /\ expander.addressA = a /\ expander.addressB = a
  <2>1. todo = Then(Set("control", "idle"), r) /\ Legal("control", "idle")
    BY <1>2, <1>11 DEF R4, Legal
  <2>2. /\ BusTypes' /\ todo' = r /\ UNCHANGED <<kind, banks, bank, image>>
        /\ expander' = [expander EXCEPT !["control"] = "idle"] /\ UNCHANGED <<lowReg, highReg>>
    BY <1>1, <1>2, <1>4, <1>11, <2>1, SetHappens DEF Registers
  <2>3. expander'.control = "idle" /\ expander'.dirA = "in"
    BY <1>1, <2>2 DEF Registers
  <2>4. CASE s = "half0"
    <3>1. /\ todo' = R0("half1", <<>>) /\ bank' = 1 /\ Len(image') = 1
          /\ HighLoaded' /\ LowLoaded'
      BY <1>1, <1>11, <2>2, <2>4 DEF Follows, After, HighLoaded, LowLoaded
    <3>2. Half("half1") = "half1" /\ Follows("half1") = <<>> /\ Before("half1")' = 1
      BY <3>1 DEF Half, Follows, Before
    <3>3. ReadAt("half1")'
      BY <2>3, <3>1, <3>2 DEF ReadAt
    <3> QED
      BY <1>1, <2>2, <3>3, ImageStays DEF BusInv, Reading
  <2>5. CASE s # "half0"
    <3>1. todo' = <<>> /\ Len(image') = (IF bank' = 0 THEN 0 ELSE bank' + 1)
      BY <1>1, <1>11, <2>2, <2>5 DEF Follows, After
    <3>2. Done'
      BY <2>3, <3>1 DEF Done, Idle
    <3> QED
      BY <1>1, <2>2, <3>2, ImageStays DEF BusInv
  <2> QED
    BY <2>4, <2>5
<1> QED
  BY <1>7, <1>8, <1>9, <1>10, <1>11 DEF ReadAt

\* The configuration takes its next step.
LEMMA ConfigAdvances ==
  ASSUME BusInv, BusNext, Configuring
  PROVE  BusInv'
<1> DEFINE q == R0("half0", <<>>)
<1>1. /\ BusTypes /\ ImageInOrder /\ bank = 0 /\ Idle /\ Len(image) = 0
      /\ expander \in [Registers -> Value]
  BY DEF BusInv, Configuring, BusTypes
<1>2. <<>> \in Seq(Op) /\ "half0" \in Address
  BY DEF Address
<1>3. q \in Seq(Op)
  BY <1>2, ReadTyped
<1> HIDE DEF q
<1>4. /\ Set("dirA", "in") \in Op /\ Set("control", "idle") \in Op
      /\ "in" \in Value /\ "idle" \in Value
      /\ Legal("dirA", "in") /\ Legal("control", "idle")
  BY OpsTyped DEF Registers, Value, Legal
<1>5. Then(Set("control", "idle"), q) \in Seq(Op)
  BY <1>3, <1>4, ThenIsNext
<1>6. CASE todo = Then(Set("dirA", "in"), Then(Set("control", "idle"), q))
  <2>1. /\ BusTypes' /\ todo' = Then(Set("control", "idle"), q)
        /\ UNCHANGED <<kind, banks, bank, image>>
        /\ expander' = [expander EXCEPT !["dirA"] = "in"]
    BY <1>1, <1>4, <1>5, <1>6, SetHappens DEF Registers
  <2>2. Idle'
    BY <1>1, <2>1 DEF Idle, Registers
  <2> QED
    BY <1>1, <2>1, <2>2, ImageStays DEF BusInv, Configuring, q
<1>7. CASE todo = Then(Set("control", "idle"), q)
  <2>1. /\ BusTypes' /\ todo' = q /\ UNCHANGED <<kind, banks, bank, image>>
        /\ expander' = [expander EXCEPT !["control"] = "idle"]
    BY <1>1, <1>3, <1>4, <1>7, SetHappens DEF Registers
  <2>2. expander'.control = "idle" /\ expander'.dirA = "in"
    BY <1>1, <2>1 DEF Idle, Registers
  <2>3. Half("config") = "half0" /\ Follows("config") = <<>> /\ Before("config")' = 0
    BY DEF Half, Follows, Before
  <2>4. ReadAt("config")'
    BY <1>1, <2>1, <2>2, <2>3 DEF ReadAt, q
  <2> QED
    BY <1>1, <2>1, <2>4, ImageStays DEF BusInv, Reading
<1> QED
  BY <1>6, <1>7 DEF Configuring, q

\* After a round comes the next bank, or the end.
LEMMA DoneAdvances ==
  ASSUME BusInv, BusNext, Done
  PROVE  BusInv'
<1>1. /\ BusTypes /\ ImageInOrder /\ Idle /\ todo = <<>> /\ bank \in Nat /\ kind \in Kind
      /\ Len(image) = (IF bank = 0 THEN 0 ELSE bank + 1)
  BY DEF BusInv, Done, BusTypes
<1>2. CASE NextBank
  <2>1. /\ bank' = bank + 1 /\ UNCHANGED <<kind, banks, expander, lowReg, highReg, image>>
        /\ todo' = CopyBank(kind, bank + 1) /\ bank + 1 \in Nat /\ bank' \in 0..banks-1
    BY <1>1, <1>2 DEF NextBank, BusTypes
  <2>2. BusTypes' /\ Idle'
    BY <1>1, <2>1 DEF BusTypes, Idle
  <2>3. Len(image') = IF bank' = 1 THEN 0 ELSE bank'
    BY <1>1, <2>1
  <2>4. todo' = IF kind = "later" THEN W0("0x2100", bank', AfterLow(bank'))
                                  ELSE W0("0x6000", 0, AfterMode(bank'))
    BY <1>1, <2>1, RoundUnfolds
  <2>5. bank' >= 1
    BY <1>1, <2>1
  <2>6. CASE kind = "later"
    <3>1. /\ Where("low")' = "0x2100" /\ Datum("low")' = bank' /\ Rest("low")' = AfterLow(bank')
          /\ Ready("low")'
      BY <2>1, <2>6 DEF Where, Datum, Rest, Ready, HighLoaded
    <3>2. WriteAt("low")'
      BY <2>2, <2>3, <2>4, <2>5, <2>6, <3>1 DEF WriteAt
    <3> QED
      BY <1>1, <2>1, <2>2, <3>2, ImageStays DEF BusInv, Writing
  <2>7. CASE kind # "later"
    <3>1. /\ Where("mode")' = "0x6000" /\ Datum("mode")' = 0 /\ Rest("mode")' = AfterMode(bank')
          /\ Ready("mode")' /\ kind' = "mbc1"
      BY <1>1, <2>1, <2>7 DEF Where, Datum, Rest, Ready, Kind
    <3>2. WriteAt("mode")'
      BY <2>2, <2>3, <2>4, <2>5, <2>7, <3>1 DEF WriteAt
    <3> QED
      BY <1>1, <2>1, <2>2, <3>2, ImageStays DEF BusInv, Writing
  <2> QED
    BY <2>6, <2>7
<1>3. CASE BusDone
  <2>1. UNCHANGED busVars
    BY <1>3 DEF BusDone
  <2>2. BusTypes' /\ ImageInOrder' /\ Done'
    BY <1>1, <2>1 DEF busVars, BusTypes, ImageInOrder, Done, Idle
  <2> QED
    BY <2>2 DEF BusInv
<1> QED
  BY <1>1, <1>2, <1>3 DEF BusNext, I2cWrite, I2cRead

\* Nothing happens.
LEMMA BusStutters == ASSUME BusInv, UNCHANGED busVars PROVE BusInv'
<1>1. BusTypes' /\ ImageInOrder'
  BY DEF BusInv, busVars, BusTypes, ImageInOrder
<1>2. Configuring => Configuring'
  BY DEF busVars, Configuring, Idle
<1>3. Done => Done'
  BY DEF busVars, Done, Idle
<1>4. ASSUME NEW s \in {"mode", "high", "low"}, WriteAt(s) PROVE WriteAt(s)'
  <2>1. Where(s)' = Where(s) /\ Datum(s)' = Datum(s) /\ Rest(s)' = Rest(s)
    BY OperandsStay DEF busVars
  <2>2. (Ready(s) <=> Ready(s)') /\ (Loaded(s) <=> Loaded(s)') /\ (Idle <=> Idle')
    BY DEF busVars, Ready, Loaded, HighLoaded, LowLoaded, Idle
  <2> QED
    BY <1>4, <2>1, <2>2 DEF WriteAt, busVars
<1>5. ASSUME NEW s \in {"config", "half0", "half1"}, ReadAt(s) PROVE ReadAt(s)'
  <2>1. Before(s)' = Before(s) /\ After(s)' = After(s)
    BY OperandsStay DEF busVars
  <2>2. (HighLoaded <=> HighLoaded') /\ (LowLoaded <=> LowLoaded')
    BY DEF busVars, HighLoaded, LowLoaded
  <2> QED
    BY <1>5, <2>1, <2>2 DEF ReadAt, busVars
<1> QED
  BY <1>1, <1>2, <1>3, <1>4, <1>5 DEF BusInv, Writing, Reading

\* The configuration is about to begin.
LEMMA BusInitInv == BusInit => BusInv
<1> SUFFICES ASSUME BusInit PROVE BusInv
  OBVIOUS
<1>1. expander \in [Registers -> Value]
  BY DEF BusInit, Unset, Registers, Value, Address
<1>2. /\ expander.addressA = "none" /\ expander.addressB = "none" /\ expander.dataA = 0
      /\ expander.dirA = "in" /\ expander.control = "idle"
  BY DEF BusInit, Unset
<1>3. BusTypes
  BY <1>1, <1>2, BusAssumption DEF BusInit, BusTypes, Address
<1>4. ImageInOrder
  BY DEF BusInit, ImageInOrder
<1>5. Configuring
  BY <1>2, ConfigUnfolds DEF BusInit, Configuring, Idle
<1> QED
  BY <1>3, <1>4, <1>5 DEF BusInv

\* The invariant in every state.
LEMMA BusInvariance == BusSpec => []BusInv
<1>1. BusInv /\ [BusNext]_busVars => BusInv'
  <2> SUFFICES ASSUME BusInv, BusNext PROVE BusInv'
    BY BusStutters
  <2> QED
    BY WriteAdvances, ReadAdvances, ConfigAdvances, DoneAdvances DEF BusInv, Writing, Reading
<1> QED
  BY <1>1, BusInitInv, PTL DEF BusSpec

\* What the invariant says of the types, the bus and the image.
LEMMA BusImplies == BusInv => BusTypeOK /\ BusProtocol /\ ImageInOrder
<1> SUFFICES ASSUME BusInv PROVE BusTypeOK /\ BusProtocol /\ ImageInOrder
  OBVIOUS
<1>1. BusTypeOK
  <2>1. banks <= TopBank /\ bank \in 0..TopBank-1
    BY BusAssumption DEF BusInv, BusTypes
  <2> QED
    BY <2>1 DEF BusInv, BusTypes, BusTypeOK
<1>2. ASSUME NEW s \in {"mode", "high", "low"}, WriteAt(s) PROVE BusProtocol
  <2>1. /\ Where(s) \in Address \ {"half0", "half1", "none"} /\ Where(s) \in Value
        /\ Datum(s) \in Value /\ Rest(s) \in Seq(Op)
    BY OperandsTyped DEF BusInv
  <2>2. Set("control", "idle") \in Op /\ W6(Rest(s)) \in Seq(Op)
    BY <2>1, OpsTyped, WriteTyped DEF Registers, Value
  <2>3. W5(Rest(s)) # <<>> /\ Head(W5(Rest(s))) = Set("control", "idle")
    BY <2>2, ThenIsNext, Zenon DEF W5
  <2>4. Set("control", "idle").reg = "control"
    BY DEF Set
  <2> QED
    BY <1>2, <2>1, <2>3, <2>4 DEF WriteAt, Idle, BusProtocol
<1>3. ASSUME NEW s \in {"config", "half0", "half1"}, ReadAt(s) PROVE BusProtocol
  BY <1>3 DEF ReadAt, BusProtocol
<1>4. Configuring \/ Done => BusProtocol
  BY DEF Configuring, Done, Idle, BusProtocol
<1> QED
  BY <1>1, <1>2, <1>3, <1>4 DEF BusInv, Writing, Reading

\* Type correctness of the cartridge reader.
THEOREM BusTypeCorrect == BusSpec => []BusTypeOK
  BY BusImplies, BusInvariance, PTL

\* The cartridge takes whole addresses and driven data that stay as long as a strobe
\* is low, and the two sides of the data lines never drive them at the same time (cartridge.c:78-108).
THEOREM BusProtocolIsKept == BusSpec => []BusProtocol
  BY BusImplies, BusInvariance, PTL

\* Every unit of the flash image is the bank of its number, but for those an
\* MBC 1 cannot show, for any number of banks (reader.c:103-135).
THEOREM ImageIsInOrder == BusSpec => []ImageInOrder
  BY BusImplies, BusInvariance, PTL

-----------------------------------------------------------------------------
(* Side by side.                                                           *)

\* A step of the whole is a step of one unit, or leaves it as it is.
LEMMA StepsOfUnits ==
  [UnitsNext]_unitVars =>
    /\ [ButtonsNext]_buttonVars /\ [TrackNext]_trackVars /\ [DataNext]_dataVars
    /\ [SlotsNext]_slotVars /\ [DisplayNext]_displayVars /\ [MspiNext]_mspiVars
    /\ [BusNext]_busVars
<1> SUFFICES ASSUME [UnitsNext]_unitVars
             PROVE  /\ [ButtonsNext]_buttonVars /\ [TrackNext]_trackVars /\ [DataNext]_dataVars
                    /\ [SlotsNext]_slotVars /\ [DisplayNext]_displayVars /\ [MspiNext]_mspiVars
                    /\ [BusNext]_busVars
  OBVIOUS
<1>1. CASE UNCHANGED unitVars
  BY <1>1, Zenon DEF unitVars
<1>2. CASE ButtonsNext /\ Others("buttons")
  BY <1>2 DEF Others
<1>3. CASE TrackNext /\ Others("memtracker")
  BY <1>3 DEF Others
<1>4. CASE DataNext /\ Others("data")
  BY <1>4 DEF Others
<1>5. CASE SlotsNext /\ Others("slots")
  BY <1>5 DEF Others
<1>6. CASE DisplayNext /\ Others("display")
  BY <1>6 DEF Others
<1>7. CASE MspiNext /\ Others("mspi")
  BY <1>7 DEF Others
<1>8. CASE BusNext /\ Others("bus")
  BY <1>8 DEF Others
<1> QED
  BY <1>1, <1>2, <1>3, <1>4, <1>5, <1>6, <1>7, <1>8 DEF UnitsNext

\* A behaviour of the whole is one of every unit: what is proved of a unit holds
\* in it.
THEOREM UnitsImplementEach ==
  UnitsSpec => /\ ButtonsSpec /\ TrackSpec /\ DataSpec /\ SlotsSpec
               /\ MspiSpec /\ BusSpec /\ DisplaySpec
<1>1. UnitsInit => /\ ButtonsInit /\ TrackInit /\ DataInit /\ SlotsInit
                   /\ MspiInit /\ BusInit /\ DisplayInit
  BY DEF UnitsInit
<1> QED
  BY <1>1, StepsOfUnits, PTL
  DEF UnitsSpec, ButtonsSpec, TrackSpec, DataSpec, SlotsSpec, MspiSpec, BusSpec, DisplaySpec

\* Type correctness of the units side by side.
THEOREM UnitsTypeCorrect == UnitsSpec => []UnitsTypeOK
  BY UnitsImplementEach, ButtonsTypeCorrect, TrackTypeCorrect, SlotsTypeCorrect,
     DisplayTypeCorrect, MspiTypeCorrect, BusTypeCorrect, PTL DEF UnitsTypeOK
=============================================================================
