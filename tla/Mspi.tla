-------------------------------- MODULE Mspi --------------------------------
(***************************************************************************)
(* The FRAM driver on top of the vendor's MSPI functions, of which any may *)
(* fail.  The vendor's queue and interrupt service are external: transfers *)
(* end one after the other, well or with an error, high priority ones      *)
(* first, and their callbacks run in am_mspi0_isr.  A blocking read or     *)
(* write is a queued transfer whose callback sets a flag for which the     *)
(* caller waits a limited time.                                            *)
(***************************************************************************)
EXTENDS Naturals, Sequences, SequencesExt

CONSTANT Pending  \* transfers that fit in the vendor's queue

ASSUME MspiAssumption == Pending \in Nat \ {0}

VARIABLES
  hw,         \* what the steps of the initialisation have achieved
  identified, \* what am_devices_mspi_psram_id found
  writeLatch,   \* the FRAM's write enable latch
  masterIrq,  \* are interrupts enabled in the processor?
  g_MSPISave,
  registersValid,     \* has the vendor's code valid saved registers?
  transfers,  \* the queue: callback, and is it the blocking call's own?
  g_MSPIDMAComplete,
  mspiPc,
  mspiStep,      \* the step of mspiPc
  ownEnd,     \* history: "queued", "done" or "failed", of the latest blocking call
  others      \* history: was another transfer with the same callback outstanding
              \* when it began?

mspiVars == <<hw, identified, writeLatch, masterIrq, g_MSPISave, registersValid, transfers,
              g_MSPIDMAComplete, mspiPc, mspiStep, ownEnd, others>>
hwVars   == <<hw, identified, writeLatch, masterIrq, g_MSPISave, registersValid>>
callVars == <<g_MSPIDMAComplete, ownEnd, others>>

MspiInit ==
  /\ hw = {} /\ identified = FALSE /\ writeLatch = FALSE /\ masterIrq = TRUE
  /\ g_MSPISave = FALSE /\ registersValid = FALSE
  /\ transfers = <<>> /\ g_MSPIDMAComplete = FALSE
  /\ mspiPc = "init" /\ mspiStep = 1 /\ ownEnd = "none" /\ others = FALSE

Callback == {"flag", "caller", "none"}
Facts    == {"initialized", "awake", "configured", "enabled", "irq", "xip", "scrambling"}

MspiTypeOK ==
  /\ hw \subseteq Facts /\ identified \in BOOLEAN /\ writeLatch \in BOOLEAN
  /\ masterIrq \in BOOLEAN /\ g_MSPISave \in BOOLEAN /\ registersValid \in BOOLEAN
  /\ transfers \in Seq([cb: Callback, own: BOOLEAN]) /\ Len(transfers) <= Pending
  /\ g_MSPIDMAComplete \in BOOLEAN /\ mspiStep \in 1..10
  /\ mspiPc \in {"init", "ready", "failed", "start", "wait", "success", "error", "deinit",
                 "down"}
  /\ ownEnd \in {"none", "queued", "done", "failed"} /\ others \in BOOLEAN

-----------------------------------------------------------------------------
(* main()'s init and deinit, with am_devices_mspi_psram_init and _deinit.  *)

InitSteps == <<"initialize", "wake", "disable", "configure", "enable", "identify", "latch",
               "irqClear", "irqEnable", "xipEnable">>

DeinitSteps == <<"xipDisable", "masterOff", "irqDisable", "irqClear", "disable", "sleep",
                 "deinitialize">>

\* What a step of either adds and takes away when it succeeds.
Gain(s) == CASE s = "initialize" -> {"initialized"}  [] s = "wake" -> {"awake"}
             [] s = "configure" -> {"configured"}    [] s = "enable" -> {"enabled"}
             [] s = "irqEnable" -> {"irq"}           [] s = "xipEnable" -> {"xip"}
             [] OTHER -> {}
Loss(s) == CASE s = "disable" -> {"enabled"}         [] s = "irqDisable" -> {"irq"}
             [] s = "sleep" -> {"awake", "configured"}  [] s = "xipDisable" -> {"xip"}
             [] s = "deinitialize" -> {"initialized"}  [] OTHER -> {}

\* The next step, or the state after the last.
Go(steps, next) ==
  IF mspiStep < Len(steps) THEN mspiStep' = mspiStep + 1 /\ UNCHANGED mspiPc
                        ELSE mspiStep' = 1 /\ mspiPc' = next

Abort == mspiStep' = 1 /\ mspiPc' = "failed" /\ UNCHANGED hwVars

\* A vendor's function that succeeds.  To wake needs saved registers when
\* g_MSPISave says that there are some.
InitCall ==
  LET s == InitSteps[mspiStep] IN
  /\ mspiPc = "init" /\ s \notin {"identify", "latch"}
  /\ s = "wake" /\ g_MSPISave => registersValid
  /\ hw' = (hw \cup Gain(s)) \ Loss(s)
  /\ registersValid' = (registersValid /\ s # "wake")
  /\ masterIrq' = (masterIrq \/ s = "irqEnable")
  /\ Go(InitSteps, "ready")
  /\ UNCHANGED <<identified, writeLatch, g_MSPISave, transfers, callVars>>

InitCallFails ==
  /\ mspiPc = "init" /\ InitSteps[mspiStep] \notin {"identify", "latch"}
  /\ Abort
  /\ UNCHANGED <<transfers, callVars>>

\* am_devices_mspi_psram_id, of which the result is looked at later.
Identify ==
  /\ mspiPc = "init" /\ InitSteps[mspiStep] = "identify"
  /\ identified' \in BOOLEAN
  /\ Go(InitSteps, "ready")
  /\ UNCHANGED <<hw, writeLatch, masterIrq, g_MSPISave, registersValid, transfers, callVars>>

\* Mutant: the result of the identification is not looked at.
SetLatchOnly ==
  /\ mspiPc = "init" /\ InitSteps[mspiStep] = "latch"
  /\ writeLatch' \in {writeLatch, TRUE}
  /\ Go(InitSteps, "ready")
  /\ UNCHANGED <<hw, identified, masterIrq, g_MSPISave, registersValid, transfers, callVars>>

\* am_devices_mspi_psram_set_wel reports success whatever became of its
\* transfer; then am_device_init_psram returns when the id was wrong.
SetLatch ==
  /\ mspiPc = "init" /\ InitSteps[mspiStep] = "latch"
  /\ writeLatch' \in {writeLatch, TRUE}
  /\ IF identified THEN Go(InitSteps, "ready") ELSE mspiStep' = 1 /\ mspiPc' = "failed"
  /\ UNCHANGED <<hw, identified, masterIrq, g_MSPISave, registersValid, transfers, callVars>>

DeinitCall ==
  LET s == DeinitSteps[mspiStep] IN
  /\ mspiPc = "deinit"
  /\ hw' = hw \ Loss(s)
  /\ masterIrq' = (masterIrq /\ s # "masterOff")
  /\ g_MSPISave' = (g_MSPISave \/ s = "sleep") /\ registersValid' = (registersValid \/ s = "sleep")
  /\ transfers' = IF s = "disable" THEN <<>> ELSE transfers
  /\ Go(DeinitSteps, "down")
  /\ UNCHANGED <<identified, writeLatch, callVars>>

DeinitCallFails ==
  /\ mspiPc = "deinit" /\ DeinitSteps[mspiStep] # "masterOff"
  /\ Abort
  /\ UNCHANGED <<transfers, callVars>>

\* main() goes on with the emulator whatever init returned; deinit and another
\* init are there for a caller that has no work left.
BeginDeinit ==
  /\ mspiPc = "ready"
  /\ mspiPc' = "deinit" /\ mspiStep' = 1
  /\ UNCHANGED <<hwVars, transfers, callVars>>

BeginInit ==
  /\ mspiPc = "down"
  /\ mspiPc' = "init" /\ mspiStep' = 1
  /\ UNCHANGED <<hwVars, transfers, callVars>>

\* Scrambling on or off.
Scramble ==
  /\ mspiPc = "ready"
  /\ hw' \in {hw \cup {"scrambling"}, hw \ {"scrambling"}}
  /\ UNCHANGED <<identified, writeLatch, masterIrq, g_MSPISave, registersValid, transfers, callVars,
                 mspiPc, mspiStep>>

-----------------------------------------------------------------------------
(* Transfers.                                                              *)

\* psram_nonblocking_transfer of normal priority, and the high priority queue,
\* which is served as soon as the current transfer has ended.
Enqueued(t)     == Append(transfers, t)
EnqueuedHigh(t) == IF transfers = <<>> THEN <<t>> ELSE InsertAt(transfers, 2, t)

\* The calls that do not wait: read without waiting has the callback that sets
\* the flag, the others the caller's own or none.
NonblockingCall(cb, high) ==
  /\ mspiPc = "ready" /\ Len(transfers) < Pending
  /\ transfers' = IF high THEN EnqueuedHigh([cb |-> cb, own |-> FALSE])
                          ELSE Enqueued([cb |-> cb, own |-> FALSE])
  /\ UNCHANGED <<hwVars, callVars, mspiPc, mspiStep>>

\* Mutant: the flag is reset when the transfer is already queued.
BlockingStepsSwapped == <<"submit", "reset">>

\* The steps of a read or write that waits.
BlockingSteps == <<"reset", "submit">>

BlockingCall ==
  /\ mspiPc = "ready"
  /\ mspiPc' = "start" /\ mspiStep' = 1
  /\ ownEnd' = "none" /\ others' = (\E i \in DOMAIN transfers : transfers[i].cb = "flag")
  /\ UNCHANGED <<hwVars, transfers, g_MSPIDMAComplete>>

ResetFlag ==
  /\ mspiPc = "start" /\ BlockingSteps[mspiStep] = "reset"
  /\ g_MSPIDMAComplete' = FALSE
  /\ Go(BlockingSteps, "wait")
  /\ UNCHANGED <<hwVars, transfers, ownEnd, others>>

Submit ==
  /\ mspiPc = "start" /\ BlockingSteps[mspiStep] = "submit"
  /\ Len(transfers) < Pending
  /\ transfers' = Enqueued([cb |-> "flag", own |-> TRUE])
  /\ ownEnd' = "queued"
  /\ Go(BlockingSteps, "wait")
  /\ UNCHANGED <<hwVars, g_MSPIDMAComplete, others>>

SubmitFails ==
  /\ mspiPc = "start" /\ BlockingSteps[mspiStep] = "submit"
  /\ mspiPc' = "error" /\ mspiStep' = 1
  /\ UNCHANGED <<hwVars, transfers, callVars>>

WaitEnds ==
  /\ mspiPc = "wait" /\ g_MSPIDMAComplete
  /\ mspiPc' = "success"
  /\ UNCHANGED <<hwVars, transfers, callVars, mspiStep>>

\* The time is up.  The transfer stays in the queue, and is another call's
\* outstanding transfer from now on.
WaitTimesOut ==
  /\ mspiPc = "wait" /\ ~g_MSPIDMAComplete
  /\ mspiPc' = "error"
  /\ transfers' = [i \in DOMAIN transfers |-> [cb |-> transfers[i].cb, own |-> FALSE]]
  /\ UNCHANGED <<hwVars, callVars, mspiStep>>

Return ==
  /\ mspiPc \in {"success", "error"}
  /\ mspiPc' = "ready"
  /\ ownEnd' = "none" /\ others' = FALSE
  /\ transfers' = [i \in DOMAIN transfers |-> [cb |-> transfers[i].cb, own |-> FALSE]]
  /\ UNCHANGED <<hwVars, g_MSPIDMAComplete, mspiStep>>

\* am_mspi0_isr: a transfer has ended and its callback is called.
\* pfnMSPI_PSRAM_Callback sets the flag and does not look at the status.
TransferEnds(ok) ==
  /\ transfers # <<>> /\ "irq" \in hw /\ masterIrq
  /\ transfers' = Tail(transfers)
  /\ g_MSPIDMAComplete' = (g_MSPIDMAComplete \/ Head(transfers).cb = "flag")
  /\ ownEnd' = IF Head(transfers).own THEN IF ok THEN "done" ELSE "failed" ELSE ownEnd
  /\ UNCHANGED <<hwVars, others, mspiPc, mspiStep>>

\* Power fails; the latch of the FRAM falls too.
MspiFail ==
  /\ hw' = {} /\ identified' = FALSE /\ writeLatch' = FALSE /\ masterIrq' = TRUE
  /\ g_MSPISave' = FALSE /\ registersValid' = FALSE
  /\ transfers' = <<>> /\ g_MSPIDMAComplete' = FALSE
  /\ mspiPc' = "init" /\ mspiStep' = 1 /\ ownEnd' = "none" /\ others' = FALSE

MspiNext ==
  \/ InitCall \/ InitCallFails \/ Identify \/ SetLatch
  \/ BeginDeinit \/ DeinitCall \/ DeinitCallFails \/ BeginInit \/ Scramble
  \/ \E cb \in Callback, high \in BOOLEAN : NonblockingCall(cb, high)
  \/ BlockingCall \/ ResetFlag \/ Submit \/ SubmitFails \/ WaitEnds \/ WaitTimesOut \/ Return
  \/ \E ok \in BOOLEAN : TransferEnds(ok)
  \/ MspiFail

MspiSpec == MspiInit /\ [][MspiNext]_mspiVars

-----------------------------------------------------------------------------
(* Properties.                                                             *)

\* The flag that a waiting caller looks at is its transfer's: however early the
\* end of that transfer comes, it is not missed, and the flag tells of no end that
\* did not come (mspi.c:144, 595, 697).  The exception are transfers that were
\* started without waiting, or that timed out before, and were still queued when
\* the caller began: their callback sets the same flag (mspi.c:617).
FlagMeansEnd ==
  mspiPc = "wait" =>
    /\ ownEnd \in {"done", "failed"} => g_MSPIDMAComplete
    /\ g_MSPIDMAComplete => ownEnd \in {"done", "failed"} \/ others

\* Memory-mapped access is on only when this power cycle has identified the FRAM
\* and taken every step before (main_emulator.c:131-147), also after the driver
\* was shut down and initialised again.
XipMeansIdentified ==
  "xip" \in hw =>
    /\ identified
    /\ {"initialized", "awake", "configured", "enabled"} \subseteq hw
=============================================================================
