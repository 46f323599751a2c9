---------------------------- MODULE CartridgeBus ----------------------------
(***************************************************************************)
(* Reading a cartridge through two I2C port expanders: the address, the    *)
(* data and the control lines of the cartridge's bus are registers that    *)
(* are written one after the other, so that the cartridge sees every       *)
(* intermediate state.  The loop of cartridgeReadRom selects a bank and    *)
(* reads it; one read of each 16 KB half of the address space stands for   *)
(* all of that half.  The results of the I2C transfers, which the code     *)
(* ignores, are taken to be success.                                       *)
(*                                                                         *)
(* The cartridge's bank controller is external: it takes a register write  *)
(* at the rising edge of WRn, and drives the data lines while RDn is low.  *)
(***************************************************************************)
EXTENDS Naturals, Sequences

CONSTANTS
  LowBanks,  \* banks the low register of an MBC 1 selects, 32
  TopBank    \* the largest number of banks tried

ASSUME BusAssumption == LowBanks \in Nat \ {0, 1} /\ TopBank \in Nat \ {0, 1}

Kind == {"mbc1", "later"}   \* cartridgeType below 5, and not

VARIABLES
  kind, banks,   \* of the cartridge: cartridgeType and numRomBanks
  expander,      \* the registers of the port expanders
  bank,          \* romBank
  todo,          \* I2C operations still to be done for this bank
  lowReg, highReg,  \* bank registers of the cartridge
  image          \* the bank stored in each unit of flash

busVars == <<kind, banks, expander, bank, todo, lowReg, highReg, image>>

Address == {"half0", "half1", "0x6000", "0x4000", "0x2000", "0x2100", "none"}

\* i2cWrite of one register, and i2cRead of the data lines.
Set(reg, v) == [op |-> "set", reg |-> reg, v |-> v]
Sample      == [op |-> "sample", reg |-> "dataA", v |-> 0]

SetAddress(a) == <<Set("addressA", a), Set("addressB", a)>>

\* Mutant: the data lines are released before the write is over.
WriteDataShort(a, d) ==
  SetAddress(a) \o <<Set("dataA", d), Set("dirA", "out"),
                     Set("control", "write"), Set("dirA", "in"), Set("control", "idle")>>

\* cartridgeInterfaceWriteData
WriteData(a, d) ==
  SetAddress(a) \o <<Set("dataA", d), Set("dirA", "out"),
                     Set("control", "write"), Set("control", "idle"), Set("dirA", "in")>>

\* cartridgeInterfaceReadData
ReadData(a) ==
  SetAddress(a) \o <<Set("control", "read"), Sample, Set("control", "idle")>>

\* Mutant: the low bits only.
SwitchLow(k, b) ==
  IF k = "later" THEN WriteData("0x2100", b)
  ELSE WriteData("0x6000", 0) \o WriteData("0x2000", b % LowBanks)

\* switchCartridgeRomBank
SwitchBank(k, b) ==
  IF k = "later" THEN WriteData("0x2100", b)
  ELSE WriteData("0x6000", 0) \o WriteData("0x4000", b \div LowBanks)
                              \o WriteData("0x2000", b % LowBanks)

\* One round of cartridgeReadRom: bank 1 is read together with bank 0.
CopyBank(k, b) ==
  SwitchBank(k, b) \o (IF b > 1 THEN <<>> ELSE ReadData("half0")) \o ReadData("half1")

\* cartridgeInterfaceConfig, of which the order matters: data lines in, then the
\* control lines idle.  Next comes cartridgeSanityCheck.
ConfigOps == <<Set("dirA", "in"), Set("control", "idle")>> \o ReadData("half0")

\* The expanders' registers before they are configured.
Unset == [addressA |-> "none", addressB |-> "none", dataA |-> 0, dirA |-> "in",
          control |-> "idle"]

BusInit ==
  /\ kind \in Kind /\ banks \in 2..TopBank
  /\ expander = Unset
  /\ bank = 0 /\ todo = ConfigOps
  /\ lowReg \in {0, 1} /\ highReg = 0
  /\ image = <<>>

BusTypeOK ==
  /\ expander.addressA \in Address /\ expander.addressB \in Address
  /\ expander.dataA \in 0..TopBank /\ expander.dirA \in {"in", "out"}
  /\ expander.control \in {"idle", "read", "write"}
  /\ bank \in 0..TopBank-1 /\ lowReg \in 0..TopBank /\ highReg \in 0..TopBank
  /\ \A i \in DOMAIN image : image[i] \in Nat

-----------------------------------------------------------------------------

\* External: what the cartridge does at the rising edge of WRn, and the bank it
\* shows in the upper half.  A zero in the register selects bank 1.
NewLow(v)  == IF v = 0 THEN 1 ELSE v
Shown(a) ==
  IF a \in {"half0", "0x2000", "0x2100"} THEN 0
  ELSE IF kind = "mbc1" THEN highReg * LowBanks + NewLow(lowReg) ELSE NewLow(lowReg)

\* External: the data lines.  The cartridge drives them while RDn is low; of an
\* address of which only one half was set, or otherwise, they show no bank.
NoBank == TopBank + 1
DataLines ==
  IF expander.control = "read" /\ expander.addressA = expander.addressB
  THEN Shown(expander.addressB) ELSE NoBank

Latch ==
  /\ lowReg' = IF expander.addressB \in {"0x2000", "0x2100"} THEN expander.dataA ELSE lowReg
  /\ highReg' = IF expander.addressB = "0x4000" THEN expander.dataA ELSE highReg

\* i2cWrite
I2cWrite ==
  /\ todo # <<>> /\ Head(todo).op = "set"
  /\ expander' = [expander EXCEPT ![Head(todo).reg] = Head(todo).v]
  /\ IF expander.control = "write" /\ expander'.control # "write"
     THEN Latch ELSE UNCHANGED <<lowReg, highReg>>
  /\ todo' = Tail(todo)
  /\ UNCHANGED <<kind, banks, bank, image>>

\* i2cRead; what it reads is appended to the flash image.
I2cRead ==
  /\ todo # <<>> /\ Head(todo).op = "sample"
  /\ image' = IF bank = 0 THEN image ELSE Append(image, DataLines)
  /\ todo' = Tail(todo)
  /\ UNCHANGED <<kind, banks, expander, bank, lowReg, highReg>>

NextBank ==
  /\ todo = <<>> /\ bank + 1 < banks
  /\ bank' = bank + 1
  /\ todo' = CopyBank(kind, bank + 1)
  /\ UNCHANGED <<kind, banks, expander, lowReg, highReg, image>>

BusDone ==
  /\ todo = <<>> /\ bank + 1 >= banks
  /\ UNCHANGED busVars

BusNext == I2cWrite \/ I2cRead \/ NextBank \/ BusDone
BusSpec == BusInit /\ [][BusNext]_busVars

-----------------------------------------------------------------------------
(* Properties.                                                             *)

\* While WRn is low the expanders hold a whole address of a register and drive
\* the data, and the only thing that changes is WRn itself, so that the cartridge
\* takes what was meant (cartridge.c:78-95).  While RDn is low they hold a whole
\* address too, and the data lines are their inputs: the two sides never drive
\* them at the same time (cartridge.c:97, 108).
BusProtocol ==
  /\ expander.control = "write" =>
       /\ expander.addressA = expander.addressB /\ expander.dirA = "out"
       /\ expander.addressA \notin {"half0", "half1", "none"}
       /\ todo # <<>> /\ Head(todo).reg = "control"
  /\ expander.control = "read" =>
       expander.addressA = expander.addressB /\ expander.dirA = "in"

\* Unit u of the flash image is bank u of the cartridge, the first round giving
\* two of them (reader.c:103-135).  An MBC 1 has no way to show a multiple of
\* LowBanks in the upper half, and its next bank is stored instead.
ImageInOrder ==
  \A i \in DOMAIN image :
    image[i] = IF kind = "mbc1" /\ i > 1 /\ (i - 1) % LowBanks = 0 THEN i ELSE i - 1
=============================================================================
