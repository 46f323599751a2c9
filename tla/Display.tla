------------------------------ MODULE Display ------------------------------
(***************************************************************************)
(* The display driver: the game draws in a buffer in RAM and asks for      *)
(* lines of it to be written.  The writes are queued and read the buffer   *)
(* only when they are sent, line by line and by DMA, while the game draws  *)
(* on; a write that does not fit in the queue is dropped, for nobody looks *)
(* at the result of spiWrite.  The buffer is checkpointed, the panel and   *)
(* the queue are lost when power fails.  A line is sent in one step: a     *)
(* line that is drawn on meanwhile is one that was changed.                *)
(***************************************************************************)
EXTENDS Naturals, Sequences, FiniteSets

CONSTANTS
  NumLines,    \* NUM_LINES, 176; line 0 of the buffer is not used
  BarLines,    \* height of the bar, 6
  QueueLimit,  \* writes the queue of the IO master holds
  Picture      \* contents of a line

ASSUME DisplayAssumption ==
  /\ NumLines \in 1..255 /\ BarLines \in 1..NumLines - 1
  /\ QueueLimit \in Nat \ {0} /\ Picture # {}

VARIABLES
  displayBuffer,  \* the contents of the lines
  address,        \* and their addresses
  panel,          \* what the panel shows, by line of the panel
  queue,          \* writes: the next line and how many are left
  served,         \* is the interrupt of a finished write pending?
  spi,            \* did spiInit succeed?
  displayPc,      \* "off", "on" or "shut"
  status          \* history: per line, what became of its last change

displayVars == <<displayBuffer, address, panel, queue, served, spi, displayPc, status>>

Line == 1..NumLines
Blanked == "cleared"

DisplayInit ==
  /\ displayBuffer \in [Line -> Picture] /\ address = [l \in Line |-> 0]
  /\ panel = [l \in Line |-> Blanked]
  /\ queue = <<>> /\ served = FALSE /\ spi = FALSE /\ displayPc = "off"
  /\ status = [l \in Line |-> "undrawn"]

DisplayTypeOK ==
  /\ displayBuffer \in [Line -> Picture] /\ address \in [Line -> 0..255]
  /\ panel \in [Line -> Picture \cup {Blanked}]
  /\ Len(queue) <= QueueLimit
  /\ \A i \in DOMAIN queue : queue[i] \in [line: 1..NumLines+1, left: 0..NumLines]
  /\ served \in BOOLEAN /\ spi \in BOOLEAN /\ displayPc \in {"off", "on", "shut"}
  /\ status \in [Line -> {"settled", "changed", "dropped", "undrawn"}]

-----------------------------------------------------------------------------

\* reverseBitsTable
ReverseBits == <<0, 8, 4, 12, 2, 10, 6, 14, 1, 9, 5, 13, 3, 11, 7, 15>>

\* populateAddressInBuffer: the panel wants the low bit first.
LineAddress(l) == ReverseBits[(l % 16) + 1] * 16 + ReverseBits[(l \div 16) + 1]

\* External: the line of the panel that an address selects, the bits read from
\* the other end.
Bit(a, w) == (a \div w) % 2
PanelLine(a) ==
  Bit(a, 1) * 128 + Bit(a, 2) * 64 + Bit(a, 4) * 32 + Bit(a, 8) * 16
  + Bit(a, 16) * 8 + Bit(a, 32) * 4 + Bit(a, 64) * 2 + Bit(a, 128)

\* displayConfig clears the panel.  Its buffer holds zeros and then the addresses
\* of displaySetup at the first boot, or else what a checkpoint saved, with the
\* addresses in it.
DisplayBoot ==
  /\ displayPc = "off"
  /\ displayPc' = "on"
  /\ displayBuffer' \in [Line -> Picture] /\ address' = [l \in Line |-> LineAddress(l)]
  /\ panel' = [l \in Line |-> Blanked]
  /\ spi' \in BOOLEAN
  /\ status' = [l \in Line |-> "undrawn"]
  /\ UNCHANGED <<queue, served>>

\* displayShutdown; the blocking transfer waits for the queue.
DisplayShutdown ==
  /\ displayPc = "on" /\ queue = <<>>
  /\ displayPc' = "shut"
  /\ panel' = [l \in Line |-> Blanked]
  /\ status' = [l \in Line |-> "undrawn"]
  /\ UNCHANGED <<displayBuffer, address, queue, served, spi>>

DisplayFail ==
  /\ displayPc # "off"
  /\ displayPc' = "off"
  /\ queue' = <<>> /\ served' = FALSE
  /\ UNCHANGED <<displayBuffer, address, panel, spi, status>>

-----------------------------------------------------------------------------
(* The game.                                                               *)

\* The game draws in a line.
Draw(l, p) ==
  /\ displayPc = "on"
  /\ displayBuffer' = [displayBuffer EXCEPT ![l] = p]
  /\ status' = [status EXCEPT ![l] = "changed"]
  /\ UNCHANGED <<address, panel, queue, served, spi, displayPc>>

\* spiWrite of count lines, when the caller has drawn buf and expects the lines
\* asked to be written.
Write(first, count, buf, asked) ==
  LET accepted == spi /\ Len(queue) < QueueLimit
  IN /\ queue' = IF accepted THEN Append(queue, [line |-> first, left |-> count]) ELSE queue
     /\ displayBuffer' = buf
     /\ status' = [l \in Line |-> IF l \notin asked THEN status[l]
                                 ELSE IF accepted THEN "settled" ELSE "dropped"]

\* displayWriteLine, and displayWriteLineCpy with a picture to copy.
WriteLine(l) ==
  /\ displayPc = "on"
  /\ Write(l, 1, displayBuffer, {l})
  /\ UNCHANGED <<address, panel, served, spi, displayPc>>

WriteLineCpy(l, p) ==
  /\ displayPc = "on"
  /\ Write(l, 1, [displayBuffer EXCEPT ![l] = p], {l})
  /\ UNCHANGED <<address, panel, served, spi, displayPc>>

\* displayWriteScreen, the size of which the transfer may not support.
WriteScreen ==
  /\ displayPc = "on"
  /\ Write(1, NumLines, displayBuffer, Line)
  /\ UNCHANGED <<address, panel, served, spi, displayPc>>

\* Mutant: one line less.
BarWriteShort == [first |-> NumLines - BarLines, count |-> BarLines - 1]

\* The arguments displayWriteBar gives to displayWriteMultipleLines.
BarWrite == [first |-> NumLines - BarLines, count |-> NumLines - (NumLines - BarLines)]

\* displayWriteBar draws in the lines of the bar and writes them.
WriteBar(p) ==
  /\ displayPc = "on"
  /\ LET bar == NumLines - BarLines .. NumLines - 1
         buf == [l \in Line |-> IF l \in bar THEN p ELSE displayBuffer[l]]
     IN Write(BarWrite.first, BarWrite.count, buf, bar)
  /\ UNCHANGED <<address, panel, served, spi, displayPc>>

-----------------------------------------------------------------------------
(* The IO master.                                                          *)

\* The next line of the first write goes to the panel.
SendLine ==
  /\ displayPc # "off" /\ queue # <<>> /\ Head(queue).left > 0
  /\ LET l == Head(queue).line IN
       /\ panel' = [panel EXCEPT ![PanelLine(address[l])] = displayBuffer[l]]
       /\ queue' = <<[line |-> l + 1, left |-> Head(queue).left - 1]>> \o Tail(queue)
  /\ served' = (Head(queue).left = 1)
  /\ UNCHANGED <<displayBuffer, address, spi, displayPc, status>>

\* Mutant: the next write is not begun.
DisplayIsrDeaf ==
  /\ displayPc # "off" /\ served
  /\ served' = FALSE
  /\ UNCHANGED <<displayBuffer, address, panel, queue, spi, displayPc, status>>

\* am_iomaster1_isr
DisplayIsr ==
  /\ displayPc # "off" /\ served
  /\ served' = FALSE /\ queue' = Tail(queue)
  /\ UNCHANGED <<displayBuffer, address, panel, spi, displayPc, status>>

Game ==
  \/ \E l \in Line, p \in Picture : Draw(l, p) \/ WriteLineCpy(l, p)
  \/ \E l \in Line : WriteLine(l)
  \/ \E p \in Picture : WriteBar(p)
  \/ WriteScreen

DisplayNext ==
  Game \/ SendLine \/ DisplayIsr \/ DisplayBoot \/ DisplayShutdown \/ DisplayFail

\* The IO master sends and its interrupt is taken.
DisplayFairness == WF_displayVars(SendLine) /\ WF_displayVars(DisplayIsr)

DisplaySpec == DisplayInit /\ [][DisplayNext]_displayVars /\ DisplayFairness

-----------------------------------------------------------------------------
(* Properties.                                                             *)

Awaited(l) == \E i \in DOMAIN queue : l \in queue[i].line .. queue[i].line + queue[i].left - 1

\* A line that the panel does not show as it is in the buffer has been changed
\* since it was last written, or a write of it is still in the queue, or was
\* dropped; lines drawn on while their write was queued included
\* (display.c:88, 162, 203).
LinesShown ==
  displayPc = "on" =>
    \A l \in Line : status[l] = "settled" /\ ~Awaited(l) => panel[l] = displayBuffer[l]

\* When the game stops drawing and power stays, every line whose write was
\* accepted is shown in the end (display.c:231).
LinesShownInTheEnd ==
  <>[][~Game]_displayVars /\ <>[](displayPc = "on") =>
    \A l \in Line : <>[](status[l] = "settled" => panel[l] = displayBuffer[l])
=============================================================================
