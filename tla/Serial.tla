------------------------------- MODULE Serial -------------------------------
(***************************************************************************)
(* The serial driver and the terminal, between a UART and the operator.    *)
(*                                                                         *)
(* The driver handles interrupts and the terminal's calls one at a time,   *)
(* and an interrupt may be handled between any two calls of the terminal.  *)
(* The terminal runs service() when it is woken; wake-ups coalesce into    *)
(* one bit.  A step of the terminal is one round trip to the driver or the *)
(* handling of one event.                                                  *)
(*                                                                         *)
(* Characters travel as their positions in typed, the history of what was  *)
(* sent; "noise" is one that arrives with an error bit.  The UART holds    *)
(* input until it is read; output is counted in units, of which a message  *)
(* is several and an echo one.                                             *)
(***************************************************************************)
EXTENDS Input

CONSTANTS
  Alphabet, MaxTyped,   \* what is typed, and how much of it
  RxDepth, TxDepth,     \* the UART's FIFOs
  TxLevel,              \* raising of the transmit interrupt: as few units left
  RingCapacity,         \* TCS_SERIAL_CAPACITY
  ReadBound,            \* the bytes the driver reads for one interrupt (64)
  Chunk,                \* TCS_SERIAL_CHUNK, in units
  StepBound,            \* the rounds of service() (32)
  OutputSize, Message   \* sizeof output and the longest message, in units

ASSUME SerialAssumption ==
  /\ Alphabet \subseteq Char
  /\ \A c \in {MaxTyped, RxDepth, RingCapacity, ReadBound, TxDepth, Chunk, StepBound, Message} :
       c \in Nat \ {0}
  /\ TxLevel \in 0..(TxDepth - 1)
  /\ OutputSize \in Nat /\ OutputSize > Message

VARIABLES
  typed,
  fifo, tx, tx_raised,  \* UART: input, units being sent, raw transmit interrupt
  rx, tx_unmasked,      \* driver: ring and gap marker, transmit interrupt enabled
  woken,                \* the terminal's notification
  pc, step,             \* where in service() the terminal is
  front, unsent, failed, last   \* the terminal; the position it took last

uart == <<fifo, tx, tx_raised>>
driver == <<rx, tx_unmasked>>
terminal == <<pc, step, front, unsent, failed, last>>
vars == <<typed, uart, driver, woken, terminal>>

(* service() is entered from init() with the greeting unsent.              *)
Init ==
  /\ typed = <<>>
  /\ fifo = <<>> /\ tx = 0 /\ tx_raised = FALSE
  /\ rx = [queue |-> <<>>, lost |-> FALSE] /\ tx_unmasked = FALSE
  /\ woken = FALSE
  /\ pc = "flush" /\ step = 0
  /\ front = ZeroFront /\ unsent = Message /\ failed = FALSE /\ last = 0

-----------------------------------------------------------------------------
(* The outside: the operator types, the UART sends.                        *)

Type(c) ==
  /\ Len(typed) < MaxTyped /\ Len(fifo) < RxDepth
  /\ typed' = Append(typed, c)
  /\ fifo' = Append(fifo, Len(typed'))
  /\ UNCHANGED <<tx, tx_raised, driver, woken, terminal>>

Send ==
  /\ tx > 0
  /\ tx' = tx - 1
  /\ tx_raised' = (tx_raised \/ tx' = TxLevel)
  /\ UNCHANGED <<typed, fifo, driver, woken, terminal>>

-----------------------------------------------------------------------------
(* The driver.                                                             *)

(* Mutant: the bytes before the gap stay in the ring.                      *)
tcs_serial_lossMutant(r) == [r EXCEPT !.lost = TRUE]

tcs_serial_loss(r) == [queue |-> <<>>, lost |-> TRUE]

tcs_serial_receive(r, byte) ==
  LET room == IF Len(r.queue) = RingCapacity THEN tcs_serial_loss(r) ELSE r
  IN [room EXCEPT !.queue = Append(@, byte)]

tcs_serial_take(r) ==
  [queue |-> IF r.queue = <<>> THEN <<>> ELSE Tail(r.queue), lost |-> FALSE]

(* Pending in MIS: input is a level, transmit room an event that was       *)
(* raised and is unmasked.                                                 *)
TxPending == tx_raised /\ tx_unmasked
Pending == fifo # <<>> \/ TxPending

Received(r, i) == IF typed[i] = "noise" THEN tcs_serial_loss(r) ELSE tcs_serial_receive(r, i)

(* The handler's loop over the first n bytes of the FIFO.                  *)
ReadFifo(r, n) ==
  LET after[k \in 0..n] == IF k = 0 THEN r ELSE Received(after[k - 1], fifo[k])
  IN after[n]

(* The interrupt handler.  A damaged byte in the FIFO may have raised an   *)
(* error interrupt too, which costs the ring before the FIFO is read.      *)
Irq ==
  LET n == IF Len(fifo) < ReadBound THEN Len(fifo) ELSE ReadBound
  IN /\ Pending
     /\ \E error \in {FALSE, \E i \in DOMAIN fifo : typed[fifo[i]] = "noise"} :
          rx' = ReadFifo(IF error THEN tcs_serial_loss(rx) ELSE rx, n)
     /\ fifo' = SubSeq(fifo, n + 1, Len(fifo))
     /\ tx_raised' = (tx_raised /\ ~TxPending)
     /\ tx_unmasked' = (tx_unmasked /\ ~TxPending)
     /\ woken' = (woken \/ rx'.queue # <<>> \/ rx'.lost \/ TxPending)
     /\ UNCHANGED <<typed, tx, terminal>>

(* Mutant: the transmit interrupt is asked for only after some progress.   *)
WriteMutant ==
  LET count == IF unsent < Chunk THEN unsent ELSE Chunk
      sent  == IF count < TxDepth - tx THEN count ELSE TxDepth - tx
  IN /\ tx' = tx + sent
     /\ unsent' = unsent - sent
     /\ tx_unmasked' = (tx_unmasked \/ (sent > 0 /\ sent < count))
     /\ woken' = (woken \/ sent > 0)
     /\ UNCHANGED <<typed, fifo, tx_raised, rx, front, failed, last>>

(* The driver's answer to TCS_SERIAL_WRITE: it takes what fits.            *)
Write ==
  LET count == IF unsent < Chunk THEN unsent ELSE Chunk
      sent  == IF count < TxDepth - tx THEN count ELSE TxDepth - tx
  IN /\ tx' = tx + sent
     /\ unsent' = unsent - sent
     /\ tx_unmasked' = (tx_unmasked \/ sent < count)
     /\ woken' = (woken \/ sent > 0)
     /\ UNCHANGED <<typed, fifo, tx_raised, rx, front, failed, last>>

-----------------------------------------------------------------------------
(* The terminal.                                                           *)

Wake ==
  /\ pc = "idle" /\ woken
  /\ woken' = FALSE
  /\ pc' = CASE failed -> "idle"
             [] ~failed /\ unsent = 0 -> "work"
             [] OTHER -> "flush"
  /\ step' = 0
  /\ UNCHANGED <<typed, uart, driver, front, unsent, failed, last>>

(* flush() with output left: at the head of a round it must finish, the    *)
(* last one need not.  Without output it does nothing and is no step.      *)
Flush ==
  /\ pc \in {"flush", "last"}
  /\ Write
  /\ pc' = IF pc = "flush" /\ unsent' = 0 THEN "work" ELSE "idle"
  /\ UNCHANGED step

(* append(): output beyond its bound stops the terminal for good.          *)
append(n) ==
  /\ unsent' = IF unsent + n > OutputSize THEN OutputSize ELSE unsent + n
  /\ failed' = (failed \/ unsent + n > OutputSize)

(* The end of a round, and of the loop.                                    *)
Round ==
  /\ step' = step + 1
  /\ pc' = CASE failed' -> "idle"
             [] ~failed' /\ step' < StepBound -> IF unsent' = 0 THEN "work" ELSE "flush"
             [] OTHER -> IF unsent' = 0 THEN "idle" ELSE "last"

HandleEvent ==
  /\ pc = "work" /\ front.pending_event # "NONE"
  /\ front' = Handle(front)
  /\ append(Message)
  /\ Round
  /\ UNCHANGED <<typed, uart, driver, woken, last>>

(* TCS_SERIAL_READ: the driver answers with the gap marker and a byte, or  *)
(* one or neither, and wakes the terminal again if it has more.            *)
Take ==
  LET lost  == rx.lost
      ready == IF lost THEN InputLost(front) ELSE front
      extra == IF lost THEN 1 ELSE 0
      i     == Head(rx.queue)
      byte  == typed[i]
  IN /\ pc = "work" /\ front.pending_event = "NONE"
     /\ rx' = tcs_serial_take(rx)
     /\ woken' = (woken \/ rx'.queue # <<>>)
     /\ \/ /\ rx.queue = <<>>
           /\ front' = ready
           /\ append(extra)
           /\ pc' = IF failed' \/ unsent' = 0 THEN "idle" ELSE "last"
           /\ UNCHANGED <<step, last>>
        \/ /\ rx.queue # <<>>
           /\ last' = i
           /\ front' = Feed(ready, byte)
           /\ append(extra + IF Echo(ready, byte) = "nothing" THEN 0 ELSE 1)
           /\ Round
     /\ UNCHANGED <<typed, uart, tx_unmasked>>

Next ==
  \/ \E c \in Alphabet \cup {"noise"} : Type(c)
  \/ Send
  \/ Irq
  \/ Wake
  \/ Flush
  \/ HandleEvent
  \/ Take

Spec == Init /\ [][Next]_vars

(* The UART sends, the driver is scheduled for its interrupt and the       *)
(* terminal when it is runnable; nobody has to type.                       *)
FairSpec ==
  /\ Spec
  /\ WF_vars(Send) /\ WF_vars(Irq)
  /\ WF_vars(Wake) /\ WF_vars(Flush) /\ WF_vars(HandleEvent) /\ WF_vars(Take)

-----------------------------------------------------------------------------
(* What was typed between the previous line end and position last.         *)
Between ==
  LET ends == {i \in 1..(last - 1) : typed[i] \in Ends}
  IN SubSeq(typed, IF ends = {} THEN 1 ELSE Max(ends) + 1, last - 1)

(* Nothing is run across a gap: a line or packet the terminal accepts is   *)
(* all that was typed since the previous line end, none of it damaged and  *)
(* none of it missing but what was erased, wherever the ring overflowed or *)
(* a byte was damaged, and however the driver's losses interleave with the *)
(* terminal's reads.                                                       *)
NoJoinedInput ==
  front.pending_event = "READY" =>
    /\ "noise" \notin Range(Between)
    /\ IF front.packet_mode
       THEN front.input.digits = Between /\ Len(Between) = PacketDigits
       ELSE front.line.bytes = Edited(Between)

(* No wake-up is lost: a terminal that waits without a notification has    *)
(* not failed and owes nothing, or, with output left, is sure to be woken: *)
(* the UART is still to raise the transmit interrupt, or has raised it,    *)
(* and the driver has it unmasked.                                         *)
NoLostWakeup ==
  /\ ~failed
  /\ pc = "idle" /\ ~woken =>
       IF unsent > 0
       THEN tx_unmasked /\ (tx_raised \/ tx > TxLevel)
       ELSE rx = [queue |-> <<>>, lost |-> FALSE] /\ front.pending_event = "NONE"

(* All that is typed is taken and answered, and all output is sent, at the *)
(* latest when the operator stops typing: whatever is in flight, the       *)
(* driver, the UART and the terminal come to rest.                         *)
Served ==
  []<>( /\ pc = "idle" /\ fifo = <<>> /\ rx = [queue |-> <<>>, lost |-> FALSE]
        /\ front.pending_event = "NONE" /\ unsent = 0 /\ tx = 0 )
=============================================================================
