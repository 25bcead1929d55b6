------------------------------ MODULE JtagUart ------------------------------
(***************************************************************************)
(* The serial line behind printf: the fast driver of the JTAG UART, its    *)
(* interrupt handler and its one-second alarm, the device's two FIFOs and  *)
(* the host at the other end of the cable.  Nios II runs one thread; the   *)
(* handler and the alarm interrupt it between any two of its accesses to   *)
(* shared state and are not interrupted themselves.  The host and the      *)
(* FIFOs move on at any time.                                              *)
(*                                                                         *)
(* A character is its number in the order of acceptance.  The two bits of  *)
(* irq_enable always equal the device's enable bits (every assignment is   *)
(* written to CONTROL at once), so re and we stand for both.  The code is  *)
(* built with -O0: host_inactive is read afresh on every turn of a loop.   *)
(* A local variable keeps its value only while the code may still read it. *)
(***************************************************************************)
EXTENDS Integers, Sequences

CONSTANTS
  BufLen,      \* slots of each software buffer (2048)
  TxDepth,     \* depth of the device's transmit FIFO (64)
  RxDepth,     \* depth of the device's receive FIFO (64)
  Almost,      \* level that makes a FIFO almost empty or almost full (8)
  Timeout,     \* alarms without host activity before the host is given up (10)
  MaxCount,    \* bound: characters in one call
  MaxChars     \* bound: characters that write accepts and the host sends

ASSUME BufferAssumption ==
  /\ BufLen \in Nat \ {0, 1}
  /\ TxDepth \in Nat \ {0}
  /\ RxDepth \in Nat \ {0}
  /\ Almost \in Nat /\ Almost < RxDepth
  /\ Timeout \in Nat \ {0}
  /\ MaxCount \in Nat

VARIABLES
  tx_buf, tx_in, tx_out,     \* software transmit buffer: slots, write and read index
  rx_buf, rx_in, rx_out,     \* software receive buffer
  re, we,                    \* irq_enable: receive and transmit interrupts
  host_inactive,             \* alarms since the last host activity, up to Timeout
  main,                      \* where the thread is in write, read or close
  left, nonblock,            \* its call: characters still to move, O_NONBLOCK
  in, out, n,                \* its copies of the indices and the size of the next piece
  isr,                       \* where the interrupt handler is ("off": not running)
  wi, space,                 \* what it read from CONTROL: write interrupt, room
  txFifo, rxFifo,            \* the device's FIFOs
  pause, ac,                 \* the device's pause_irq and activity bits
  host,                      \* whether the host is there
  accepted, delivered,       \* characters put into tx_buf; those the host got
  sent, received             \* characters the host sent; those the caller got

locals   == <<left, nonblock, in, out, n>>
txVars   == <<tx_buf, tx_in, tx_out>>
rxVars   == <<rx_buf, rx_in, rx_out>>
callVars == <<main, locals>>
isrVars  == <<isr, wi, space>>
devVars  == <<txFifo, rxFifo, pause, ac>>
numVars  == <<accepted, delivered, sent, received>>
vars == <<txVars, rxVars, re, we, host_inactive, callVars, isrVars, devVars,
          host, numVars>>

Slots == 0 .. BufLen - 1

\* (i + k) % BufLen for a piece that is no longer than the buffer
Wrap(i) == IF i >= BufLen THEN i - BufLen ELSE i

\* slots filled between a read index and a write index
Used(i, o) == IF i >= o THEN i - o ELSE i - o + BufLen

AlmostEmpty == Len(txFifo) <= Almost
AlmostFull  == RxDepth - Len(rxFifo) <= Almost

WritePending == we /\ AlmostEmpty
ReadPending  == re /\ (pause \/ AlmostFull)

\* altera_avalon_jtag_uart_init: receive interrupts on, buffers empty
Init ==
  /\ tx_buf = [s \in Slots |-> 0] /\ tx_in = 0 /\ tx_out = 0
  /\ rx_buf = [s \in Slots |-> 0] /\ rx_in = 0 /\ rx_out = 0
  /\ re = TRUE /\ we = FALSE /\ host_inactive = 0
  /\ main = "idle" /\ left = 0 /\ nonblock = FALSE
  /\ in = 0 /\ out = 0 /\ n = 0
  /\ isr = "off" /\ wi = FALSE /\ space = 0
  /\ txFifo = <<>> /\ rxFifo = <<>> /\ pause = FALSE /\ ac = FALSE
  /\ host = TRUE
  /\ accepted = 0 /\ delivered = <<>> /\ sent = 0 /\ received = <<>>
-----------------------------------------------------------------------------
(* The thread.  It stands still while the handler runs.                     *)

Call(entry) ==
  /\ isr = "off" /\ main = "idle"
  /\ main' = entry
  /\ nonblock' \in BOOLEAN
  /\ UNCHANGED <<txVars, rxVars, re, we, host_inactive, in, out, n, isrVars,
                 devVars, host, numVars>>

\* altera_avalon_jtag_uart_write(sp, ptr, count, flags)
Write == left' \in 1 .. MaxCount /\ accepted + sent + left' <= MaxChars /\ Call("copy")

\* altera_avalon_jtag_uart_read(sp, buffer, space, flags)
Read == left' \in 1 .. MaxCount /\ Call("take")

\* altera_avalon_jtag_uart_close(sp, flags)
Close == left' = 0 /\ Call("close")

Return == main' = "idle" /\ left' = 0 /\ nonblock' = FALSE
          /\ in' = 0 /\ out' = 0 /\ n' = 0

Goto(place) == main' = place /\ UNCHANGED locals

\* The piece that fits without wrapping, never the slot before the read index.
TxRoom == IF tx_in < tx_out THEN tx_out - 1 - tx_in
          ELSE IF tx_out > 0 THEN BufLen - tx_in
          ELSE BufLen - 1 - tx_in

\* write: indices read, piece copied behind tx_in
Copy ==
  /\ isr = "off" /\ main = "copy" /\ left > 0 /\ TxRoom > 0
  /\ in' = tx_in /\ UNCHANGED out
  /\ n' = IF TxRoom > left THEN left ELSE TxRoom
  /\ tx_buf' = [s \in Slots |-> IF s \in tx_in .. tx_in + n' - 1
                                THEN accepted + 1 + (s - tx_in) ELSE tx_buf[s]]
  /\ main' = "publish"
  /\ UNCHANGED <<tx_in, tx_out, rxVars, re, we, host_inactive, left, nonblock,
                 isrVars, devVars, host, numVars>>

\* write: the piece becomes visible to the handler
Publish ==
  /\ isr = "off" /\ main = "publish"
  /\ left' = left - n
  /\ tx_in' = Wrap(in + n)
  /\ accepted' = accepted + n
  /\ main' = "copy" /\ in' = 0 /\ out' = 0 /\ n' = 0
  /\ UNCHANGED <<tx_buf, tx_out, rxVars, re, we, host_inactive, nonblock,
                 isrVars, devVars, host, delivered, sent, received>>

\* write: nothing left to copy, or no room for it (n == 0)
CopyEnd ==
  /\ isr = "off" /\ main = "copy" /\ (left = 0 \/ TxRoom = 0)
  /\ out' = IF left > 0 THEN tx_out ELSE 0
  /\ main' = "enable"
  /\ UNCHANGED <<txVars, rxVars, re, we, host_inactive, left, nonblock, in, n,
                 isrVars, devVars, host, numVars>>

\* As Enable, but only when write has to wait for room.
EnableWhenFull ==
  /\ isr = "off" /\ main = "enable"
  /\ we' = (we \/ left > 0)
  /\ IF left > 0 /\ ~nonblock THEN Goto("spin") ELSE Return
  /\ UNCHANGED <<txVars, rxVars, re, host_inactive, isrVars, devVars, host,
                 numVars>>

\* write: transmit interrupts on, with interrupts disabled around it
Enable ==
  /\ isr = "off" /\ main = "enable"
  /\ we' = TRUE
  /\ IF left > 0 /\ ~nonblock THEN Goto("spin") ELSE Return
  /\ UNCHANGED <<txVars, rxVars, re, host_inactive, isrVars, devVars, host,
                 numVars>>

\* write: wait until the handler takes a character or the host is given up
Spin ==
  /\ isr = "off" /\ main = "spin"
  /\ out # tx_out \/ host_inactive >= Timeout
  /\ main' = "inactive" /\ out' = 0
  /\ UNCHANGED <<txVars, rxVars, re, we, host_inactive, left, nonblock, in, n,
                 isrVars, devVars, host, numVars>>

\* write: leave at the first sign of inactivity
Inactive ==
  /\ isr = "off" /\ main = "inactive"
  /\ IF host_inactive > 0 THEN Return ELSE Goto("copy")
  /\ UNCHANGED <<txVars, rxVars, re, we, host_inactive, isrVars, devVars,
                 host, numVars>>

RxPiece == IF rx_in >= rx_out THEN rx_in - rx_out ELSE BufLen - rx_out

\* read: indices read, a piece copied to the caller
TakePiece ==
  /\ isr = "off" /\ main = "take" /\ left > 0 /\ RxPiece > 0
  /\ out' = rx_out /\ UNCHANGED in
  /\ n' = IF RxPiece > left THEN left ELSE RxPiece
  /\ received' = received \o [k \in 1 .. n' |-> rx_buf[rx_out + k - 1]]
  /\ main' = "release"
  /\ UNCHANGED <<txVars, rxVars, re, we, host_inactive, left, nonblock,
                 isrVars, devVars, host, accepted, delivered, sent>>

\* read: its slots are given back; ptr # buffer from here on
Release ==
  /\ isr = "off" /\ main = "release"
  /\ left' = left - n
  /\ rx_out' = Wrap(out + n)
  /\ main' = "takeMore" /\ out' = 0 /\ n' = 0
  /\ UNCHANGED <<txVars, rx_buf, rx_in, re, we, host_inactive, nonblock, in,
                 isrVars, devVars, host, numVars>>

\* read: more to copy and more there
TakeMore ==
  /\ isr = "off" /\ main = "takeMore"
  /\ Goto(IF left > 0 /\ RxPiece > 0 THEN "take" ELSE "reenable")
  /\ UNCHANGED <<txVars, rxVars, re, we, host_inactive, isrVars, devVars,
                 host, numVars>>

\* read: something was read, so there is room: receive interrupts on
Reenable ==
  /\ isr = "off" /\ main = "reenable"
  /\ re' = TRUE
  /\ Return
  /\ UNCHANGED <<txVars, rxVars, we, host_inactive, isrVars, devVars, host,
                 numVars>>

\* read: nothing there: return, or wait for a character
TakeNone ==
  /\ isr = "off" /\ main = "take" /\ RxPiece = 0
  /\ IF nonblock THEN Return
     ELSE main' = "await" /\ in' = rx_in /\ UNCHANGED <<left, nonblock, out, n>>
  /\ UNCHANGED <<txVars, rxVars, re, we, host_inactive, isrVars, devVars,
                 host, numVars>>

\* As Await, but blind to the host's absence.
AwaitChar ==
  /\ isr = "off" /\ main = "await"
  /\ in # rx_in
  /\ main' = "take" /\ in' = 0 /\ UNCHANGED <<left, nonblock, out, n>>
  /\ UNCHANGED <<txVars, rxVars, re, we, host_inactive, isrVars, devVars,
                 host, numVars>>

\* read: a character came, or the host is given up
Await ==
  /\ isr = "off" /\ main = "await"
  /\ in # rx_in \/ host_inactive >= Timeout
  /\ IF in = rx_in THEN Return
     ELSE main' = "take" /\ in' = 0 /\ UNCHANGED <<left, nonblock, out, n>>
  /\ UNCHANGED <<txVars, rxVars, re, we, host_inactive, isrVars, devVars,
                 host, numVars>>

\* close: wait for the buffer to drain, or for the host to be given up
CloseEnd ==
  /\ isr = "off" /\ main = "close"
  /\ tx_out = tx_in \/ host_inactive >= Timeout \/ nonblock
  /\ Return
  /\ UNCHANGED <<txVars, rxVars, re, we, host_inactive, isrVars, devVars,
                 host, numVars>>

Thread == Copy \/ Publish \/ CopyEnd \/ Enable \/ Spin \/ Inactive
          \/ TakePiece \/ Release \/ TakeMore \/ Reenable \/ TakeNone \/ Await
          \/ CloseEnd
-----------------------------------------------------------------------------
(* The interrupt handler, altera_avalon_jtag_uart_irq.                      *)

\* The handler is entered, or goes round its loop: CONTROL is read.
IsrControl ==
  /\ IF isr = "off" THEN WritePending \/ ReadPending ELSE isr = "control"
  /\ isr' = IF ReadPending THEN "read" ELSE IF WritePending THEN "write" ELSE "off"
  /\ wi' = WritePending
  /\ space' = IF WritePending THEN TxDepth - Len(txFifo) ELSE 0
  /\ UNCHANGED <<txVars, rxVars, re, we, host_inactive, callVars, devVars,
                 host, numVars>>

\* A character from the host enters the receive FIFO.
HostPuts ==
  /\ host /\ accepted + sent < MaxChars /\ Len(rxFifo) < RxDepth
  /\ sent' = sent + 1
  /\ rxFifo' = Append(rxFifo, sent')
  /\ ac' = TRUE

\* As RxFull, but full only when no slot at all is left.
RxFullNever == Used(rx_in, rx_out) = BufLen

RxFull == Wrap(rx_in + 1) = rx_out

\* The receive loop ends; ravail: the last DATA word said that more is there.
ReadEnd(ravail) ==
  /\ re' = (re /\ ~ravail)
  /\ isr' = IF wi THEN "write" ELSE "control"

\* No slot on the first turn: nothing is read, data still holds its initial 1.
IsrReadFull ==
  /\ isr = "read" /\ RxFull
  /\ ReadEnd(TRUE)
  /\ UNCHANGED <<txVars, rxVars, we, host_inactive, callVars, wi, space,
                 devVars, host, numVars>>

\* RVALID = 0: no character.  RVALID is registered one clock before RAVAIL is
\* taken, which therefore counts a character that arrives at that very clock.
ReadNone ==
  \/ ReadEnd(FALSE) /\ UNCHANGED <<rxFifo, ac, sent>>
  \/ HostPuts /\ ReadEnd(TRUE)

\* RVALID = 1; the loop ends when that was the last free slot.
ReadOne ==
  /\ rx_buf' = [rx_buf EXCEPT ![rx_in] = Head(rxFifo)]
  /\ rx_in' = Wrap(rx_in + 1)
  /\ rxFifo' = Tail(rxFifo)
  /\ IF Wrap(rx_in' + 1) = rx_out THEN ReadEnd(rxFifo' # <<>>)
                                  ELSE UNCHANGED <<isr, re>>
  /\ UNCHANGED <<rx_out, ac, sent>>

\* DATA is read, which clears pause_irq.
IsrReadChar ==
  /\ isr = "read" /\ ~RxFull
  /\ pause' = FALSE
  /\ \/ rxFifo = <<>> /\ ReadNone /\ UNCHANGED rxVars
     \/ rxFifo # <<>> /\ ReadOne
  /\ UNCHANGED <<txVars, we, host_inactive, callVars, wi, space, txFifo, host,
                 accepted, delivered, received>>

\* As IsrWriteChar, but space stays what it was when CONTROL was read.
IsrWriteCharUncounted ==
  /\ isr = "write" /\ space > 0 /\ tx_out # tx_in
  /\ txFifo' = IF Len(txFifo) < TxDepth THEN Append(txFifo, tx_buf[tx_out])
                                        ELSE txFifo
  /\ tx_out' = Wrap(tx_out + 1)
  /\ UNCHANGED <<tx_buf, tx_in, rxVars, re, we, host_inactive, callVars, isrVars,
                 rxFifo, pause, ac, host, numVars>>

\* One character goes to the transmit FIFO, which drops it when it is full.
IsrWriteChar ==
  /\ isr = "write" /\ space > 0 /\ tx_out # tx_in
  /\ txFifo' = IF Len(txFifo) < TxDepth THEN Append(txFifo, tx_buf[tx_out])
                                        ELSE txFifo
  /\ tx_out' = Wrap(tx_out + 1)
  /\ space' = space - 1
  /\ UNCHANGED <<tx_buf, tx_in, rxVars, re, we, host_inactive, callVars, isr, wi,
                 rxFifo, pause, ac, host, numVars>>

\* As IsrWriteEnd, but with the transmit interrupt off in any case.
IsrWriteEndOff ==
  /\ isr = "write" /\ (space = 0 \/ tx_out = tx_in)
  /\ we' = FALSE
  /\ isr' = "control" /\ wi' = FALSE /\ space' = 0
  /\ UNCHANGED <<txVars, rxVars, re, host_inactive, callVars, devVars, host,
                 numVars>>

\* Room left: there was nothing more to send, transmit interrupts off.
IsrWriteEnd ==
  /\ isr = "write" /\ (space = 0 \/ tx_out = tx_in)
  /\ we' = (we /\ space = 0)
  /\ isr' = "control" /\ wi' = FALSE /\ space' = 0
  /\ UNCHANGED <<txVars, rxVars, re, host_inactive, callVars, devVars, host,
                 numVars>>

Isr == IsrControl \/ IsrReadFull \/ IsrReadChar \/ IsrWriteChar \/ IsrWriteEnd
-----------------------------------------------------------------------------
\* altera_avalon_jtag_uart_timeout, once a second.  host_inactive is only
\* compared with 0 and with timeout, so it stops at Timeout here.
Alarm ==
  /\ isr = "off"
  /\ ac' = FALSE
  /\ host_inactive' = IF ac THEN 0
                      ELSE IF host_inactive < Timeout THEN host_inactive + 1
                      ELSE host_inactive
  /\ UNCHANGED <<txVars, rxVars, re, we, callVars, isrVars, txFifo, rxFifo,
                 pause, host, numVars>>
-----------------------------------------------------------------------------
(* The host and the device.                                                 *)

HostTake ==
  /\ host /\ txFifo # <<>>
  /\ delivered' = Append(delivered, Head(txFifo))
  /\ txFifo' = Tail(txFifo)
  /\ UNCHANGED <<txVars, rxVars, re, we, host_inactive, callVars, isrVars, rxFifo,
                 pause, ac, host, accepted, sent, received>>

HostSend ==
  /\ HostPuts
  /\ UNCHANGED <<txVars, rxVars, re, we, host_inactive, callVars, isrVars, txFifo,
                 pause, host, accepted, delivered, received>>

\* The host has nothing more to send for now; this also shows that it is there.
HostPause ==
  /\ host
  /\ ac' = TRUE
  /\ pause' = (pause \/ rxFifo # <<>>)
  /\ UNCHANGED <<txVars, rxVars, re, we, host_inactive, callVars, isrVars, txFifo,
                 rxFifo, host, numVars>>

\* The host goes away.  One that is not there yet, or comes back, is one that
\* does nothing for a while.
HostLeaves ==
  /\ host /\ host' = FALSE
  /\ UNCHANGED <<txVars, rxVars, re, we, host_inactive, callVars, isrVars, devVars,
                 numVars>>

Next == \/ Write \/ Read \/ Close \/ Thread
        \/ Isr \/ Alarm
        \/ HostTake \/ HostSend \/ HostPause \/ HostLeaves

\* The thread runs on, the level-triggered interrupt is served, the alarm
\* goes off every second, a host that stays takes what is there.
Fairness == WF_vars(Thread) /\ WF_vars(Isr) /\ WF_vars(Alarm) /\ WF_vars(HostTake)

Spec == Init /\ [][Next]_vars /\ Fairness
-----------------------------------------------------------------------------
TypeOK ==
  /\ tx_buf \in [Slots -> Nat] /\ tx_in \in Slots /\ tx_out \in Slots
  /\ rx_buf \in [Slots -> Nat] /\ rx_in \in Slots /\ rx_out \in Slots
  /\ re \in BOOLEAN /\ we \in BOOLEAN /\ host_inactive \in 0 .. Timeout
  /\ main \in {"idle", "copy", "publish", "enable", "spin", "inactive", "take",
               "release", "takeMore", "reenable", "await", "close"}
  /\ left \in 0 .. MaxCount /\ nonblock \in BOOLEAN
  /\ in \in Slots /\ out \in Slots /\ n \in 0 .. left /\ n <= BufLen
  /\ main = "idle" => left = 0
  /\ isr \in {"off", "control", "read", "write"}
  /\ wi \in BOOLEAN /\ space \in 0 .. TxDepth
  /\ txFifo \in Seq(Nat) /\ Len(txFifo) <= TxDepth /\ rxFifo \in Seq(Nat)
  /\ pause \in BOOLEAN /\ ac \in BOOLEAN /\ host \in BOOLEAN
  /\ accepted \in Nat /\ sent \in Nat
  /\ delivered \in Seq(Nat) /\ received \in Seq(Nat)

\* What write has copied but not yet published.
Unpublished == main = "publish" =>
  /\ in = tx_in /\ n > 0
  /\ in + n <= BufLen
  /\ Used(tx_in, tx_out) + n < BufLen
  /\ \A k \in 0 .. n - 1 : tx_buf[in + k] = accepted + 1 + k

\* FIFO and buffer hold exactly the accepted characters the host has not got,
\* in order.
InFlight ==
  /\ accepted = Len(delivered) + Len(txFifo) + Used(tx_in, tx_out)
  /\ \A i \in 1 .. Len(txFifo) : txFifo[i] = Len(delivered) + i
  /\ \A k \in 0 .. Used(tx_in, tx_out) - 1 :
       tx_buf[Wrap(tx_out + k)] = Len(delivered) + Len(txFifo) + 1 + k

\* What the handler takes for free in the FIFO is free: the host only makes
\* more room.
RoomIsThere == Len(txFifo) + space <= TxDepth

TxInv == TypeOK /\ Unpublished /\ InFlight /\ RoomIsThere

\* What read has copied to the caller, but whose slots it still holds.
Unreleased == main = "release" =>
  /\ out = rx_out /\ n > 0 /\ n <= Len(received)
  /\ n <= Used(rx_in, rx_out) /\ out + n <= BufLen

\* Characters whose slots read has given back.
Freed == IF main = "release" THEN Len(received) - n ELSE Len(received)

\* The caller has the first characters, buffer and FIFO hold exactly the others
\* that the host has sent, all in order.
Arriving ==
  /\ sent = Freed + Used(rx_in, rx_out) + Len(rxFifo)
  /\ \A i \in 1 .. Len(received) : received[i] = i
  /\ \A k \in 0 .. Used(rx_in, rx_out) - 1 : rx_buf[Wrap(rx_out + k)] = Freed + 1 + k
  /\ \A i \in 1 .. Len(rxFifo) : rxFifo[i] = Freed + Used(rx_in, rx_out) + i

RxInv == TypeOK /\ Unreleased /\ Arriving

\* Characters in the software buffer are on their way: the transmit interrupt
\* is on, the handler is sending, or write is about to turn it on.  The reader
\* of an empty buffer has the receive interrupt on, so that a character wakes it.
NoLostWakeup ==
  /\ tx_in # tx_out => we \/ main \in {"copy", "publish", "enable"}
  /\ ~re => rx_in # rx_out \/ main \in {"release", "takeMore", "reenable"}

\* Why the handler never turns the receive interrupt off over an empty buffer,
\* although RAVAIL may count a character that RVALID does not know of: when it
\* is entered to read there is a character in the FIFO, so it has moved one
\* before it can meet RVALID = 0.
HandlerHasMoved ==
  /\ pause => rxFifo # <<>>
  /\ isr = "read" => rxFifo # <<>> \/ rx_in # rx_out

WakeupInv == TypeOK /\ NoLostWakeup /\ HandlerHasMoved

\* Write, read and the device FIFOs keep the order of the characters in both
\* directions and lose none (IsrReadChar, IsrWriteChar, Copy, TakePiece).
TxStream == INSTANCE CharStream WITH taken <- delivered
RxStream == INSTANCE CharStream WITH accepted <- sent, taken <- received

TxInOrder == TxStream!Spec
RxInOrder == RxStream!Spec

\* While characters wait and the host stays, characters keep coming out.
NeverStalls ==
  []<>(Len(delivered) = accepted \/ ~host) \/ []<><<delivered' # delivered>>_vars

\* Every call returns, whether the host is there, leaves, comes back or falls
\* silent: only a read may wait on, and only for a host that shows itself again
\* and again and sends nothing.
CallsReturn == []<>(main = "idle") \/ ([]<>ac /\ <>[](main = "await"))
=============================================================================
