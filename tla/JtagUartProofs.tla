--------------------------- MODULE JtagUartProofs ---------------------------
(***************************************************************************)
(* The JTAG UART loses, repeats and reorders nothing in either direction,  *)
(* for buffers and FIFOs of every size: TxInv and RxInv are inductive, and *)
(* under them every step of the driver, its handler and the host is a step *)
(* of CharStream.  No wake-up is lost on either side.                      *)
(***************************************************************************)
EXTENDS JtagUart, TLAPS

USE BufferAssumption DEF Slots

\* Indices wrap inside the buffer.
LEMMA WrapInSlots ==
  ASSUME NEW i \in Slots, NEW k \in 0 .. BufLen
  PROVE  Wrap(i + k) \in Slots
BY DEF Wrap

\* The write index is as many slots after the read index as are used.
LEMMA UsedSlots ==
  ASSUME NEW i \in Slots, NEW o \in Slots
  PROVE  /\ Used(i, o) \in 0 .. BufLen - 1
         /\ Wrap(o + Used(i, o)) = i
         /\ i # o => Used(i, o) > 0
BY DEF Used, Wrap

\* The used slots are slots.
LEMMA WrapUsed ==
  ASSUME NEW i \in Slots, NEW o \in Slots
  PROVE  \A j \in 0 .. Used(i, o) - 1 : Wrap(o + j) \in Slots
BY DEF Used, Wrap

\* Publishing a piece that fits adds it to the used slots.
LEMMA UsedAfterPublish ==
  ASSUME NEW i \in Slots, NEW o \in Slots, NEW k \in Nat,
         i + k <= BufLen, Used(i, o) + k < BufLen
  PROVE  Used(Wrap(i + k), o) = Used(i, o) + k
BY DEF Used, Wrap

\* Taking a character frees one slot, and the rest keep their places.
LEMMA UsedAfterTake ==
  ASSUME NEW i \in Slots, NEW o \in Slots, i # o
  PROVE  /\ Used(i, Wrap(o + 1)) = Used(i, o) - 1
         /\ \A k \in 0 .. Used(i, o) - 2 : Wrap(Wrap(o + 1) + k) = Wrap(o + k + 1)
BY DEF Used, Wrap

\* The piece that write may copy lies behind the write index, inside the
\* buffer and clear of every used slot.
LEMMA RoomIsFree ==
  ASSUME TypeOK, TxRoom > 0, NEW k \in Nat, k > 0, k <= TxRoom
  PROVE  /\ TxRoom \in Nat
         /\ tx_in + k <= BufLen
         /\ Used(tx_in, tx_out) + k < BufLen
         /\ \A j \in 0 .. Used(tx_in, tx_out) - 1 :
              Wrap(tx_out + j) \notin tx_in .. tx_in + k - 1
BY DEF TypeOK, TxRoom, Used, Wrap

-----------------------------------------------------------------------------
(* Types.                                                                   *)

Flags == <<re, we, nonblock, wi, pause, ac, host>>

BoolOK == /\ re \in BOOLEAN /\ we \in BOOLEAN /\ nonblock \in BOOLEAN
          /\ wi \in BOOLEAN /\ pause \in BOOLEAN /\ ac \in BOOLEAN
          /\ host \in BOOLEAN

TxOK == /\ tx_buf \in [Slots -> Nat] /\ tx_in \in Slots /\ tx_out \in Slots
        /\ txFifo \in Seq(Nat) /\ Len(txFifo) <= TxDepth
        /\ space \in 0 .. TxDepth
        /\ accepted \in Nat /\ delivered \in Seq(Nat)

RxOK == /\ rx_buf \in [Slots -> Nat] /\ rx_in \in Slots /\ rx_out \in Slots
        /\ rxFifo \in Seq(Nat) /\ sent \in Nat /\ received \in Seq(Nat)

CallOK == /\ main \in {"idle", "copy", "publish", "enable", "spin", "inactive", "take",
                       "release", "takeMore", "reenable", "await", "close"}
          /\ isr \in {"off", "control", "read", "write"}
          /\ host_inactive \in 0 .. Timeout
          /\ left \in 0 .. MaxCount
          /\ in \in Slots /\ out \in Slots /\ n \in 0 .. left /\ n <= BufLen
          /\ main = "idle" => left = 0

LEMMA TypeParts == TypeOK <=> BoolOK /\ TxOK /\ RxOK /\ CallOK
BY DEF TypeOK, BoolOK, TxOK, RxOK, CallOK

LEMMA BoolStep == ASSUME TypeOK, [Next]_vars PROVE BoolOK'
<1> USE DEF BoolOK, vars, txVars, rxVars, callVars, locals, isrVars, devVars, numVars
<1>0. BoolOK
  BY TypeParts
<1>1. CASE Write \/ Read \/ Close
  BY <1>0, <1>1, Zenon DEF Write, Read, Close, Call
<1>2. CASE Copy \/ Publish \/ CopyEnd \/ Spin \/ TakePiece \/ Release
  BY <1>0, <1>2, Zenon DEF Copy, Publish, CopyEnd, Spin, TakePiece, Release
<1>3. CASE Enable \/ Inactive \/ TakeMore
  BY <1>0, <1>3, Zenon DEF Enable, Inactive, TakeMore, Goto, Return
<1>4. CASE Reenable \/ TakeNone \/ Await \/ CloseEnd
  BY <1>0, <1>4, Zenon DEF Reenable, TakeNone, Await, CloseEnd, Return
<1>5. CASE IsrControl \/ IsrWriteChar \/ IsrWriteEnd
  <2>1. WritePending \in BOOLEAN
    BY Zenon DEF WritePending
  <2>2. CASE IsrControl
    BY <1>0, <2>1, <2>2, Zenon DEF IsrControl
  <2>3. CASE IsrWriteChar
    BY <1>0, <2>3, Zenon DEF IsrWriteChar
  <2>4. CASE IsrWriteEnd
    BY <1>0, <2>4, Zenon DEF IsrWriteEnd
  <2> QED BY <1>5, <2>2, <2>3, <2>4
<1>6. CASE IsrReadFull \/ IsrReadChar
  BY <1>0, <1>6, Zenon DEF IsrReadFull, IsrReadChar, ReadNone, ReadOne, HostPuts, ReadEnd
<1>7. CASE Alarm \/ HostTake \/ HostSend \/ HostPause \/ HostLeaves
  BY <1>0, <1>7, Zenon DEF Alarm, HostTake, HostSend, HostPuts, HostPause, HostLeaves
<1>8. CASE UNCHANGED vars
  BY <1>0, <1>8, Zenon
<1> QED
  BY <1>1, <1>2, <1>3, <1>4, <1>5, <1>6, <1>7, <1>8, Zenon DEF Next, Thread, Isr

LEMMA TxStep == ASSUME TypeOK, [Next]_vars PROVE TxOK'
<1> USE DEF TxOK, vars, txVars, numVars, devVars, isrVars
<1>0. TxOK /\ CallOK
  BY TypeParts
<1>1. CASE Write \/ Read \/ Close
  BY <1>0, <1>1 DEF Write, Read, Close, Call
<1>2. CASE Copy
  <2>1. tx_buf' \in [Slots -> Nat]
    BY <1>0, <1>2 DEF Copy
  <2> QED BY <1>0, <1>2, <2>1 DEF Copy
<1>3. CASE Publish
  <2>1. in \in Slots /\ n \in 0 .. BufLen
    BY <1>0 DEF CallOK
  <2>2. Wrap(in + n) \in Slots
    BY <2>1, WrapInSlots
  <2>3. tx_in' \in Slots
    BY <1>3, <2>2 DEF Publish
  <2> QED BY <1>0, <1>3, <2>1, <2>3 DEF Publish
<1>4. CASE CopyEnd \/ Enable \/ Spin \/ Inactive
  BY <1>0, <1>4 DEF CopyEnd, Enable, Spin, Inactive
<1>5. CASE TakePiece \/ Release \/ TakeMore \/ Reenable \/ TakeNone \/ Await \/ CloseEnd
  BY <1>0, <1>5 DEF TakePiece, Release, TakeMore, Reenable, TakeNone, Await, CloseEnd
<1>6. CASE IsrControl
  BY <1>0, <1>6 DEF IsrControl
<1>7. CASE IsrReadFull \/ IsrReadChar
  BY <1>0, <1>7 DEF IsrReadFull, IsrReadChar
<1>8. CASE IsrWriteChar
  <2>1. tx_out' \in Slots
    BY <1>0, <1>8, WrapInSlots DEF IsrWriteChar
  <2>2. txFifo' \in Seq(Nat) /\ Len(txFifo') <= TxDepth
    BY <1>0, <1>8 DEF IsrWriteChar
  <2>3. space' \in 0 .. TxDepth
    BY <1>0, <1>8 DEF IsrWriteChar
  <2> QED BY <1>0, <1>8, <2>1, <2>2, <2>3 DEF IsrWriteChar
<1>9. CASE IsrWriteEnd
  BY <1>0, <1>9 DEF IsrWriteEnd
<1>10. CASE Alarm \/ HostSend \/ HostPause \/ HostLeaves
  BY <1>0, <1>10 DEF Alarm, HostSend, HostPause, HostLeaves
<1>11. CASE HostTake
  BY <1>0, <1>11 DEF HostTake
<1>12. CASE UNCHANGED vars
  BY <1>0, <1>12
<1> QED
  BY <1>1, <1>2, <1>3, <1>4, <1>5, <1>6, <1>7, <1>8, <1>9, <1>10, <1>11, <1>12
  DEF Next, Thread, Isr

LEMMA RxStep == ASSUME TypeOK, [Next]_vars PROVE RxOK'
<1> USE DEF RxOK, vars, rxVars, numVars, devVars
<1>0. RxOK /\ CallOK
  BY TypeParts
<1>1. CASE Write \/ Read \/ Close \/ Copy \/ Publish \/ CopyEnd \/ Enable \/ Spin \/ Inactive
  BY <1>0, <1>1 DEF Write, Read, Close, Call, Copy, Publish, CopyEnd, Enable, Spin, Inactive
<1>2. CASE TakePiece
  <2> DEFINE m == IF RxPiece > left THEN left ELSE RxPiece
             piece == [k \in 1 .. m |-> rx_buf[rx_out + k - 1]]
  <2>1. n' = m /\ received' = received \o piece
    BY <1>2, Zenon DEF TakePiece
  <2>2. RxPiece \in Nat /\ rx_out + RxPiece <= BufLen
    BY <1>0 DEF RxPiece
  <2>3. m \in Nat /\ m <= RxPiece
    BY <1>0, <2>2 DEF CallOK
  <2>4. \A k \in 1 .. m : rx_buf[rx_out + k - 1] \in Nat
    BY <1>0, <2>2, <2>3
  <2>5. piece \in Seq(Nat)
    BY <2>3, <2>4
  <2>6. received \o piece \in Seq(Nat)
    <3> HIDE DEF piece
    <3> QED BY <1>0, <2>5
  <2> QED BY <1>0, <1>2, <2>1, <2>6, Zenon DEF TakePiece
<1>3. CASE Release
  <2>1. out \in Slots /\ n \in 0 .. BufLen
    BY <1>0 DEF CallOK
  <2>2. Wrap(out + n) \in Slots
    BY <2>1, WrapInSlots
  <2> QED BY <1>0, <1>3, <2>2 DEF Release
<1>4. CASE TakeMore \/ Reenable \/ TakeNone \/ Await \/ CloseEnd
  BY <1>0, <1>4 DEF TakeMore, Reenable, TakeNone, Await, CloseEnd
<1>5. CASE IsrControl \/ IsrReadFull \/ IsrWriteChar \/ IsrWriteEnd
  BY <1>0, <1>5 DEF IsrControl, IsrReadFull, IsrWriteChar, IsrWriteEnd
<1>6. CASE IsrReadChar
  <2>1. CASE rxFifo = <<>>
    <3>1. UNCHANGED <<rx_buf, rx_in, rx_out, received>>
      BY <1>6, <2>1 DEF IsrReadChar
    <3>2. CASE UNCHANGED <<rxFifo, sent>>
      BY <1>0, <3>1, <3>2
    <3>3. CASE HostPuts
      BY <1>0, <3>1, <3>3 DEF HostPuts
    <3> QED BY <1>6, <2>1, <3>2, <3>3 DEF IsrReadChar, ReadNone
  <2>2. CASE rxFifo # <<>>
    <3>1. Head(rxFifo) \in Nat /\ Tail(rxFifo) \in Seq(Nat)
      BY <1>0, <2>2
    <3>2. Wrap(rx_in + 1) \in Slots
      BY <1>0, WrapInSlots
    <3> QED BY <1>0, <1>6, <2>2, <3>1, <3>2 DEF IsrReadChar, ReadOne
  <2> QED BY <2>1, <2>2
<1>7. CASE Alarm \/ HostTake \/ HostPause \/ HostLeaves
  BY <1>0, <1>7 DEF Alarm, HostTake, HostPause, HostLeaves
<1>8. CASE HostSend
  BY <1>0, <1>8 DEF HostSend, HostPuts
<1>9. CASE UNCHANGED vars
  BY <1>0, <1>9
<1> QED
  BY <1>1, <1>2, <1>3, <1>4, <1>5, <1>6, <1>7, <1>8, <1>9 DEF Next, Thread, Isr

LEMMA CallStep == ASSUME TypeOK, [Next]_vars PROVE CallOK'
<1> USE DEF CallOK, vars, callVars, locals, isrVars
<1>0. CallOK /\ TxOK /\ RxOK
  BY TypeParts
<1>1. CASE Write \/ Read \/ Close
  BY <1>0, <1>1 DEF Write, Read, Close, Call
<1>2. CASE Copy
  <2>1. TxRoom \in 1 .. BufLen
    BY <1>0, <1>2 DEF Copy, TxRoom, TxOK
  <2> QED BY <1>0, <1>2, <2>1 DEF Copy, TxOK
<1>3. CASE Publish \/ CopyEnd \/ Spin
  <2>1. CASE Publish
    BY <1>0, <2>1 DEF Publish
  <2>2. CASE CopyEnd \/ Spin
    <3>1. tx_out \in Slots /\ 0 \in Slots
      BY <1>0 DEF TxOK
    <3> QED BY <1>0, <2>2, <3>1 DEF CopyEnd, Spin
  <2> QED BY <1>3, <2>1, <2>2
<1>4. CASE Enable \/ Inactive \/ TakeMore
  BY <1>0, <1>4 DEF Enable, Inactive, TakeMore, Goto, Return
<1>5. CASE TakePiece
  <2>1. RxPiece \in 1 .. BufLen
    BY <1>0, <1>5 DEF TakePiece, RxPiece, RxOK
  <2> QED BY <1>0, <1>5, <2>1 DEF TakePiece, RxOK
<1>6. CASE Release
  BY <1>0, <1>6 DEF Release
<1>7. CASE Reenable \/ TakeNone \/ Await \/ CloseEnd
  <2>1. CASE Reenable \/ CloseEnd
    BY <1>0, <2>1 DEF Reenable, CloseEnd, Return
  <2>2. CASE TakeNone \/ Await
    <3>1. rx_in \in Slots
      BY <1>0 DEF RxOK
    <3> QED BY <1>0, <2>2, <3>1 DEF TakeNone, Await, Return
  <2> QED BY <1>7, <2>1, <2>2
<1>8. CASE IsrControl \/ IsrReadFull \/ IsrReadChar \/ IsrWriteChar \/ IsrWriteEnd
  <2>1. CASE IsrReadChar
    BY <1>0, <2>1 DEF IsrReadChar, ReadNone, ReadOne, ReadEnd
  <2>2. CASE IsrControl \/ IsrReadFull \/ IsrWriteChar \/ IsrWriteEnd
    BY <1>0, <2>2 DEF IsrControl, IsrReadFull, ReadEnd, IsrWriteChar, IsrWriteEnd
  <2> QED BY <1>8, <2>1, <2>2
<1>9. CASE Alarm \/ HostTake \/ HostSend \/ HostPause \/ HostLeaves
  BY <1>0, <1>9 DEF Alarm, HostTake, HostSend, HostPause, HostLeaves
<1>10. CASE UNCHANGED vars
  BY <1>0, <1>10
<1> QED
  BY <1>1, <1>2, <1>3, <1>4, <1>5, <1>6, <1>7, <1>8, <1>9, <1>10 DEF Next, Thread, Isr

LEMMA TypeStep == ASSUME TypeOK, [Next]_vars PROVE TypeOK'
<1>1. BoolOK' /\ TxOK' /\ RxOK' /\ CallOK'
  BY BoolStep, TxStep, RxStep, CallStep
<1> QED BY <1>1 DEF TypeOK, BoolOK, TxOK, RxOK, CallOK

THEOREM TypeCorrect == Spec => []TypeOK
<1>1. Init => TypeOK
  <2> SUFFICES ASSUME Init PROVE TypeOK
    OBVIOUS
  <2>1. BoolOK
    BY Zenon DEF Init, BoolOK
  <2>2. TxOK /\ RxOK /\ CallOK
    BY DEF Init, TxOK, RxOK, CallOK
  <2> QED BY <2>1, <2>2, TypeParts
<1>2. TypeOK /\ [Next]_vars => TypeOK'
  BY TypeStep
<1> QED BY <1>1, <1>2, PTL DEF Spec
-----------------------------------------------------------------------------
(* The transmit side.                                                       *)

LEMMA InitTxInv == Init => TxInv
<1> SUFFICES ASSUME Init PROVE TxInv
  OBVIOUS
<1>1. TypeOK
  <2>1. BoolOK
    BY Zenon DEF Init, BoolOK
  <2>2. TxOK /\ RxOK /\ CallOK
    BY DEF Init, TxOK, RxOK, CallOK
  <2> QED BY <2>1, <2>2, TypeParts
<1>2. Unpublished /\ InFlight /\ RoomIsThere
  BY DEF Init, Unpublished, InFlight, RoomIsThere, Used, Wrap
<1> QED BY <1>1, <1>2 DEF TxInv

\* What the steps below use of the types.
LEMMA TxTypes ==
  ASSUME TypeOK
  PROVE  /\ tx_buf \in [Slots -> Nat] /\ tx_in \in Slots /\ tx_out \in Slots
         /\ txFifo \in Seq(Nat) /\ delivered \in Seq(Nat)
         /\ Len(txFifo) \in Nat /\ Len(delivered) \in Nat
         /\ Used(tx_in, tx_out) \in 0 .. BufLen - 1
         /\ accepted \in Nat /\ space \in 0 .. TxDepth
<1>1. /\ tx_buf \in [Slots -> Nat] /\ tx_in \in Slots /\ tx_out \in Slots
      /\ txFifo \in Seq(Nat) /\ delivered \in Seq(Nat)
      /\ accepted \in Nat /\ space \in 0 .. TxDepth
  BY DEF TypeOK
<1>2. Len(txFifo) \in Nat /\ Len(delivered) \in Nat
  BY <1>1
<1>3. Used(tx_in, tx_out) \in 0 .. BufLen - 1
  BY <1>1, UsedSlots
<1> QED BY <1>1, <1>2, <1>3

LEMMA CopyTxInv == ASSUME TxInv, Copy PROVE Unpublished' /\ InFlight' /\ RoomIsThere'
<1> DEFINE m == IF TxRoom > left THEN left ELSE TxRoom
           u == Used(tx_in, tx_out)
           d == Len(delivered)
           f == Len(txFifo)
<1>0. TypeOK /\ InFlight /\ RoomIsThere
  BY DEF TxInv
<1>1. m \in Nat /\ m > 0 /\ m <= TxRoom /\ TxRoom > 0
  BY <1>0 DEF Copy, TxRoom, TypeOK
<1>2. /\ tx_in + m <= BufLen
      /\ u + m < BufLen
      /\ \A j \in 0 .. u - 1 : Wrap(tx_out + j) \notin tx_in .. tx_in + m - 1
  <2> HIDE DEF m
  <2> QED BY <1>0, <1>1, RoomIsFree
<1>3. /\ UNCHANGED <<tx_in, tx_out, accepted, delivered, txFifo, isr, space>>
      /\ in' = tx_in /\ n' = m /\ main' = "publish" /\ isr = "off"
      /\ tx_buf' = [s \in Slots |-> IF s \in tx_in .. tx_in + m - 1
                                    THEN accepted + 1 + (s - tx_in) ELSE tx_buf[s]]
  BY Zenon DEF Copy, isrVars, devVars, numVars
<1>4. /\ \A k \in 0 .. m - 1 : tx_buf'[tx_in + k] = accepted + 1 + k
      /\ \A s \in Slots : s \notin tx_in .. tx_in + m - 1 => tx_buf'[s] = tx_buf[s]
  <2> HIDE DEF m
  <2>1. \A s \in Slots : tx_buf'[s] = IF s \in tx_in .. tx_in + m - 1
                                      THEN accepted + 1 + (s - tx_in) ELSE tx_buf[s]
    BY <1>3, Zenon
  <2>0. tx_in \in Slots /\ accepted \in Nat
    BY <1>0, TxTypes
  <2>2. \A k \in 0 .. m - 1 : tx_in + k \in Slots /\ tx_in + k \in tx_in .. tx_in + m - 1
                              /\ accepted + 1 + ((tx_in + k) - tx_in) = accepted + 1 + k
    BY <1>1, <1>2, <2>0
  <2> QED BY <2>1, <2>2
<1>5. Unpublished'
  <2>1. Used(tx_in', tx_out') = u
    BY <1>3 DEF Used
  <2> HIDE DEF m, u
  <2> QED BY <1>1, <1>2, <1>3, <1>4, <2>1 DEF Unpublished
<1>6. \A j \in 0 .. u - 1 : Wrap(tx_out + j) \in Slots
  <2>1. tx_in \in Slots /\ tx_out \in Slots
    BY <1>0, TxTypes
  <2> QED BY <2>1, WrapUsed, Zenon
<1>7. InFlight'
  <2>1. Used(tx_in', tx_out') = u
    BY <1>3 DEF Used
  <2>2. accepted = d + f + u /\ \A i \in 1 .. f : txFifo[i] = d + i
    BY <1>0 DEF InFlight
  <2>3. \A k \in 0 .. u - 1 : tx_buf[Wrap(tx_out + k)] = d + f + 1 + k
    BY <1>0 DEF InFlight
  <2>4. \A k \in 0 .. u - 1 : tx_buf'[Wrap(tx_out + k)] = d + f + 1 + k
    <3> HIDE DEF m, u, d, f
    <3> QED BY <1>2, <1>4, <1>6, <2>3
  <2>5. Len(delivered') = d /\ Len(txFifo') = f /\ \A k : Wrap(tx_out' + k) = Wrap(tx_out + k)
    BY <1>3
  <2> HIDE DEF m, u, d, f
  <2> QED BY <1>3, <2>1, <2>2, <2>4, <2>5 DEF InFlight
<1>8. RoomIsThere'
  BY <1>0, <1>3 DEF RoomIsThere
<1> QED BY <1>5, <1>7, <1>8

LEMMA PublishTxInv == ASSUME TxInv, Publish PROVE Unpublished' /\ InFlight' /\ RoomIsThere'
<1> DEFINE u == Used(tx_in, tx_out)
           d == Len(delivered)
           f == Len(txFifo)
<1>0. TypeOK /\ InFlight /\ RoomIsThere /\ Unpublished
  BY DEF TxInv
<1>1. /\ in = tx_in /\ n \in Nat /\ tx_in + n <= BufLen /\ u + n < BufLen
      /\ \A k \in 0 .. n - 1 : tx_buf[tx_in + k] = accepted + 1 + k
  BY <1>0 DEF Publish, Unpublished, TypeOK
<1>2. /\ UNCHANGED <<tx_buf, tx_out, delivered, txFifo, isr, space>>
      /\ main' = "copy" /\ accepted' = accepted + n /\ tx_in' = Wrap(tx_in + n)
  BY <1>1, Zenon DEF Publish, isrVars, devVars
<1>3. u \in 0 .. BufLen - 1 /\ Wrap(tx_out + u) = tx_in /\ Used(tx_in', tx_out') = u + n
  <2>1. tx_in \in Slots /\ tx_out \in Slots
    BY <1>0, TxTypes
  <2>2. Used(Wrap(tx_in + n), tx_out) = u + n
    BY <1>1, <2>1, UsedAfterPublish
  <2> QED BY <1>2, <2>1, <2>2, UsedSlots
<1>4. \A k \in 0 .. n - 1 : Wrap(tx_out + (u + k)) = tx_in + k
  <2>1. tx_in \in Slots /\ tx_out \in Slots
    BY <1>0, TxTypes
  <2> QED BY <1>1, <2>1 DEF Used, Wrap
<1>5. accepted = d + f + u /\ d \in Nat /\ f \in Nat
  BY <1>0, TxTypes DEF InFlight
<1>6. \A k \in 0 .. u + n - 1 : tx_buf[Wrap(tx_out + k)] = d + f + 1 + k
  <2>1. \A k \in 0 .. u - 1 : tx_buf[Wrap(tx_out + k)] = d + f + 1 + k
    BY <1>0 DEF InFlight
  <2> HIDE DEF u, d, f
  <2> TAKE k \in 0 .. u + n - 1
  <2>2. CASE k < u
    BY <1>3, <2>1, <2>2
  <2>3. CASE k >= u
    <3>1. k - u \in 0 .. n - 1 /\ u + (k - u) = k
      BY <1>1, <1>3, <2>3
    <3>2. Wrap(tx_out + k) = tx_in + (k - u)
      BY <1>4, <3>1, Zenon
    <3>3. tx_buf[tx_in + (k - u)] = accepted + 1 + (k - u)
      BY <1>1, <3>1, Zenon
    <3>4. accepted + 1 + (k - u) = d + f + 1 + k
      BY <1>1, <1>3, <1>5, <3>1
    <3> QED BY <3>2, <3>3, <3>4, Zenon
  <2> QED BY <1>1, <1>3, <2>2, <2>3
<1>7. InFlight'
  <2>1. Len(delivered') = d /\ Len(txFifo') = f /\ \A k : Wrap(tx_out' + k) = Wrap(tx_out + k)
    BY <1>2
  <2>2. \A i \in 1 .. f : txFifo'[i] = d + i
    BY <1>0, <1>2 DEF InFlight
  <2> HIDE DEF u, d, f
  <2>3. accepted' = d + f + (u + n)
    BY <1>1, <1>2, <1>3, <1>5
  <2>4. \A k \in 0 .. u + n - 1 : tx_buf'[Wrap(tx_out' + k)] = d + f + 1 + k
    BY <1>2, <1>6, <2>1, Zenon
  <2>5. Used(tx_in', tx_out') = u + n
    BY <1>3
  <2>6. accepted' = Len(delivered') + Len(txFifo') + Used(tx_in', tx_out')
    BY <2>1, <2>3, <2>5
  <2>7. \A i \in 1 .. Len(txFifo') : txFifo'[i] = Len(delivered') + i
    BY <2>1, <2>2
  <2>8. \A k \in 0 .. Used(tx_in', tx_out') - 1 :
          tx_buf'[Wrap(tx_out' + k)] = Len(delivered') + Len(txFifo') + 1 + k
    <3> TAKE k \in 0 .. Used(tx_in', tx_out') - 1
    <3>1. k \in 0 .. u + n - 1
      BY <1>1, <1>3
    <3>2. tx_buf'[Wrap(tx_out' + k)] = d + f + 1 + k
      BY <2>4, <3>1, Zenon
    <3> QED BY <2>1, <3>2
  <2> QED BY <2>6, <2>7, <2>8, Zenon DEF InFlight
<1>8. Unpublished' /\ RoomIsThere'
  BY <1>0, <1>2 DEF Unpublished, RoomIsThere
<1> QED BY <1>7, <1>8

LEMMA IsrWriteTxInv == ASSUME TxInv, IsrWriteChar PROVE Unpublished' /\ InFlight' /\ RoomIsThere'
<1> DEFINE u == Used(tx_in, tx_out)
           d == Len(delivered)
           f == Len(txFifo)
<1>0. TypeOK /\ InFlight /\ RoomIsThere /\ Unpublished
  BY DEF TxInv
<1>1. /\ UNCHANGED <<tx_buf, tx_in, delivered, accepted, isr, main, in, n>>
      /\ isr = "write" /\ space > 0 /\ tx_in # tx_out /\ space' = space - 1
      /\ tx_out' = Wrap(tx_out + 1)
  BY Zenon DEF IsrWriteChar, callVars, locals, numVars
<1>2. f < TxDepth /\ f \in Nat /\ d \in Nat
  BY <1>0, <1>1, TxTypes DEF RoomIsThere
<1>3. txFifo' = Append(txFifo, tx_buf[tx_out])
  BY <1>2, Zenon DEF IsrWriteChar
<1>4. /\ Len(txFifo') = f + 1 /\ \A i \in 1 .. f : txFifo'[i] = txFifo[i]
      /\ txFifo'[f + 1] = tx_buf[tx_out]
  BY <1>0, <1>3, TxTypes
<1>5. /\ u \in 1 .. BufLen - 1 /\ Used(tx_in', tx_out') = u - 1
      /\ \A k \in 0 .. u - 2 : Wrap(tx_out' + k) = Wrap(tx_out + k + 1)
  <2>1. tx_in \in Slots /\ tx_out \in Slots
    BY <1>0, TxTypes
  <2>2. Used(tx_in, Wrap(tx_out + 1)) = u - 1
    BY <1>1, <2>1, UsedAfterTake
  <2>3. \A k \in 0 .. u - 2 : Wrap(Wrap(tx_out + 1) + k) = Wrap(tx_out + k + 1)
    BY <1>1, <2>1, UsedAfterTake
  <2>4. u \in 1 .. BufLen - 1
    BY <1>1, <2>1, UsedSlots
  <2> QED BY <1>1, <2>2, <2>3, <2>4, Zenon
<1>6. \A k \in 0 .. u - 1 : tx_buf[Wrap(tx_out + k)] = d + f + 1 + k
  BY <1>0 DEF InFlight
<1>7. tx_buf[tx_out] = d + f + 1
  <2>1. Wrap(tx_out + 0) = tx_out /\ 0 \in 0 .. u - 1
    BY <1>0, <1>5, TxTypes DEF Wrap
  <2> HIDE DEF u, d, f
  <2> QED BY <1>2, <1>6, <2>1
<1>8. InFlight'
  <2>1. accepted = d + f + u /\ \A i \in 1 .. f : txFifo[i] = d + i
    BY <1>0 DEF InFlight
  <2>2. Len(delivered') = d
    BY <1>1
  <2> HIDE DEF u, d, f
  <2>3. accepted' = d + (f + 1) + (u - 1)
    BY <1>1, <1>2, <1>5, <2>1
  <2>4. \A i \in 1 .. f + 1 : txFifo'[i] = d + i
    BY <1>2, <1>4, <1>7, <2>1
  <2>5. \A k \in 0 .. u - 2 : tx_buf[Wrap(tx_out + k + 1)] = d + (f + 1) + 1 + k
    <3> TAKE k \in 0 .. u - 2
    <3>1. k + 1 \in 0 .. u - 1
      BY <1>5
    <3>2. tx_buf[Wrap(tx_out + (k + 1))] = d + f + 1 + (k + 1)
      BY <1>6, <3>1, Zenon
    <3>3. tx_out + (k + 1) = tx_out + k + 1 /\ d + f + 1 + (k + 1) = d + (f + 1) + 1 + k
      BY <1>0, <1>2, <1>5, TxTypes
    <3> QED BY <3>2, <3>3
  <2>6. \A k \in 0 .. (u - 1) - 1 : tx_buf'[Wrap(tx_out' + k)] = d + (f + 1) + 1 + k
    <3> TAKE k \in 0 .. (u - 1) - 1
    <3>1. k \in 0 .. u - 2
      BY <1>5
    <3> QED BY <1>1, <1>5, <2>5, <3>1, Zenon
  <2> QED BY <1>1, <1>4, <1>5, <2>2, <2>3, <2>4, <2>6 DEF InFlight
<1>9. Unpublished'
  <2> SUFFICES ASSUME main = "publish" PROVE Unpublished'
    BY <1>1 DEF Unpublished
  <2>1. in = tx_in /\ n > 0 /\ in + n <= BufLen /\ u + n < BufLen
    BY <1>0 DEF Unpublished
  <2>2. \A k \in 0 .. n - 1 : tx_buf[in + k] = accepted + 1 + k
    BY <1>0 DEF Unpublished
  <2>3. n \in Nat
    BY <1>0 DEF TypeOK
  <2>4. (u - 1) + n < BufLen
    BY <1>5, <2>1, <2>3
  <2> HIDE DEF u
  <2> QED BY <1>1, <1>5, <2>1, <2>2, <2>4 DEF Unpublished
<1>10. RoomIsThere'
  BY <1>0, <1>1, <1>2, <1>4, TxTypes DEF RoomIsThere
<1> QED BY <1>8, <1>9, <1>10

LEMMA HostTakeTxInv == ASSUME TxInv, HostTake PROVE Unpublished' /\ InFlight' /\ RoomIsThere'
<1> DEFINE u == Used(tx_in, tx_out)
           d == Len(delivered)
           f == Len(txFifo)
<1>0. TypeOK /\ InFlight /\ RoomIsThere /\ Unpublished
  BY DEF TxInv
<1>1. /\ UNCHANGED <<tx_buf, tx_in, tx_out, accepted, isr, space, main, in, n>>
      /\ txFifo # <<>> /\ txFifo' = Tail(txFifo)
      /\ delivered' = Append(delivered, Head(txFifo))
  BY Zenon DEF HostTake, txVars, callVars, locals, isrVars
<1>2. f \in Nat /\ d \in Nat /\ u \in Nat
  BY <1>0, TxTypes
<1>3. /\ Len(delivered') = d + 1
      /\ Len(txFifo') = f - 1
      /\ \A i \in 1 .. f - 1 : txFifo'[i] = txFifo[i + 1]
  BY <1>0, <1>1, TxTypes
<1>4. Used(tx_in', tx_out') = u /\ \A k : Wrap(tx_out' + k) = Wrap(tx_out + k)
  BY <1>1 DEF Used
<1>5. InFlight'
  <2>1. accepted = d + f + u /\ \A i \in 1 .. f : txFifo[i] = d + i
    BY <1>0 DEF InFlight
  <2>2. \A k \in 0 .. u - 1 : tx_buf[Wrap(tx_out + k)] = d + f + 1 + k
    BY <1>0 DEF InFlight
  <2> HIDE DEF u, d, f
  <2>3. accepted' = (d + 1) + (f - 1) + u
    BY <1>1, <1>2, <2>1
  <2>4. \A i \in 1 .. f - 1 : txFifo'[i] = (d + 1) + i
    BY <1>2, <1>3, <2>1
  <2>5. \A k \in 0 .. u - 1 : tx_buf'[Wrap(tx_out' + k)] = (d + 1) + (f - 1) + 1 + k
    BY <1>1, <1>2, <1>4, <2>2
  <2> QED BY <1>3, <1>4, <2>3, <2>4, <2>5 DEF InFlight
<1>6. Unpublished'
  <2> HIDE DEF u
  <2> QED BY <1>0, <1>1, <1>4 DEF Unpublished, u
<1>7. RoomIsThere'
  BY <1>0, <1>1, <1>2, <1>3, TxTypes DEF RoomIsThere
<1> QED BY <1>5, <1>6, <1>7

\* Every other step leaves the transmit side alone.
LEMMA OtherTxInv ==
  ASSUME TxInv, [Next]_vars, ~Copy, ~Publish, ~IsrWriteChar, ~HostTake
  PROVE  Unpublished' /\ InFlight' /\ RoomIsThere'
<1> USE DEF vars, txVars, callVars, locals, isrVars, devVars, numVars
<1>0. TypeOK /\ InFlight /\ RoomIsThere /\ Unpublished
  BY DEF TxInv
<1>1. UNCHANGED <<tx_buf, tx_in, tx_out, txFifo, accepted, delivered>>
  BY DEF Next, Thread, Isr, Write, Read, Close, Call, CopyEnd, Enable, Spin, Inactive,
         TakePiece, Release, TakeMore, Reenable, TakeNone, Await, CloseEnd, IsrControl,
         IsrReadFull, IsrReadChar, IsrWriteEnd, Alarm, HostSend, HostPause, HostLeaves
<1>2. main' # "publish" \/ UNCHANGED <<main, in, n>>
  BY DEF Next, Thread, Isr, Write, Read, Close, Call, CopyEnd, Enable, Spin, Inactive,
         TakePiece, Release, TakeMore, Reenable, TakeNone, Await, CloseEnd, IsrControl,
         IsrReadFull, IsrReadChar, IsrWriteEnd, Alarm, HostSend, HostPause, HostLeaves,
         Goto, Return
<1>3. space' = space \/ space' = TxDepth - Len(txFifo) \/ space' = 0
  <2>1. CASE IsrControl \/ IsrWriteEnd
    BY <2>1 DEF IsrControl, IsrWriteEnd
  <2>2. CASE ~IsrControl /\ ~IsrWriteEnd
    BY <2>2 DEF Next, Thread, Isr, Write, Read, Close, Call, CopyEnd, Enable, Spin,
         Inactive, TakePiece, Release, TakeMore, Reenable, TakeNone, Await, CloseEnd,
         IsrReadFull, IsrReadChar, Alarm, HostSend, HostPause, HostLeaves
  <2> QED BY <2>1, <2>2
<1>4. InFlight'
  BY <1>0, <1>1 DEF InFlight, Used
<1>5. Unpublished'
  BY <1>0, <1>1, <1>2 DEF Unpublished, Used
<1>6. RoomIsThere'
  <2>1. /\ Len(txFifo) \in Nat /\ Len(txFifo) <= TxDepth /\ Len(txFifo) + space <= TxDepth
        /\ space \in Nat
    BY <1>0, TxTypes DEF RoomIsThere, TypeOK
  <2>2. Len(txFifo') = Len(txFifo)
    BY <1>1
  <2>3. Len(txFifo) + space' <= TxDepth
    BY <1>3, <2>1
  <2> QED BY <2>2, <2>3 DEF RoomIsThere
<1> QED BY <1>4, <1>5, <1>6

\* Every step keeps the invariant.
LEMMA TxInvStep == TxInv /\ [Next]_vars => TxInv'
<1> SUFFICES ASSUME TxInv, [Next]_vars PROVE TxInv'
  OBVIOUS
<1>1. TypeOK'
  BY TypeStep DEF TxInv
<1>2. Unpublished' /\ InFlight' /\ RoomIsThere'
  BY CopyTxInv, PublishTxInv, IsrWriteTxInv, HostTakeTxInv, OtherTxInv
<1> QED BY <1>1, <1>2 DEF TxInv

\* Buffer and FIFO always hold the accepted characters the host has not got,
\* in order, and the handler never overfills the FIFO.
THEOREM TransmitInvariant == Spec => []TxInv
<1>1. Init => TxInv
  BY InitTxInv
<1>2. TxInv /\ [Next]_vars => TxInv'
  BY TxInvStep
<1> QED BY <1>1, <1>2, PTL DEF Spec

\* Every step of the driver, its handler and the host is a step of the abstract
\* line or leaves it alone.
LEMMA TxRefines ==
  ASSUME TxInv, [Next]_vars
  PROVE  [TxStream!Next]_(TxStream!vars)
<1> USE DEF TxStream!Next, TxStream!vars, TxStream!Put, TxStream!Take
<1>0. /\ TypeOK /\ InFlight /\ Unpublished
      /\ accepted \in Nat /\ delivered \in Seq(Nat) /\ Len(delivered) \in Nat
      /\ txFifo \in Seq(Nat) /\ Used(tx_in, tx_out) \in Nat
  BY TxTypes DEF TxInv
<1>1. CASE Publish
  <2>1. n \in Nat /\ n > 0 /\ accepted' = accepted + n /\ delivered' = delivered
    BY <1>0, <1>1 DEF Publish, Unpublished, TypeOK
  <2> QED BY <1>0, <2>1
<1>2. CASE HostTake
  <2>1. /\ txFifo # <<>> /\ delivered' = Append(delivered, Head(txFifo))
        /\ accepted' = accepted
    BY <1>2 DEF HostTake
  <2>2. Len(txFifo) \in Nat /\ Len(txFifo) > 0 /\ Head(txFifo) = txFifo[1]
    BY <1>0, <2>1
  <2>3. Head(txFifo) = Len(delivered) + 1
    BY <1>0, <2>2 DEF InFlight
  <2>4. Len(delivered) + 1 <= accepted
    BY <1>0, <2>2 DEF InFlight
  <2>5. /\ delivered' \in Seq(Nat) /\ Len(delivered') = Len(delivered) + 1
        /\ \A i \in 1 .. Len(delivered) + 1 :
             delivered'[i] = IF i <= Len(delivered) THEN delivered[i] ELSE i
    BY <1>0, <2>1, <2>3
  <2> QED BY <1>0, <2>1, <2>4, <2>5
<1>3. CASE ~Publish /\ ~HostTake
  <2>1. UNCHANGED <<accepted, delivered>>
    BY <1>3 DEF Next, Thread, Isr, Write, Read, Close, Call, Copy, CopyEnd, Enable, Spin,
       Inactive, TakePiece, Release, TakeMore, Reenable, TakeNone, Await, CloseEnd,
       IsrControl, IsrReadFull, IsrReadChar, IsrWriteChar, IsrWriteEnd, Alarm, HostSend,
       HostPause, HostLeaves, vars, numVars
  <2> QED BY <2>1
<1> QED BY <1>1, <1>2, <1>3

\* The host gets what write accepted, in order, nothing lost or repeated.
THEOREM TransmitImplementsStream == Spec => TxInOrder
<1>1. Init => TxStream!Init
  BY DEF Init, TxStream!Init
<1>2. TxInv /\ [Next]_vars => [TxStream!Next]_(TxStream!vars)
  BY TxRefines
<1> QED
  BY <1>1, <1>2, TransmitInvariant, PTL DEF Spec, TxInOrder, TxStream!Spec
-----------------------------------------------------------------------------
(* The receive side.                                                        *)

\* The piece that read may copy lies in the used slots, inside the buffer.
LEMMA PieceIsUsed ==
  ASSUME TypeOK
  PROVE  /\ RxPiece \in Nat /\ RxPiece <= Used(rx_in, rx_out)
         /\ rx_out + RxPiece <= BufLen
BY DEF TypeOK, RxPiece, Used

\* Giving slots back frees them, and the rest keep their places.
LEMMA UsedAfterRelease ==
  ASSUME NEW i \in Slots, NEW o \in Slots, NEW k \in Nat, k <= Used(i, o), o + k <= BufLen
  PROVE  /\ Wrap(o + k) \in Slots
         /\ Used(i, Wrap(o + k)) = Used(i, o) - k
         /\ \A j \in 0 .. Used(i, o) - k - 1 : Wrap(Wrap(o + k) + j) = Wrap(o + (k + j))
BY DEF Used, Wrap

\* The slot that the handler fills is not a used one, and becomes the last.
LEMMA UsedAfterFill ==
  ASSUME NEW i \in Slots, NEW o \in Slots, Wrap(i + 1) # o
  PROVE  /\ Wrap(i + 1) \in Slots /\ Used(Wrap(i + 1), o) = Used(i, o) + 1
         /\ \A k \in 0 .. Used(i, o) - 1 : Wrap(o + k) # i
BY DEF Used, Wrap

\* The elements of a piece put behind a sequence.
LEMMA ConcatPiece ==
  ASSUME NEW s \in Seq(Nat), NEW m \in Nat, NEW piece \in [1 .. m -> Nat]
  PROVE  /\ s \o piece \in Seq(Nat) /\ Len(s \o piece) = Len(s) + m
         /\ \A i \in 1 .. Len(s) : (s \o piece)[i] = s[i]
         /\ \A k \in 1 .. m : (s \o piece)[Len(s) + k] = piece[k]
<1>1. piece \in Seq(Nat) /\ Len(piece) = m
  OBVIOUS
<1>2. s \o piece \in Seq(Nat) /\ Len(s \o piece) = Len(s) + m
  <2>1. \A t \in Seq(Nat) : s \o t \in Seq(Nat) /\ Len(s \o t) = Len(s) + Len(t)
    OBVIOUS
  <2> QED BY <1>1, <2>1, Zenon
<1>3. \A i \in 1 .. Len(s) + Len(piece) :
        (s \o piece)[i] = IF i <= Len(s) THEN s[i] ELSE piece[i - Len(s)]
  BY <1>1
<1>4. Len(s) \in Nat
  OBVIOUS
<1>5. ASSUME NEW i \in 1 .. Len(s) PROVE (s \o piece)[i] = s[i]
  <2>1. i \in 1 .. Len(s) + Len(piece) /\ i <= Len(s)
    BY <1>1, <1>4
  <2> QED BY <1>3, <2>1, Zenon
<1>6. ASSUME NEW k \in 1 .. m PROVE (s \o piece)[Len(s) + k] = piece[k]
  <2>1. /\ Len(s) + k \in 1 .. Len(s) + Len(piece) /\ ~(Len(s) + k <= Len(s))
        /\ (Len(s) + k) - Len(s) = k
    BY <1>1, <1>4
  <2>2. (s \o piece)[Len(s) + k] = piece[(Len(s) + k) - Len(s)]
    BY <1>3, <2>1, Zenon
  <2> QED BY <2>1, <2>2, Zenon
<1> QED BY <1>2, <1>5, <1>6

\* What the steps below use of the types.
LEMMA RxTypes ==
  ASSUME RxInv
  PROVE  /\ rx_buf \in [Slots -> Nat] /\ rx_in \in Slots /\ rx_out \in Slots
         /\ rxFifo \in Seq(Nat) /\ received \in Seq(Nat)
         /\ Len(rxFifo) \in Nat /\ Len(received) \in Nat
         /\ Used(rx_in, rx_out) \in 0 .. BufLen - 1
         /\ sent \in Nat /\ n \in Nat /\ Freed \in Nat
<1>1. /\ rx_buf \in [Slots -> Nat] /\ rx_in \in Slots /\ rx_out \in Slots
      /\ rxFifo \in Seq(Nat) /\ received \in Seq(Nat) /\ sent \in Nat /\ n \in Nat
  BY DEF RxInv, TypeOK
<1>2. Len(rxFifo) \in Nat /\ Len(received) \in Nat
  BY <1>1
<1>3. Used(rx_in, rx_out) \in 0 .. BufLen - 1
  BY <1>1, UsedSlots
<1>4. Freed \in Nat
  BY <1>1, <1>2 DEF RxInv, Unreleased, Freed
<1> QED BY <1>1, <1>2, <1>3, <1>4

\* The piece copied to the caller is the next one.
LEMMA TakePieceRx == ASSUME RxInv, TakePiece PROVE Unreleased' /\ Arriving'
<1> DEFINE u == Used(rx_in, rx_out)
           m == IF RxPiece > left THEN left ELSE RxPiece
           piece == [k \in 1 .. m |-> rx_buf[rx_out + k - 1]]
<1>0. TypeOK /\ Arriving
  BY DEF RxInv
<1>1. /\ UNCHANGED <<rx_buf, rx_in, rx_out, rxFifo, sent>>
      /\ main = "take" /\ main' = "release" /\ out' = rx_out /\ n' = m
      /\ received' = received \o piece
  BY Zenon DEF TakePiece, rxVars, devVars
<1>2. m \in Nat /\ m > 0 /\ m <= RxPiece
  <2>1. left > 0 /\ RxPiece > 0 /\ left \in 0 .. MaxCount
    BY <1>0, Zenon DEF TakePiece, TypeOK
  <2>2. RxPiece \in Nat
    BY <1>0, PieceIsUsed, Zenon
  <2> QED BY <2>1, <2>2
<1>3. m <= u /\ rx_out + m <= BufLen
  <2>1. RxPiece \in Nat /\ RxPiece <= u /\ rx_out + RxPiece <= BufLen
    BY <1>0, PieceIsUsed, Zenon
  <2>2. u \in 0 .. BufLen - 1 /\ rx_out \in Slots
    BY RxTypes, Zenon
  <2> HIDE DEF m, u
  <2> QED BY <1>2, <2>1, <2>2
<1>4. Freed = Len(received)
  BY <1>1 DEF Freed
<1>5. \A k \in 1 .. m : piece[k] = Len(received) + k /\ piece[k] \in Nat
  <2> HIDE DEF m, u
  <2> SUFFICES ASSUME NEW k \in 1 .. m PROVE piece[k] = Len(received) + k /\ piece[k] \in Nat
    OBVIOUS
  <2>0. u \in 0 .. BufLen - 1 /\ rx_out \in Slots
    BY RxTypes, Zenon DEF u
  <2>1. k - 1 \in 0 .. u - 1 /\ Wrap(rx_out + (k - 1)) = rx_out + k - 1
    BY <1>2, <1>3, <2>0 DEF Wrap
  <2>2. rx_buf[Wrap(rx_out + (k - 1))] = Freed + 1 + (k - 1)
    BY <1>0, <2>1 DEF Arriving, u
  <2> QED BY <1>2, <1>4, <2>1, <2>2, RxTypes
<1> HIDE DEF m
<1>6. piece \in [1 .. m -> Nat]
  BY <1>5
<1> HIDE DEF piece
<1>7. /\ Len(received') = Len(received) + m
      /\ \A i \in 1 .. Len(received) : received'[i] = received[i]
      /\ \A k \in 1 .. m : received'[Len(received) + k] = piece[k]
  <2>1. received \in Seq(Nat) /\ m \in Nat
    BY <1>2, RxTypes, Zenon
  <2>2. received' = received \o piece
    BY <1>1, Zenon
  <2>3. /\ Len(received \o piece) = Len(received) + m
        /\ \A i \in 1 .. Len(received) : (received \o piece)[i] = received[i]
        /\ \A k \in 1 .. m : (received \o piece)[Len(received) + k] = piece[k]
    BY <1>6, <2>1, ConcatPiece
  <2> QED BY <2>2, <2>3
<1>8. Freed' = Freed
  BY <1>1, <1>2, <1>4, <1>7, RxTypes DEF Freed
<1>9. Used(rx_in, rx_out)' = u /\ \A k : Wrap(rx_out + k)' = Wrap(rx_out + k)
  BY <1>1 DEF Used
<1>10. Unreleased'
  <2> HIDE DEF u
  <2> QED BY <1>1, <1>2, <1>3, <1>7, <1>9, RxTypes DEF Unreleased
<1>11. \A i \in 1 .. Len(received') : received'[i] = i
  <2> SUFFICES ASSUME NEW i \in 1 .. Len(received') PROVE received'[i] = i
    OBVIOUS
  <2>0. i \in Nat /\ i >= 1 /\ Len(received) \in Nat
    <3>1. Len(received) \in Nat
      BY RxTypes, Zenon
    <3> QED BY <1>2, <1>7, <3>1
  <2>1. CASE i <= Len(received)
    <3>1. i \in 1 .. Len(received)
      BY <2>0, <2>1
    <3>2. received[i] = i /\ received'[i] = received[i]
      BY <1>0, <1>7, <3>1, Zenon DEF Arriving
    <3> QED BY <3>2, Zenon
  <2>2. CASE i > Len(received)
    <3>1. i - Len(received) \in 1 .. m /\ Len(received) + (i - Len(received)) = i
      BY <1>2, <1>7, <2>2, RxTypes
    <3>2. received'[Len(received) + (i - Len(received))] = Len(received) + (i - Len(received))
      BY <1>5, <1>7, <3>1, Zenon
    <3> QED BY <3>1, <3>2
  <2> QED BY <1>2, <1>7, <2>1, <2>2, RxTypes
<1>12. Arriving'
  BY <1>0, <1>1, <1>8, <1>9, <1>11, Zenon DEF Arriving
<1> QED BY <1>10, <1>12

\* The slots given back are those of the piece copied before.
LEMMA ReleaseRx == ASSUME RxInv, Release PROVE Unreleased' /\ Arriving'
<1> DEFINE u == Used(rx_in, rx_out)
<1>0. TypeOK /\ Arriving /\ Unreleased
  BY DEF RxInv
<1>1. /\ UNCHANGED <<rx_buf, rx_in, rxFifo, sent, received>>
      /\ main = "release" /\ main' = "takeMore" /\ rx_out' = Wrap(out + n)
  BY Zenon DEF Release, devVars, numVars
<1>2. out = rx_out /\ n <= Len(received) /\ n <= u /\ rx_out + n <= BufLen
  BY <1>0, <1>1 DEF Unreleased
<1>3. /\ Used(rx_in', rx_out') = u - n
      /\ \A j \in 0 .. u - n - 1 : Wrap(rx_out' + j) = Wrap(rx_out + (n + j))
  <2>1. rx_in \in Slots /\ rx_out \in Slots /\ n \in Nat
    BY RxTypes, Zenon
  <2>2. n <= Used(rx_in, rx_out) /\ rx_out + n <= BufLen
    BY <1>2, Zenon
  <2>3. rx_in' = rx_in /\ rx_out' = Wrap(rx_out + n)
    BY <1>1, <1>2, Zenon
  <2>4. /\ Used(rx_in, Wrap(rx_out + n)) = Used(rx_in, rx_out) - n
        /\ \A j \in 0 .. Used(rx_in, rx_out) - n - 1 :
             Wrap(Wrap(rx_out + n) + j) = Wrap(rx_out + (n + j))
    BY <2>1, <2>2, UsedAfterRelease
  <2> QED BY <2>3, <2>4, Zenon
<1>4. Freed' = Freed + n /\ Freed' = Len(received)
  BY <1>1, <1>2, RxTypes DEF Freed
<1>5. /\ sent = Freed + u + Len(rxFifo)
      /\ \A k \in 0 .. u - 1 : rx_buf[Wrap(rx_out + k)] = Freed + 1 + k
      /\ \A i \in 1 .. Len(rxFifo) : rxFifo[i] = Freed + u + i
  BY <1>0 DEF Arriving
<1>6. u \in Nat /\ Freed \in Nat /\ n \in Nat /\ Len(rxFifo) \in Nat
  BY RxTypes
<1> HIDE DEF u
<1>7. \A k \in 0 .. u - n - 1 : rx_buf'[Wrap(rx_out' + k)] = Freed' + 1 + k
  <2> SUFFICES ASSUME NEW k \in 0 .. u - n - 1 PROVE rx_buf'[Wrap(rx_out' + k)] = Freed' + 1 + k
    OBVIOUS
  <2>1. n + k \in 0 .. u - 1 /\ Freed + 1 + (n + k) = (Freed + n) + 1 + k
    BY <1>2, <1>6
  <2>2. rx_buf'[Wrap(rx_out' + k)] = rx_buf[Wrap(rx_out + (n + k))]
    BY <1>1, <1>3, Zenon
  <2> QED BY <1>4, <1>5, <2>1, <2>2
<1>8. Arriving'
  <2>1. sent' = Freed' + Used(rx_in', rx_out') + Len(rxFifo')
    BY <1>1, <1>3, <1>4, <1>5, <1>6
  <2>2. Freed' + (u - n) = Freed + u
    BY <1>4, <1>6
  <2>3. \A i \in 1 .. Len(rxFifo') : rxFifo'[i] = Freed' + Used(rx_in', rx_out') + i
    BY <1>1, <1>3, <1>5, <2>2
  <2>4. \A i \in 1 .. Len(received') : received'[i] = i
    BY <1>0, <1>1 DEF Arriving
  <2> QED BY <1>3, <1>7, <2>1, <2>3, <2>4, Zenon DEF Arriving
<1>9. Unreleased'
  BY <1>1 DEF Unreleased
<1> QED BY <1>8, <1>9

\* A character of the host goes behind the others.
LEMMA HostPutsRx ==
  ASSUME RxInv, HostPuts, UNCHANGED <<rx_buf, rx_in, rx_out, received, main, n, out>>
  PROVE  Unreleased' /\ Arriving'
<1> DEFINE u == Used(rx_in, rx_out)
<1>0. TypeOK /\ Arriving /\ Unreleased
  BY DEF RxInv
<1>1. /\ UNCHANGED <<rx_buf, rx_in, rx_out, received, main, n, out>>
      /\ sent' = sent + 1 /\ rxFifo' = Append(rxFifo, sent + 1)
  BY Zenon DEF HostPuts
<1>2. Freed' = Freed
  BY <1>1 DEF Freed
<1>3. Used(rx_in, rx_out)' = u /\ \A k : Wrap(rx_out + k)' = Wrap(rx_out + k)
  BY <1>1 DEF Used
<1>4. /\ Len(rxFifo') = Len(rxFifo) + 1 /\ rxFifo'[Len(rxFifo) + 1] = sent + 1
      /\ \A i \in 1 .. Len(rxFifo) : rxFifo'[i] = rxFifo[i]
  BY <1>1, RxTypes
<1>5. /\ sent = Freed + u + Len(rxFifo)
      /\ \A i \in 1 .. Len(rxFifo) : rxFifo[i] = Freed + u + i
  BY <1>0 DEF Arriving
<1>6. u \in Nat /\ Freed \in Nat /\ Len(rxFifo) \in Nat
  BY RxTypes
<1>7. Unreleased'
  BY <1>0, <1>1, <1>3, Zenon DEF Unreleased
<1> HIDE DEF u
<1>8. \A i \in 1 .. Len(rxFifo') : rxFifo'[i] = Freed + u + i
  <2> SUFFICES ASSUME NEW i \in 1 .. Len(rxFifo) + 1 PROVE rxFifo'[i] = Freed + u + i
    BY <1>4
  <2>1. i \in 1 .. Len(rxFifo) \/ i = Len(rxFifo) + 1
    BY <1>6
  <2> QED BY <1>4, <1>5, <1>6, <2>1
<1>9. sent' = Freed' + Used(rx_in, rx_out)' + Len(rxFifo')
  BY <1>1, <1>2, <1>3, <1>4, <1>5, <1>6
<1>10. \A k \in 0 .. u - 1 : rx_buf'[Wrap(rx_out + k)'] = Freed' + 1 + k
  BY <1>0, <1>1, <1>2, <1>3, Zenon DEF Arriving, u
<1>11. \A i \in 1 .. Len(received') : received'[i] = i
  BY <1>0, <1>1, Zenon DEF Arriving
<1>12. Arriving'
  BY <1>2, <1>3, <1>8, <1>9, <1>10, <1>11, Zenon DEF Arriving
<1> QED BY <1>7, <1>12

\* The handler moves the oldest character of the FIFO behind the newest one of
\* the buffer.
LEMMA IsrReadCharRx == ASSUME RxInv, IsrReadChar PROVE Unreleased' /\ Arriving'
<1> DEFINE u == Used(rx_in, rx_out)
<1>0. TypeOK /\ Arriving /\ Unreleased
  BY DEF RxInv
<1>1. /\ UNCHANGED <<rx_out, received, main, n, out>> /\ ~RxFull
  BY Zenon DEF IsrReadChar, ReadOne, callVars, locals, rxVars
<1>2. Freed' = Freed
  BY <1>1 DEF Freed
<1>3. CASE rxFifo = <<>>
  <2>1. UNCHANGED <<rx_buf, rx_in>> /\ (UNCHANGED <<rxFifo, sent>> \/ HostPuts)
    BY <1>3, Zenon DEF IsrReadChar, ReadNone, rxVars
  <2>2. CASE UNCHANGED <<rxFifo, sent>>
    <3>1. Used(rx_in, rx_out)' = u /\ \A k : Wrap(rx_out + k)' = Wrap(rx_out + k)
      BY <1>1, <2>1 DEF Used
    <3>2. Arriving'
      BY <1>0, <1>1, <1>2, <2>1, <2>2, <3>1, Zenon DEF Arriving
    <3>3. Unreleased'
      BY <1>0, <1>1, <3>1, Zenon DEF Unreleased
    <3> QED BY <3>2, <3>3
  <2>3. CASE HostPuts
    BY <1>1, <2>1, <2>3, HostPutsRx
  <2> QED BY <2>1, <2>2, <2>3
<1>4. CASE rxFifo # <<>>
  <2>1. /\ rx_buf' = [rx_buf EXCEPT ![rx_in] = Head(rxFifo)]
        /\ rx_in' = Wrap(rx_in + 1) /\ rxFifo' = Tail(rxFifo) /\ sent' = sent
    BY <1>4, Zenon DEF IsrReadChar, ReadOne
  <2>2. /\ Used(rx_in', rx_out') = u + 1
        /\ \A k \in 0 .. u - 1 : Wrap(rx_out + k) # rx_in
    BY <1>1, <2>1, RxTypes, UsedAfterFill DEF RxFull
  <2>3. Wrap(rx_out + u) = rx_in
    BY RxTypes, UsedSlots
  <2>4. /\ sent = Freed + u + Len(rxFifo)
        /\ \A k \in 0 .. u - 1 : rx_buf[Wrap(rx_out + k)] = Freed + 1 + k
        /\ \A i \in 1 .. Len(rxFifo) : rxFifo[i] = Freed + u + i
    BY <1>0 DEF Arriving
  <2>5. u \in 0 .. BufLen - 1 /\ Freed \in Nat /\ n \in Nat /\ Len(rxFifo) \in Nat
    BY RxTypes
  <2>6. /\ Len(rxFifo) > 0 /\ Head(rxFifo) = rxFifo[1] /\ Len(rxFifo') = Len(rxFifo) - 1
        /\ \A i \in 1 .. Len(rxFifo) - 1 : rxFifo'[i] = rxFifo[i + 1]
    BY <1>4, <2>1, RxTypes
  <2>7. /\ rx_buf'[rx_in] = Head(rxFifo)
        /\ \A s \in Slots : s # rx_in => rx_buf'[s] = rx_buf[s]
    BY <2>1, RxTypes
  <2>8. \A k \in 0 .. u - 1 : Wrap(rx_out + k) \in Slots
    BY RxTypes, WrapUsed, Zenon
  <2> HIDE DEF u
  <2>9. \A k \in 0 .. u : rx_buf'[Wrap(rx_out + k)] = Freed + 1 + k
    <3> SUFFICES ASSUME NEW k \in 0 .. u PROVE rx_buf'[Wrap(rx_out + k)] = Freed + 1 + k
      OBVIOUS
    <3>1. CASE k < u
      <4>1. k \in 0 .. u - 1
        BY <2>5, <3>1
      <4> QED BY <2>2, <2>4, <2>7, <2>8, <4>1
    <3>2. CASE k = u
      <4>1. rxFifo[1] = Freed + u + 1
        BY <2>4, <2>6, <2>5
      <4>2. rx_buf'[Wrap(rx_out + k)] = rxFifo[1]
        BY <2>3, <2>6, <2>7, <3>2
      <4> QED BY <2>5, <3>2, <4>1, <4>2
    <3> QED BY <2>5, <3>1, <3>2
  <2>10. Arriving'
    <3>1. sent' = Freed' + Used(rx_in', rx_out') + Len(rxFifo')
      BY <1>1, <1>2, <2>1, <2>2, <2>4, <2>5, <2>6
    <3>2. \A k \in 0 .. Used(rx_in', rx_out') - 1 : rx_buf'[Wrap(rx_out' + k)] = Freed' + 1 + k
      BY <1>1, <1>2, <2>2, <2>5, <2>9
    <3>3. \A i \in 1 .. Len(rxFifo') : rxFifo'[i] = Freed' + Used(rx_in', rx_out') + i
      <4> SUFFICES ASSUME NEW i \in 1 .. Len(rxFifo) - 1 PROVE rxFifo'[i] = Freed + (u + 1) + i
        BY <1>2, <2>2, <2>6
      <4>1. i + 1 \in 1 .. Len(rxFifo) /\ Freed + u + (i + 1) = Freed + (u + 1) + i
        BY <2>5
      <4> QED BY <2>4, <2>6, <4>1
    <3>4. \A i \in 1 .. Len(received') : received'[i] = i
      BY <1>0, <1>1 DEF Arriving
    <3> QED BY <3>1, <3>2, <3>3, <3>4, Zenon DEF Arriving
  <2>11. Unreleased'
    <3> SUFFICES ASSUME main = "release" PROVE Unreleased'
      BY <1>1 DEF Unreleased
    <3>1. out = rx_out /\ n > 0 /\ n <= Len(received) /\ n <= u /\ out + n <= BufLen
      BY <1>0 DEF Unreleased, u
    <3>2. n <= u + 1
      BY <2>5, <3>1
    <3> QED BY <1>1, <2>2, <3>1, <3>2 DEF Unreleased
  <2> QED BY <2>10, <2>11
<1> QED BY <1>3, <1>4

\* Every other step leaves the receive side alone.
LEMMA OtherRx ==
  ASSUME RxInv, [Next]_vars, ~TakePiece, ~Release, ~IsrReadChar, ~HostSend
  PROVE  Unreleased' /\ Arriving'
<1> USE DEF vars, txVars, rxVars, callVars, locals, isrVars, devVars, numVars
<1>0. Arriving /\ Unreleased
  BY DEF RxInv
<1>1. UNCHANGED <<rx_buf, rx_in, rx_out, rxFifo, sent, received>>
  BY DEF Next, Thread, Isr, Write, Read, Close, Call, Copy, Publish, CopyEnd, Enable, Spin,
         Inactive, TakeMore, Reenable, TakeNone, Await, CloseEnd, IsrControl,
         IsrReadFull, IsrWriteChar, IsrWriteEnd, Alarm, HostTake, HostPause, HostLeaves
<1>2. (main # "release" /\ main' # "release") \/ UNCHANGED <<main, out, n>>
  BY DEF Next, Thread, Isr, Write, Read, Close, Call, Copy, Publish, CopyEnd, Enable, Spin,
         Inactive, TakeMore, Reenable, TakeNone, Await, CloseEnd, IsrControl,
         IsrReadFull, IsrWriteChar, IsrWriteEnd, Alarm, HostTake, HostPause, HostLeaves,
         Goto, Return
<1>3. Freed' = Freed
  BY <1>1, <1>2 DEF Freed
<1>4. Used(rx_in, rx_out)' = Used(rx_in, rx_out) /\ \A k : Wrap(rx_out + k)' = Wrap(rx_out + k)
  BY <1>1 DEF Used
<1>5. Arriving'
  BY <1>0, <1>1, <1>3, <1>4, Zenon DEF Arriving
<1>6. Unreleased'
  BY <1>0, <1>1, <1>2, <1>4, Zenon DEF Unreleased
<1> QED BY <1>5, <1>6

LEMMA InitRxInv == Init => RxInv
<1> SUFFICES ASSUME Init PROVE RxInv
  OBVIOUS
<1>1. TypeOK
  BY InitTxInv DEF TxInv
<1>2. Unreleased /\ Arriving
  BY DEF Init, Unreleased, Arriving, Freed, Used, Wrap
<1> QED BY <1>1, <1>2 DEF RxInv

\* The caller's characters, the buffer and the FIFO always hold what the host has
\* sent, in order, whatever the handler does between two accesses of read.
THEOREM ReceiveInvariant == Spec => []RxInv
<1>1. Init => RxInv
  BY InitRxInv
<1>2. RxInv /\ [Next]_vars => RxInv'
  <2> SUFFICES ASSUME RxInv, [Next]_vars PROVE RxInv'
    OBVIOUS
  <2>1. TypeOK'
    BY TypeStep DEF RxInv
  <2>2. Unreleased' /\ Arriving'
    <3>1. CASE HostSend
      <4>1. HostPuts /\ UNCHANGED <<rx_buf, rx_in, rx_out, received, main, n, out>>
        BY <3>1, Zenon DEF HostSend, callVars, locals, rxVars
      <4> QED BY <4>1, HostPutsRx
    <3> QED BY <3>1, TakePieceRx, ReleaseRx, IsrReadCharRx, OtherRx
  <2> QED BY <2>1, <2>2 DEF RxInv
<1> QED BY <1>1, <1>2, PTL DEF Spec

\* The steps that the caller and the host see are those of the abstract line.
LEMMA RxRefines ==
  ASSUME RxInv, [Next]_vars
  PROVE  [RxStream!Next]_(RxStream!vars)
<1> USE DEF RxStream!Next, RxStream!vars, RxStream!Put, RxStream!Take
<1>1. CASE HostSend \/ IsrReadChar
  <2>1. received' = received /\ (sent' = sent + 1 \/ sent' = sent)
    BY <1>1 DEF HostSend, IsrReadChar, ReadNone, ReadOne, HostPuts
  <2> QED BY <2>1, RxTypes
<1>2. CASE TakePiece
  <2>1. main' = "release" /\ UNCHANGED <<sent, rxFifo, rx_in, rx_out>> /\ n' \in Nat
    <3>1. TypeOK'
      BY TypeStep DEF RxInv
    <3> QED BY <1>2, <3>1 DEF TakePiece, TypeOK, devVars, rxVars
  <2>2. Unreleased' /\ Arriving'
    BY <1>2, TakePieceRx
  <2>3. received' \in Seq(Nat)
    BY TypeStep DEF RxInv, TypeOK
  <2>4. n' > 0 /\ n' <= Len(received') /\ n' <= Used(rx_in', rx_out')
    BY <2>1, <2>2 DEF Unreleased
  <2>5. /\ sent' = Freed' + Used(rx_in', rx_out') + Len(rxFifo')
        /\ Freed' = Len(received') - n'
    BY <2>1, <2>2 DEF Arriving, Freed
  <2>6. Used(rx_in', rx_out') = Used(rx_in, rx_out)
    BY <2>1
  <2>7. Len(received') \in Nat /\ Len(rxFifo') \in Nat /\ Used(rx_in', rx_out') \in Nat
    BY <2>1, <2>3, <2>6, RxTypes
  <2>8. Len(received') <= sent'
    BY <2>1, <2>4, <2>5, <2>7
  <2>9. Freed' = Len(received)
    <3>1. Freed = Len(received)
      BY <1>2 DEF TakePiece, Freed
    <3>2. sent = Freed + Used(rx_in, rx_out) + Len(rxFifo)
      BY DEF RxInv, Arriving
    <3>3. Freed' \in Int
      BY <2>1, <2>5, <2>7
    <3>4. Freed \in Nat /\ Used(rx_in, rx_out) \in 0 .. BufLen - 1 /\ Len(rxFifo) \in Nat
      BY RxTypes, Zenon
    <3>5. sent' = sent /\ Len(rxFifo') = Len(rxFifo)
      BY <2>1, Zenon
    <3>6. sent' = Freed' + Used(rx_in', rx_out') + Len(rxFifo')
      BY <2>5, Zenon
    <3> HIDE DEF RxStream!Next, RxStream!vars, RxStream!Put, RxStream!Take
    <3> QED BY <2>6, <3>1, <3>2, <3>3, <3>4, <3>5, <3>6
  <2>10. Len(received') > Len(received)
    BY <2>1, <2>4, <2>5, <2>7, <2>9, RxTypes
  <2>11. \A i \in 1 .. Len(received') :
           received'[i] = IF i <= Len(received) THEN received[i] ELSE i
    <3>1. \A i \in 1 .. Len(received') : received'[i] = i
      BY <2>2, Zenon DEF Arriving
    <3>2. \A i \in 1 .. Len(received) : received[i] = i
      BY Zenon DEF RxInv, Arriving
    <3>3. Len(received) \in Nat
      BY RxTypes, Zenon
    <3> SUFFICES ASSUME NEW i \in 1 .. Len(received')
                 PROVE  received'[i] = IF i <= Len(received) THEN received[i] ELSE i
      OBVIOUS
    <3>4. i <= Len(received) => i \in 1 .. Len(received)
      BY <2>7, <3>3
    <3> QED BY <3>1, <3>2, <3>4, Zenon
  <2> QED BY <2>1, <2>3, <2>8, <2>10, <2>11
<1>3. CASE ~HostSend /\ ~IsrReadChar /\ ~TakePiece
  <2>1. UNCHANGED <<sent, received>>
    BY <1>3 DEF Next, Thread, Isr, Write, Read, Close, Call, Copy, Publish, CopyEnd, Enable,
       Spin, Inactive, Release, TakeMore, Reenable, TakeNone, Await, CloseEnd,
       IsrControl, IsrReadFull, IsrWriteChar, IsrWriteEnd, Alarm, HostTake,
       HostPause, HostLeaves, vars, numVars
  <2> QED BY <2>1
<1> QED BY <1>1, <1>2, <1>3

\* The caller of read gets what the host sent, in order, nothing lost or repeated,
\* for buffers and FIFOs of every size.
THEOREM ReceiveImplementsStream == Spec => RxInOrder
<1>1. Init => RxStream!Init
  BY DEF Init, RxStream!Init
<1>2. RxInv /\ [Next]_vars => [RxStream!Next]_(RxStream!vars)
  BY RxRefines
<1> QED
  BY <1>1, <1>2, ReceiveInvariant, PTL DEF Spec, RxInOrder, RxStream!Spec
-----------------------------------------------------------------------------
(* Wake-ups.                                                                *)

LEMMA WakeupStep ==
  ASSUME WakeupInv, [Next]_vars
  PROVE  NoLostWakeup'
<1> USE DEF WakeupInv, NoLostWakeup, vars, txVars, rxVars, callVars, locals, isrVars, devVars, numVars
<1>0. tx_in \in Slots /\ rx_in \in Slots /\ rx_out \in Slots
  BY DEF TypeOK
<1>1. CASE Write \/ Read \/ Close
  BY <1>1 DEF Write, Read, Close, Call
<1>2. CASE Copy \/ Publish \/ CopyEnd \/ Spin
  BY <1>2 DEF Copy, Publish, CopyEnd, Spin
<1>3. CASE Enable \/ Inactive
  BY <1>3 DEF Enable, Inactive, Return, Goto
<1>4. CASE TakePiece \/ Release
  BY <1>4 DEF TakePiece, Release
<1>5. CASE TakeMore
  BY <1>0, <1>5 DEF TakeMore, Goto, RxPiece
<1>6. CASE Reenable \/ CloseEnd
  BY <1>6 DEF Reenable, CloseEnd, Return
<1>7. CASE TakeNone \/ Await
  BY <1>7 DEF TakeNone, Await, Return
<1>8. CASE IsrControl \/ IsrWriteChar
  BY <1>8 DEF IsrControl, IsrWriteChar
<1>9. CASE IsrReadFull
  <2>1. rx_in # rx_out
    BY <1>0, <1>9 DEF IsrReadFull, RxFull, Wrap
  <2> QED BY <1>9, <2>1 DEF IsrReadFull
<1>10. CASE IsrReadChar
  <2>1. UNCHANGED <<tx_in, tx_out, we, main, rx_out>> /\ ~RxFull /\ isr = "read"
    BY <1>10 DEF IsrReadChar, ReadOne
  <2>2. CASE rxFifo = <<>>
    <3>1. rx_in' = rx_in /\ rx_in # rx_out
      BY <1>10, <2>1, <2>2 DEF IsrReadChar, HandlerHasMoved
    <3> QED BY <2>1, <3>1
  <2>3. CASE rxFifo # <<>>
    <3>1. rx_in' = Wrap(rx_in + 1)
      BY <1>10, <2>3 DEF IsrReadChar, ReadOne
    <3> QED BY <2>1, <3>1 DEF RxFull
  <2> QED BY <2>2, <2>3
<1>11. CASE IsrWriteEnd
  BY <1>11 DEF IsrWriteEnd
<1>12. CASE Alarm \/ HostTake \/ HostSend \/ HostPause \/ HostLeaves
  BY <1>12 DEF Alarm, HostTake, HostSend, HostPause, HostLeaves
<1>13. CASE UNCHANGED vars
  BY <1>13
<1> QED
  BY <1>1, <1>2, <1>3, <1>4, <1>5, <1>6, <1>7, <1>8, <1>9, <1>10, <1>11, <1>12, <1>13
  DEF Next, Thread, Isr

\* A FIFO that is almost full is not empty.
LEMMA AlmostFullHolds == ASSUME TypeOK, AlmostFull PROVE rxFifo # <<>>
<1>1. Len(<<>>) = 0
  OBVIOUS
<1> QED BY <1>1, BufferAssumption DEF AlmostFull

\* Only the handler takes characters from the FIFO, and only while it reads.
LEMMA HandlerStep ==
  ASSUME TypeOK, HandlerHasMoved, [Next]_vars
  PROVE  HandlerHasMoved'
<1> USE DEF HandlerHasMoved, vars, txVars, rxVars, callVars, isrVars, devVars, numVars
<1>1. CASE IsrControl
  <2>1. UNCHANGED <<pause, rxFifo>> /\ (isr' = "read" => ReadPending)
    BY <1>1 DEF IsrControl
  <2>2. ReadPending => rxFifo # <<>>
    BY AlmostFullHolds DEF ReadPending
  <2> QED BY <2>1, <2>2
<1>2. CASE IsrReadFull
  BY <1>2 DEF IsrReadFull, ReadEnd
<1>3. CASE IsrReadChar
  <2>1. ~pause' /\ ~RxFull
    BY <1>3 DEF IsrReadChar
  <2>2. CASE rxFifo = <<>>
    <3>1. isr' # "read"
      BY <1>3, <2>2 DEF IsrReadChar, ReadNone, ReadEnd
    <3> QED BY <2>1, <3>1
  <2>3. CASE rxFifo # <<>>
    <3>1. rx_in' = Wrap(rx_in + 1) /\ rx_out' = rx_out
      BY <1>3, <2>3 DEF IsrReadChar, ReadOne
    <3> QED BY <2>1, <3>1 DEF RxFull
  <2> QED BY <2>2, <2>3
<1>4. CASE HostSend
  <2>1. rxFifo' # <<>>
    <3>1. rxFifo' = Append(rxFifo, sent + 1) /\ rxFifo \in Seq(Nat)
      BY <1>4 DEF HostSend, HostPuts, TypeOK
    <3> QED BY <3>1
  <2> QED BY <2>1
<1>5. CASE HostPause
  BY <1>5 DEF HostPause
<1>6. CASE Alarm \/ HostTake \/ HostLeaves \/ UNCHANGED vars
  BY <1>6 DEF Alarm, HostTake, HostLeaves
<1>7. CASE IsrWriteChar \/ IsrWriteEnd
  BY <1>7 DEF IsrWriteChar, IsrWriteEnd
<1>8. CASE Write \/ Read \/ Close \/ Thread
  <2>1. isr' = "off" /\ UNCHANGED <<pause, rxFifo>>
    BY <1>8 DEF Thread, Write, Read, Close, Call, Copy, Publish, CopyEnd, Enable, Spin,
       Inactive, TakePiece, Release, TakeMore, Reenable, TakeNone, Await, CloseEnd
  <2> QED BY <2>1
<1> QED BY <1>1, <1>2, <1>3, <1>4, <1>5, <1>6, <1>7, <1>8 DEF Next, Isr

\* The inductive invariant behind the wake-ups, for buffers and FIFOs of every
\* size.
THEOREM WakeupInvariant == Spec => []WakeupInv
<1>1. Init => WakeupInv
  <2> SUFFICES ASSUME Init PROVE WakeupInv
    OBVIOUS
  <2>1. TypeOK
    BY InitTxInv DEF TxInv
  <2>2. NoLostWakeup /\ HandlerHasMoved
    BY DEF Init, NoLostWakeup, HandlerHasMoved
  <2> QED BY <2>1, <2>2 DEF WakeupInv
<1>2. WakeupInv /\ [Next]_vars => WakeupInv'
  BY WakeupStep, HandlerStep, TypeStep DEF WakeupInv
<1> QED BY <1>1, <1>2, PTL DEF Spec

\* Buffered characters always have an interrupt or the writer behind them, and
\* no reader waits on an empty buffer with the receive interrupt off.
THEOREM WakeupsKept == Spec => []NoLostWakeup
<1>1. WakeupInv => NoLostWakeup
  BY DEF WakeupInv
<1> QED BY <1>1, WakeupInvariant, PTL
=============================================================================
