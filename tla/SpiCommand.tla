----------------------------- MODULE SpiCommand -----------------------------
(***************************************************************************)
(* A register access of the MAX3421E over SPI: alt_avalon_spi_command,     *)
(* which every access calls twice (command byte, then data), and the SPI   *)
(* master it drives.  The thread is the only one to use the device; the    *)
(* device shifts bytes on its own clock, between any two bus accesses of   *)
(* the thread.  A byte's 18 slow states are one step.                      *)
(***************************************************************************)
EXTENDS Integers, Sequences

CONSTANTS
  Lengths,    \* numbers of data bytes of an access
  NONE        \* no access under way

ASSUME SpiAssumption == Lengths \subseteq 0 .. 255 /\ NONE \notin [op : {"wr", "rd"}, len : Lengths]

VARIABLES
  request, part,             \* the access and its command: 1 (with MERGE) or 2
  pc,                        \* where the thread is in alt_avalon_spi_command
  toWrite, write_zeros,      \* bytes still to send: data, then zeros
  read_ignore, data,         \* received bytes still to drop; bytes kept
  credits,                   \* bytes that may be sent before one comes back
  trdy, rrdy,                \* the status word as last read
  SSO,                       \* chip select forced
  primed, tx_holding,        \* transmit holding register: full, value
  transmitting, shift,       \* shift register: busy, value
  RRDY, rx_holding,          \* receive holding register: full, value
  ROE, TOE,                  \* receive and transmit overrun
  frame, frames              \* the chip: bytes of this selection; frames since the call

callVars == <<request, part>>
cmdVars  == <<toWrite, write_zeros, read_ignore, data, credits>>
devVars  == <<SSO, primed, tx_holding, transmitting, shift, RRDY, rx_holding, ROE, TOE>>
chipVars == <<frame, frames>>
vars == <<callVars, pc, cmdVars, trdy, rrdy, devVars, chipVars>>

Access == INSTANCE RegisterAccess WITH
            answer <- IF request = NONE THEN data ELSE <<>>

\* transmitter ready, transmitter empty
TRDY == ~(transmitting /\ primed)
TMT  == ~transmitting /\ ~primed

\* The chip sees the end of a frame when its select is released.
EndFrame(f) == frame' = <<>> /\ frames' = Append(frames, f)

\* RRDY: "previous communication was interrupted and stale data was left behind"
\* (altera_avalon_spi.c:74), as after a new download of the program.
Init ==
  /\ request = NONE /\ part = 1 /\ pc = "idle"
  /\ toWrite = <<>> /\ write_zeros = 0 /\ read_ignore = 0 /\ data = <<>>
  /\ credits = 1 /\ trdy = FALSE /\ rrdy = FALSE
  /\ SSO = FALSE /\ primed = FALSE /\ tx_holding = 0
  /\ transmitting = FALSE /\ shift = 0
  /\ RRDY \in BOOLEAN /\ rx_holding = 0 /\ ROE = FALSE /\ TOE = FALSE
  /\ frame = <<>> /\ frames = <<>>
-----------------------------------------------------------------------------
(* The thread.                                                              *)

\* Fault: the two credits that "the hardware does not seem to work with".
EnterTwoCredits(bytes, reads) ==
  /\ toWrite' = bytes /\ write_zeros' = reads /\ read_ignore' = Len(bytes)
  /\ data' = <<>> /\ credits' = 2 /\ pc' = "select"

\* The entry of alt_avalon_spi_command(.., Len(bytes), bytes, reads, ..).
Enter(bytes, reads) ==
  /\ toWrite' = bytes /\ write_zeros' = reads /\ read_ignore' = Len(bytes)
  /\ data' = <<>> /\ credits' = 1 /\ pc' = "select"

\* MAXreg_wr, MAXbytes_wr, MAXreg_rd, MAXbytes_rd: first the command byte
Call ==
  /\ pc = "idle"
  /\ request' \in Access!Requests /\ part' = 1
  /\ Enter(<<0>>, 0)
  /\ frames' = <<>>
  /\ UNCHANGED <<trdy, rrdy, devVars, frame>>

\* then the data
CallPart2 ==
  /\ pc = "part2"
  /\ part' = 2
  /\ IF request.op = "wr" THEN Enter([i \in 1 .. request.len |-> i], 0)
                          ELSE Enter(<<>>, request.len)
  /\ UNCHANGED <<request, trdy, rrdy, devVars, chipVars>>

\* CONTROL.SSO (TOGGLE_SS_N is never passed); there is only one slave.
Select ==
  /\ pc = "select"
  /\ SSO' = TRUE /\ pc' = "discard"
  /\ UNCHANGED <<callVars, cmdVars, trdy, rrdy, primed, tx_holding, transmitting,
                 shift, RRDY, rx_holding, ROE, TOE, chipVars>>

\* Fault: RXDATA is not read first.
DiscardNothing ==
  /\ pc = "discard" /\ pc' = "poll"
  /\ UNCHANGED <<callVars, cmdVars, trdy, rrdy, devVars, chipVars>>

\* A byte left behind in RXDATA is dropped.
Discard ==
  /\ pc = "discard"
  /\ RRDY' = FALSE /\ pc' = "poll"
  /\ UNCHANGED <<callVars, cmdVars, trdy, rrdy, SSO, primed, tx_holding,
                 transmitting, shift, rx_holding, ROE, TOE, chipVars>>

\* STATUS is read until there is something to do.
Poll ==
  /\ pc = "poll"
  /\ (TRDY /\ credits # 0) \/ RRDY
  /\ trdy' = TRDY /\ rrdy' = RRDY /\ pc' = "send"
  /\ UNCHANGED <<callVars, cmdVars, devVars, chipVars>>

\* TXDATA is written; a byte that finds no room is lost (TOE).
WriteTx(byte) ==
  IF TRDY THEN primed' = TRUE /\ tx_holding' = byte /\ UNCHANGED TOE
          ELSE TOE' = TRUE /\ UNCHANGED <<primed, tx_holding>>

Send ==
  /\ pc = "send"
  /\ pc' = IF rrdy THEN "receive" ELSE "poll"
  /\ IF ~(trdy /\ credits > 0)
     THEN UNCHANGED <<toWrite, write_zeros, credits, primed, tx_holding, TOE>>
     ELSE \/ /\ toWrite # <<>>
             /\ WriteTx(Head(toWrite)) /\ toWrite' = Tail(toWrite)
             /\ credits' = credits - 1 /\ UNCHANGED write_zeros
          \/ /\ toWrite = <<>> /\ write_zeros > 0
             /\ WriteTx(0) /\ write_zeros' = write_zeros - 1
             /\ credits' = credits - 1 /\ UNCHANGED toWrite
          \/ /\ toWrite = <<>> /\ write_zeros = 0
             /\ credits' = -1024
             /\ UNCHANGED <<toWrite, write_zeros, primed, tx_holding, TOE>>
  /\ UNCHANGED <<callVars, read_ignore, data, trdy, rrdy, SSO, transmitting, shift,
                 RRDY, rx_holding, ROE, chipVars>>

\* read_length of the command under way
ReadLength == IF part = 2 /\ request.op = "rd" THEN request.len ELSE 0

\* Fault: the end is tested before the byte is counted.
ReceiveOneMore ==
  /\ pc = "receive"
  /\ RRDY' = FALSE
  /\ IF read_ignore > 0 THEN read_ignore' = read_ignore - 1 /\ UNCHANGED data
                        ELSE data' = Append(data, rx_holding) /\ UNCHANGED read_ignore
  /\ credits' = credits + 1
  /\ pc' = IF read_ignore = 0 /\ Len(data) = ReadLength THEN "drain" ELSE "poll"
  /\ UNCHANGED <<callVars, toWrite, write_zeros, trdy, rrdy, SSO, primed, tx_holding,
                 transmitting, shift, rx_holding, ROE, TOE, chipVars>>

Receive ==
  /\ pc = "receive"
  /\ RRDY' = FALSE
  /\ IF read_ignore > 0 THEN read_ignore' = read_ignore - 1 /\ UNCHANGED data
                        ELSE data' = Append(data, rx_holding) /\ UNCHANGED read_ignore
  /\ credits' = credits + 1
  /\ pc' = IF read_ignore' = 0 /\ Len(data') = ReadLength THEN "drain" ELSE "poll"
  /\ UNCHANGED <<callVars, toWrite, write_zeros, trdy, rrdy, SSO, primed, tx_holding,
                 transmitting, shift, rx_holding, ROE, TOE, chipVars>>

\* The first command ends with the chip still selected (MERGE).
DrainPart1 ==
  /\ pc = "drain" /\ part = 1 /\ TMT
  /\ pc' = "part2"
  /\ UNCHANGED <<callVars, cmdVars, trdy, rrdy, devVars, chipVars>>

\* The second one releases it; the access is over.
DrainPart2 ==
  /\ pc = "drain" /\ part = 2 /\ TMT
  /\ SSO' = FALSE
  /\ EndFrame(frame)
  /\ request' = NONE /\ pc' = "idle"
  /\ UNCHANGED <<part, cmdVars, trdy, rrdy, primed, tx_holding, transmitting, shift,
                 RRDY, rx_holding, ROE, TOE>>

Thread == CallPart2 \/ Select \/ Discard \/ Poll \/ Send \/ Receive
          \/ DrainPart1 \/ DrainPart2
-----------------------------------------------------------------------------
(* The SPI master and the chip.                                             *)

Load ==
  /\ primed /\ ~transmitting
  /\ shift' = tx_holding /\ transmitting' = TRUE /\ primed' = FALSE
  /\ UNCHANGED <<callVars, pc, cmdVars, trdy, rrdy, SSO, tx_holding, RRDY, rx_holding,
                 ROE, TOE, chipVars>>

\* A byte has gone out and one has come in; select follows the byte without SSO.
Shifted ==
  /\ transmitting
  /\ transmitting' = FALSE
  /\ RRDY' = TRUE /\ ROE' = (ROE \/ RRDY)
  /\ rx_holding' = Len(frame) + 1
  /\ IF SSO THEN frame' = Append(frame, shift) /\ UNCHANGED frames
            ELSE EndFrame(Append(frame, shift))
  /\ UNCHANGED <<callVars, pc, cmdVars, trdy, rrdy, SSO, primed, tx_holding, shift, TOE>>

Device == Load \/ Shifted

Next == Call \/ Thread \/ Device

\* The thread runs on, and the device shifts what it has been given.
Fairness == WF_vars(Thread) /\ WF_vars(Load) /\ WF_vars(Shifted)

Spec == Init /\ [][Next]_vars /\ Fairness
-----------------------------------------------------------------------------
TypeOK ==
  /\ request \in Access!Requests \cup {NONE} /\ part \in {1, 2}
  /\ pc \in {"idle", "part2", "select", "discard", "poll", "send", "receive", "drain"}
  /\ toWrite \in Seq(Nat) /\ write_zeros \in Nat /\ read_ignore \in Nat
  /\ data \in Seq(Nat) /\ credits \in -1024 .. 1
  /\ trdy \in BOOLEAN /\ rrdy \in BOOLEAN /\ SSO \in BOOLEAN
  /\ primed \in BOOLEAN /\ transmitting \in BOOLEAN /\ RRDY \in BOOLEAN
  /\ tx_holding \in Nat /\ shift \in Nat /\ rx_holding \in Nat
  /\ ROE \in BOOLEAN /\ TOE \in BOOLEAN
  /\ frame \in Seq(Nat) /\ frames \in Seq(Seq(Nat))

Bit(b) == IF b THEN 1 ELSE 0

\* Bytes on their way out, and on their way at all: the last ones are not yet read.
Leaving == Bit(primed) + Bit(transmitting)
Flying == Leaving + Bit(RRDY)

\* Bytes that the command still waits for, to drop or to keep.
ToCome == read_ignore + ReadLength - Len(data)

InLoop == pc \in {"poll", "send", "receive"}

\* The one credit is spent exactly while a byte is on its way, so that no byte is
\* overwritten in either direction, and what is still to come back is counted:
\* the command ends when its last byte has come in, with the shifter empty.
OneByteFlying ==
  /\ pc \in {"select", "discard"} => credits = 1 /\ ToCome = Len(toWrite) + write_zeros
  /\ InLoop =>
       /\ \/ credits = 1 /\ Flying = 0
          \/ credits = 0 /\ Flying = 1
          \/ credits < 0 /\ Flying = 0 /\ toWrite = <<>> /\ write_zeros = 0
       /\ ToCome = Len(toWrite) + write_zeros + Flying
  /\ ~InLoop => TMT
  /\ pc = "send" /\ rrdy => RRDY
  /\ pc = "receive" => RRDY
  /\ ~ROE /\ ~TOE

\* Byte i of the frame of this access.
Byte(i) == Access!Frame(request)[i]

\* Bytes of the frame up to the end of the command under way.
Total == IF part = 1 THEN 1 ELSE request.len + 1

\* The chip is selected from the first Select to the end of the access.
Selected ==
  /\ pc = "idle" <=> request = NONE
  /\ pc = "idle" => frame = <<>>
  /\ pc # "idle" => frames = <<>>
  /\ pc = "part2" => part = 1
  /\ pc = "discard" \/ InLoop => SSO

\* The bytes the chip has, those on their way and those to be written are the
\* frame, in order.
SentInStep == pc # "idle" =>
  /\ Len(frame) + Leaving + Len(toWrite) + write_zeros = Total
  /\ pc \in {"part2", "drain"} => toWrite = <<>> /\ write_zeros = 0
  /\ \A i \in 1 .. Len(frame) : frame[i] = Byte(i)
  /\ transmitting => shift = Byte(Len(frame) + 1)
  /\ primed => tx_holding = Byte(Len(frame) + Bit(transmitting) + 1)
  /\ \A i \in 1 .. Len(toWrite) : toWrite[i] = Byte(Len(frame) + Leaving + i)
  /\ write_zeros > 0 => ReadLength > 0

\* The bytes kept are those the chip sent with the data bytes of a read.
KeptInStep == pc # "idle" =>
  /\ \A i \in 1 .. Len(data) : data[i] = i + 1
  /\ Len(data) <= ReadLength
  /\ InLoop /\ RRDY => rx_holding = Len(frame)
  /\ pc = "drain" => Len(data) = ReadLength
  /\ ReadLength > 0 => read_ignore = 0

\* Types, the accounts of credits and bytes at every step of the command, and
\* what the bytes are.
SpiInv == TypeOK /\ OneByteFlying /\ Selected /\ SentInStep /\ KeptInStep

\* An access is one frame with the right bytes, and returns the chip's answer.
ImplementsAccess == Access!Spec

\* The data command of an access of 0 bytes: RCVBC may be 0 (transfer.c:211).
EmptyPart == part = 2 /\ request # NONE /\ request.len = 0

\* An access of some bytes ends, however slowly the device shifts.  One of 0 bytes
\* never does: nothing is sent, so nothing comes back, and only a byte that has
\* come back ends the loop.
AccessEnds ==
  /\ request # NONE /\ request.len > 0 ~> pc = "idle"
  /\ [](EmptyPart => []EmptyPart)
=============================================================================
