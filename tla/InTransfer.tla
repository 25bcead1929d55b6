----------------------------- MODULE InTransfer -----------------------------
(***************************************************************************)
(* kbdPoll of HID.c and XferInTransfer of transfer.c: one report is read   *)
(* from the interrupt endpoint of the keyboard, packet by packet, with the *)
(* data toggle that tells a new packet from a repeated one.  The host      *)
(* keeps its toggle in the endpoint record between polls and lends it to   *)
(* the chip for the time of a transfer; the keyboard keeps its own.        *)
(*                                                                         *)
(* XferDispatchPkt is abstracted to what it does to the endpoint: each     *)
(* packet on the bus, and then another launch or a return with an error    *)
(* (its limits are the matter of XferDispatch).  Packets and handshakes    *)
(* may be lost; the keyboard may be pulled and another one configured.     *)
(***************************************************************************)
EXTENDS Integers, Sequences

CONSTANTS
  Packets,        \* packets in a report: nbytes / MaxPktSize, rounded up
  MaxReports      \* bound on the reports a keyboard produces in the model

ASSUME PacketsAssumption == Packets \in Nat \ {0}
ASSUME MaxReportsAssumption == MaxReports \in Nat

VARIABLES
  pc,           \* "main", "dispatch" or "read"
  rcvToggle,    \* epinfo[1].rcvToggle, the saved toggle
  chipToggle,   \* MAX3421E: the toggle expected next (HCTL, HRSL.RCVTOGRD)
  RCVFIFO,      \* MAX3421E: the packet received last
  data,         \* packets of the transfer under way
  report,       \* the report main has got last
  configured,   \* keyboard: it is there and configured
  devToggle,    \* keyboard: toggle of its next packet
  acked,        \* keyboard: number of packets it holds for acknowledged
  produced      \* keyboard: number of reports it has produced

hostVars == <<pc, rcvToggle, chipToggle, RCVFIFO, data, report>>
devVars  == <<configured, devToggle, acked, produced>>
vars == <<hostVars, devVars>>

RD == INSTANCE ReportDelivery WITH produced <- produced, report <- report

DATA0 == 0
DATA1 == 1
Flip(t) == 1 - t

-----------------------------------------------------------------------------
(***************************************************************************)
(* The host.                                                               *)
(***************************************************************************)
\* kbdPoll: the saved toggle is written to HCTL.
Poll ==
  /\ pc = "main"
  /\ chipToggle' = rcvToggle
  /\ data' = <<>>
  /\ pc' = "dispatch"
  /\ UNCHANGED <<rcvToggle, RCVFIFO, report, devVars>>

\* A NAK, a loss or a toggle error: the dispatch launches again or gives up.
\* Nothing but pc changes when XferInTransfer returns an error.
RelaunchOrReturn ==
  /\ pc' \in {"dispatch", "main"}
  /\ UNCHANGED <<rcvToggle, chipToggle, RCVFIFO, data, report>>

ReturnError ==
  /\ pc' = "main"
  /\ UNCHANGED <<rcvToggle, chipToggle, RCVFIFO, data, report>>

\* Fault: the toggle is not saved.
FinishUnsaved ==
  /\ report' = Append(data, RCVFIFO)
  /\ data' = <<>>
  /\ pc' = "main"
  /\ UNCHANGED rcvToggle

\* The transfer is complete: the toggle is saved from HRSL and main gets the
\* report.
Finish ==
  /\ report' = Append(data, RCVFIFO)
  /\ data' = <<>>
  /\ rcvToggle' = chipToggle
  /\ pc' = "main"

\* The packet is read and the buffer freed.
ReadPacket ==
  /\ pc = "read"
  /\ \/ Len(data) + 1 = Packets /\ Finish
     \/ /\ Len(data) + 1 < Packets
        /\ data' = Append(data, RCVFIFO)
        /\ pc' = "dispatch"
        /\ UNCHANGED <<rcvToggle, report>>
  /\ UNCHANGED <<chipToggle, RCVFIFO, devVars>>

\* HIDKProbe of a keyboard: HID_init resets the saved toggle, SET_CONFIGURATION
\* that of the keyboard.
Configure ==
  /\ pc = "main"
  /\ rcvToggle' = DATA0
  /\ report' = RD!Report(0)
  /\ configured' = TRUE
  /\ devToggle' = DATA0
  /\ acked' = 0 /\ produced' = 0
  /\ UNCHANGED <<pc, chipToggle, RCVFIFO, data>>

-----------------------------------------------------------------------------
(***************************************************************************)
(* The bus: what one launch of an IN token meets.                          *)
(***************************************************************************)
HasPacket == configured /\ acked < produced * Packets

\* The keyboard has nothing to send.
Nak ==
  /\ pc = "dispatch"
  /\ configured
  /\ acked = produced * Packets
  /\ RelaunchOrReturn
  /\ UNCHANGED devVars

\* The token or the packet is lost or damaged, or there is no keyboard.
PacketLost ==
  /\ pc = "dispatch"
  /\ RelaunchOrReturn
  /\ UNCHANGED devVars

\* The host's ACK of a packet arrives, or the keyboard will repeat it.
Acknowledge(arrives) ==
  /\ IF arrives
     THEN acked' = acked + 1 /\ devToggle' = Flip(devToggle)
     ELSE UNCHANGED <<acked, devToggle>>
  /\ UNCHANGED <<configured, produced>>

\* The chip takes the packet it expects and acknowledges it.
Receive(arrives) ==
  /\ pc = "dispatch"
  /\ HasPacket
  /\ devToggle = chipToggle
  /\ RCVFIFO' = acked + 1
  /\ chipToggle' = Flip(chipToggle)
  /\ pc' = "read"
  /\ Acknowledge(arrives)
  /\ UNCHANGED <<rcvToggle, data, report>>

\* The chip drops a repeated packet and acknowledges it; XferDispatchPkt
\* returns hrTOGERR (or XferInTransfer misses RCVDAVIRQ and returns 0xf0).
ToggleError(arrives) ==
  /\ pc = "dispatch"
  /\ HasPacket
  /\ devToggle # chipToggle
  /\ ReturnError
  /\ Acknowledge(arrives)

-----------------------------------------------------------------------------
ProduceReport ==
  /\ configured
  /\ produced < MaxReports
  /\ produced' = produced + 1
  /\ UNCHANGED <<hostVars, configured, devToggle, acked>>

\* Between two polls a control transfer may use the chip, which has one toggle
\* for all endpoints.
OtherTransfer ==
  /\ pc = "main"
  /\ chipToggle' \in {DATA0, DATA1}
  /\ UNCHANGED <<pc, rcvToggle, RCVFIFO, data, report, devVars>>

Unplug ==
  /\ configured
  /\ configured' = FALSE
  /\ UNCHANGED <<hostVars, devToggle, acked, produced>>

Init ==
  /\ pc = "main" /\ rcvToggle = DATA0 /\ chipToggle = DATA0
  /\ RCVFIFO = 0 /\ data = <<>> /\ report = RD!Report(0)
  /\ configured \in BOOLEAN /\ devToggle = DATA0
  /\ acked = 0 /\ produced = 0

Host == Poll \/ ReadPacket
Bus == \/ Nak \/ PacketLost
       \/ \E arrives \in BOOLEAN : Receive(arrives) \/ ToggleError(arrives)

Next == Host \/ Bus \/ OtherTransfer \/ ProduceReport \/ Unplug \/ Configure

Spec == Init /\ [][Next]_vars
-----------------------------------------------------------------------------
TypeOK ==
  /\ pc \in {"main", "dispatch", "read"}
  /\ rcvToggle \in {DATA0, DATA1} /\ chipToggle \in {DATA0, DATA1}
  /\ devToggle \in {DATA0, DATA1}
  /\ RCVFIFO \in Nat /\ acked \in Nat /\ produced \in Nat
  /\ data \in Seq(Nat)
  /\ report \in Seq(Int)
  /\ configured \in BOOLEAN

\* The last packet main has got.
Delivered == report[Packets]

(***************************************************************************)
(* Host and keyboard agree on what has been delivered, up to one packet    *)
(* whose acknowledgement was lost; the toggles tell the two cases apart.   *)
(* It holds for reports of one packet.                                     *)
(***************************************************************************)
InStep(done, toggle) ==
  \/ acked = done /\ devToggle = toggle
  \/ acked + 1 = done /\ devToggle # toggle

TogglesAgree ==
  /\ acked <= produced
  /\ Delivered <= produced
  /\ pc \in {"main", "dispatch"} => InStep(Delivered, rcvToggle)
  /\ pc = "dispatch" => chipToggle = rcvToggle /\ data = <<>>
  /\ pc = "read" =>
       /\ data = <<>> /\ RCVFIFO = Delivered + 1 /\ RCVFIFO <= produced
       /\ chipToggle # rcvToggle
       /\ InStep(RCVFIFO, chipToggle)

ReportIsOne == report = RD!Report(Delivered) /\ Delivered \in Nat

IInv == TypeOK /\ ReportIsOne /\ TogglesAgree

\* Every report the keyboard produces reaches main exactly once, in order,
\* whatever packets and acknowledgements are lost, until the keyboard is
\* pulled; and the toggles of the next one start in step.
ImplementsDelivery == RD!Spec
=============================================================================
