-------------------------- MODULE TransfersProofs ---------------------------
(***************************************************************************)
(* Proofs about the transfers of transfer.c.  Polling implements           *)
(* ReportDelivery when a report fits one packet, as the 8 byte reports of  *)
(* the boot protocol do.  A control transfer that succeeds has got exactly *)
(* the reply to its own request, for configurations of any number of       *)
(* packets; and the control transfers never disturb polling.               *)
(***************************************************************************)
EXTENDS Transfers, TLAPS

-----------------------------------------------------------------------------
(***************************************************************************)
(* Polling alone (InTransfer).                                             *)
(***************************************************************************)
\* The reports of one packet are the sequences of one packet number.
LEMMA OnePacket ==
  ASSUME Packets = 1, NEW n \in Int
  PROVE  RD!Report(n) = <<n>> /\ RD!Report(n)[1] = n /\ RD!Report(n) \in Seq(Int)
<1>1. RD!Report(n) = [i \in 1 .. 1 |-> n]
  BY DEF RD!Report
<1>2. [i \in 1 .. 1 |-> n] = <<n>>
  OBVIOUS
<1>3. QED
  BY <1>1, <1>2

LEMMA InitIInv == ASSUME Packets = 1 PROVE Init => IInv
<1> SUFFICES ASSUME Init PROVE IInv
  OBVIOUS
<1> USE DEF Init
<1>1. report = <<0>> /\ Delivered = 0 /\ report \in Seq(Int) /\ report = RD!Report(0)
  BY OnePacket DEF Delivered
<1>2. configured \in BOOLEAN
  BY Zenon
<1>3. TypeOK
  BY <1>1, <1>2 DEF TypeOK, DATA0, DATA1
<1>4. ReportIsOne /\ TogglesAgree
  BY <1>1 DEF ReportIsOne, TogglesAgree, InStep
<1>5. QED
  BY <1>3, <1>4 DEF IInv

-----------------------------------------------------------------------------
\* What a step does to the last report decides whether ReportIsOne survives.
LEMMA SameReport == ASSUME IInv, report' = report PROVE ReportIsOne' /\ Delivered' = Delivered
BY DEF IInv, ReportIsOne, Delivered, RD!Report

LEMMA PollIInv == ASSUME Packets = 1, IInv, Poll PROVE IInv'
<1> USE DEF Poll, devVars
<1>1. TypeOK'
  BY DEF IInv, TypeOK
<1>2. ReportIsOne' /\ Delivered' = Delivered
  BY SameReport
<1>3. TogglesAgree'
  BY <1>2 DEF IInv, TogglesAgree, InStep
<1>4. QED
  BY <1>1, <1>2, <1>3 DEF IInv

\* The read that completes a transfer hands over the next report.
LEMMA ReadPacketIInv ==
  ASSUME Packets = 1, IInv, ReadPacket
  PROVE  IInv' /\ RCVFIFO \in 1 .. produced
         /\ report = RD!Report(RCVFIFO - 1) /\ report' = RD!Report(RCVFIFO)
<1> USE DEF devVars
<1>1. data = <<>> /\ RCVFIFO = Delivered + 1 /\ RCVFIFO <= produced /\ RCVFIFO \in Nat
      /\ Delivered \in Nat /\ produced \in Nat /\ InStep(RCVFIFO, chipToggle)
      /\ report = RD!Report(Delivered)
  BY DEF IInv, TypeOK, TogglesAgree, ReportIsOne, ReadPacket
<1>2. Finish
  <2>1. Len(data) = 0
    BY <1>1
  <2>2. QED
    BY <2>1 DEF ReadPacket
<1>3. report' = <<RCVFIFO>>
  BY <1>1, <1>2 DEF Finish
<1>4. report' = RD!Report(RCVFIFO) /\ report' \in Seq(Int) /\ Delivered' = RCVFIFO
  BY <1>1, <1>3, OnePacket DEF Delivered
<1>5. TypeOK'
  BY <1>2, <1>4 DEF IInv, TypeOK, ReadPacket, Finish
<1>6. ReportIsOne'
  <2>1. RD!Report(Delivered)' = RD!Report(RCVFIFO)
    BY <1>4 DEF RD!Report
  <2>2. QED
    BY <1>1, <1>4, <2>1 DEF ReportIsOne
<1>7. TogglesAgree'
  BY <1>1, <1>2, <1>4 DEF IInv, TogglesAgree, InStep, ReadPacket, Finish
<1>8. RCVFIFO \in 1 .. produced /\ RCVFIFO - 1 = Delivered
  BY <1>1
<1>9. QED
  BY <1>1, <1>4, <1>5, <1>6, <1>7, <1>8 DEF IInv

LEMMA ConfigureIInv == ASSUME Packets = 1, IInv, Configure PROVE IInv'
<1> USE DEF Configure
<1>1. report' = RD!Report(0) /\ report' = <<0>> /\ report' \in Seq(Int) /\ Delivered' = 0
  BY OnePacket DEF Delivered
<1>2. configured' \in BOOLEAN
  BY Zenon
<1>3. TypeOK'
  BY <1>1, <1>2 DEF IInv, TypeOK, DATA0, DATA1
<1>4. ReportIsOne'
  <2>1. RD!Report(Delivered)' = RD!Report(0)
    BY <1>1 DEF RD!Report
  <2>2. QED
    BY <1>1, <2>1 DEF ReportIsOne
<1>5. TogglesAgree'
  BY <1>1 DEF IInv, TogglesAgree, InStep
<1>6. QED
  BY <1>3, <1>4, <1>5 DEF IInv

\* A launch that brings nothing changes at most pc.
LEMMA NothingIInv == ASSUME IInv, Nak \/ PacketLost PROVE IInv'
<1> USE DEF Nak, PacketLost, RelaunchOrReturn, devVars
<1>1. TypeOK'
  BY DEF IInv, TypeOK
<1>2. ReportIsOne' /\ Delivered' = Delivered
  BY SameReport
<1>3. TogglesAgree'
  BY <1>2 DEF IInv, TogglesAgree, InStep
<1>4. QED
  BY <1>1, <1>2, <1>3 DEF IInv

\* An acknowledgement moves the keyboard on by one packet, or not at all.
LEMMA AcknowledgeSteps ==
  ASSUME NEW arrives \in BOOLEAN, Acknowledge(arrives)
  PROVE  \/ acked' = acked + 1 /\ devToggle' = 1 - devToggle
         \/ acked' = acked /\ devToggle' = devToggle
BY DEF Acknowledge, Flip

LEMMA ReceiveIInv ==
  ASSUME Packets = 1, IInv, NEW arrives \in BOOLEAN, Receive(arrives) PROVE IInv'
<1> USE DEF Receive, DATA0, DATA1
<1>1. \/ acked' = acked + 1 /\ devToggle' = 1 - devToggle
      \/ acked' = acked /\ devToggle' = devToggle
  BY AcknowledgeSteps
<1>2. configured' = configured /\ produced' = produced
  BY DEF Acknowledge
<1>3. chipToggle' = 1 - chipToggle
  BY DEF Flip
<1>4. acked < produced /\ acked \in Nat /\ produced \in Nat
  BY DEF IInv, TypeOK, HasPacket
<1>5. TypeOK'
  <2>1. acked' \in Nat /\ devToggle' \in {0, 1} /\ chipToggle' \in {0, 1} /\ RCVFIFO' \in Nat
    BY <1>1, <1>3, <1>4 DEF IInv, TypeOK
  <2>2. QED
    BY <1>2, <2>1 DEF IInv, TypeOK
<1>6. ReportIsOne' /\ Delivered' = Delivered
  BY SameReport
<1>7. acked = Delivered /\ devToggle = rcvToggle /\ chipToggle = rcvToggle /\ data = <<>>
      /\ Delivered \in Nat
  BY DEF IInv, TypeOK, TogglesAgree, InStep, ReportIsOne
<1>8. TogglesAgree'
  <2>1. acked' <= produced' /\ Delivered' <= produced'
    BY <1>1, <1>2, <1>4, <1>6, <1>7
  <2>2. /\ data' = <<>> /\ RCVFIFO' = Delivered + 1 /\ RCVFIFO' <= produced'
        /\ chipToggle' # rcvToggle'
    BY <1>2, <1>3, <1>4, <1>7 DEF IInv, TypeOK
  <2>3. InStep(RCVFIFO, chipToggle)'
    <3>1. CASE acked' = acked + 1 /\ devToggle' = 1 - devToggle
      BY <1>3, <1>7, <3>1 DEF InStep
    <3>2. CASE acked' = acked /\ devToggle' = devToggle
      BY <1>3, <1>7, <3>2 DEF InStep, IInv, TypeOK
    <3>3. QED
      BY <1>1, <3>1, <3>2
  <2>4. QED
    BY <1>6, <2>1, <2>2, <2>3 DEF TogglesAgree
<1>9. QED
  BY <1>5, <1>6, <1>8 DEF IInv

LEMMA ToggleErrorIInv ==
  ASSUME Packets = 1, IInv, NEW arrives \in BOOLEAN, ToggleError(arrives) PROVE IInv'
<1> USE DEF ToggleError, ReturnError, DATA0, DATA1
<1>1. \/ acked' = acked + 1 /\ devToggle' = 1 - devToggle
      \/ acked' = acked /\ devToggle' = devToggle
  BY AcknowledgeSteps
<1>2. configured' = configured /\ produced' = produced
  BY DEF Acknowledge
<1>3. acked < produced /\ acked \in Nat /\ produced \in Nat
  BY DEF IInv, TypeOK, HasPacket
<1>4. TypeOK'
  <2>1. acked' \in Nat /\ devToggle' \in {0, 1}
    BY <1>1, <1>3 DEF IInv, TypeOK
  <2>2. QED
    BY <1>2, <2>1 DEF IInv, TypeOK
<1>5. ReportIsOne' /\ Delivered' = Delivered
  BY SameReport
<1>6. acked + 1 = Delivered /\ devToggle # rcvToggle /\ Delivered \in Nat /\ Delivered <= produced
  BY DEF IInv, TypeOK, TogglesAgree, InStep, ReportIsOne
<1>7. TogglesAgree'
  <2>1. acked' <= produced' /\ Delivered' <= produced'
    BY <1>1, <1>2, <1>3, <1>5, <1>6
  <2>2. InStep(Delivered, rcvToggle)'
    <3>1. CASE acked' = acked + 1 /\ devToggle' = 1 - devToggle
      BY <1>5, <1>6, <3>1 DEF InStep, IInv, TypeOK
    <3>2. CASE acked' = acked /\ devToggle' = devToggle
      BY <1>5, <1>6, <3>2 DEF InStep
    <3>3. QED
      BY <1>1, <3>1, <3>2
  <2>3. QED
    BY <2>1, <2>2 DEF TogglesAgree
<1>8. QED
  BY <1>4, <1>5, <1>7 DEF IInv

\* The keyboard produces a report, or is pulled.
LEMMA KeyboardIInv == ASSUME Packets = 1, IInv, ProduceReport \/ Unplug PROVE IInv'
<1> USE DEF ProduceReport, Unplug, hostVars
<1>1. produced' = produced \/ produced' = produced + 1
  OBVIOUS
<1>2. configured' \in BOOLEAN
  <2>1. CASE ProduceReport
    BY <2>1, Zenon DEF IInv, TypeOK
  <2>2. CASE Unplug
    BY <2>2, Zenon
  <2>3. QED
    BY <2>1, <2>2
<1>3. TypeOK'
  BY <1>1, <1>2 DEF IInv, TypeOK
<1>4. ReportIsOne' /\ Delivered' = Delivered
  BY SameReport
<1>5. TogglesAgree'
  BY <1>1, <1>4 DEF IInv, TypeOK, TogglesAgree, InStep, ReportIsOne
<1>6. QED
  BY <1>3, <1>4, <1>5 DEF IInv

\* Between polls the toggle of the chip tells nothing.
LEMMA OtherTransferIInv == ASSUME IInv, OtherTransfer PROVE IInv'
<1> USE DEF OtherTransfer, devVars
<1>1. ReportIsOne' /\ Delivered' = Delivered
  BY SameReport
<1>2. TypeOK'
  BY DEF IInv, TypeOK
<1>3. TogglesAgree'
  BY <1>1 DEF IInv, TogglesAgree, InStep
<1>4. QED
  BY <1>1, <1>2, <1>3 DEF IInv

LEMMA StutterIInv == ASSUME IInv, UNCHANGED vars PROVE IInv'
<1> USE DEF vars, hostVars, devVars
<1>1. ReportIsOne' /\ Delivered' = Delivered
  BY SameReport
<1>2. QED
  BY <1>1 DEF IInv, TypeOK, TogglesAgree, InStep

LEMMA NextIInv == ASSUME Packets = 1, IInv, [Next]_vars PROVE IInv'
BY PollIInv, ReadPacketIInv, ConfigureIInv, NothingIInv, ReceiveIInv, ToggleErrorIInv,
   KeyboardIInv, OtherTransferIInv, StutterIInv DEF Next, Host, Bus

-----------------------------------------------------------------------------
\* The toggles of host and keyboard stay in step whatever is lost, for
\* reports of one packet.
THEOREM TogglesCorrect == ASSUME Packets = 1 PROVE Spec => []IInv
<1>1. Init => IInv
  BY InitIInv
<1>2. IInv /\ [Next]_vars => IInv'
  BY NextIInv
<1>3. QED
  BY <1>1, <1>2, PTL DEF Spec

\* Every step of the host, the bus and the keyboard is one of ReportDelivery
\* or changes neither the reports produced nor the report main has.
LEMMA StepRefines == ASSUME Packets = 1, IInv, [Next]_vars PROVE [RD!Next]_(RD!vars)
<1> USE DEF RD!vars
<1>1. CASE Poll
  BY <1>1 DEF Poll, devVars
<1>2. CASE ReadPacket
  <2>1. produced' = produced
    BY <1>2 DEF ReadPacket, devVars
  <2>2. RCVFIFO \in 1 .. produced
        /\ report = RD!Report(RCVFIFO - 1) /\ report' = RD!Report(RCVFIFO)
    BY <1>2, ReadPacketIInv
  <2>3. QED
    BY <2>1, <2>2 DEF RD!Next, RD!Deliver
<1>3. CASE Bus
  BY <1>3 DEF Bus, Nak, PacketLost, Receive, ToggleError, RelaunchOrReturn, ReturnError,
              Acknowledge, devVars
<1>4. CASE ProduceReport
  BY <1>4 DEF ProduceReport, hostVars, RD!Next, RD!Produce
<1>5. CASE Unplug
  BY <1>5 DEF Unplug, hostVars
<1>6. CASE Configure
  BY <1>6 DEF Configure, RD!Next, RD!Configure
<1>7. CASE UNCHANGED vars
  BY <1>7 DEF vars, hostVars, devVars
<1>8. CASE OtherTransfer
  BY <1>8 DEF OtherTransfer, devVars
<1>9. QED
  BY <1>1, <1>2, <1>3, <1>4, <1>5, <1>6, <1>7, <1>8 DEF Next, Host

\* Polling delivers every report exactly once and in order: kbdPoll,
\* XferInTransfer and the toggles implement ReportDelivery.
THEOREM DeliveryCorrect == ASSUME Packets = 1 PROVE Spec => ImplementsDelivery
<1>1. Init => RD!Init
  BY DEF Init, RD!Init
<1>2. IInv /\ [Next]_vars => [RD!Next]_(RD!vars)
  BY StepRefines
<1>3. QED
  BY <1>1, <1>2, TogglesCorrect, PTL DEF Spec, ImplementsDelivery, RD!Spec

-----------------------------------------------------------------------------
(***************************************************************************)
(* The control transfers beside it.                                        *)
(***************************************************************************)
LEMMA RequestsWithData ==
  WithData = {"MouseHead", "MouseConf", "KeyboardHead", "KeyboardConf", "GetIdle", "GetProto"}
BY DEF WithData, Packets0

LEMMA Packets0Type == ASSUME NEW r \in WithData PROVE Packets0[r] \in Nat \ {0}
BY ConfPacketsAssumption, RequestsWithData DEF Packets0

LEMMA NextRequests ==
  ASSUME NEW r \in Requests
  PROVE  /\ AfterSuccess[r] \in Requests \union {"none"}
         /\ AfterError[r] \in Requests \union {"none"}
BY RequestsWithData DEF Requests, AfterSuccess, AfterError

LEMMA NoReport == RD!Report(0) \in Seq(Int)
<1>1. RD!Report(0) \in [1 .. Packets -> Int]
  BY PacketsAssumption DEF RD!Report
<1>2. QED
  BY <1>1, PacketsAssumption

-----------------------------------------------------------------------------
\* The types of the control transfers, apart from those of InTransfer.
ControlTypeOK ==
  /\ request \in Requests \union {"none"}
  /\ stage \in {"setup", "in", "status"}
  /\ reply \in Seq(Requests \X Nat)
  /\ running \in BOOLEAN /\ configured \in BOOLEAN /\ boot \in BOOLEAN /\ fresh \in BOOLEAN
  /\ attachment \in {"absent", "attached", "probed", "claimed"}
  /\ devRequest \in Requests \union {"none"}
  /\ devStage \in {"idle", "data", "status", "done"}
  /\ sent \in Nat /\ dev0Toggle \in {DATA0, DATA1}

LEMMA TypeParts == TypeOKAll <=> TypeOK /\ ControlTypeOK
BY Zenon DEF TypeOKAll, ControlTypeOK

LEMMA PartsTogether ==
  ASSUME TypeOK', ControlTypeOK', ReplyIsExact', ExchangeInStep' PROVE ControlInv'
BY Zenon DEF ControlInv, TypeOKAll, ControlTypeOK

LEMMA InitControlInv == InitAll => ControlInv
<1> SUFFICES ASSUME InitAll PROVE ControlInv
  OBVIOUS
<1> USE DEF InitAll
<1>1. TypeOK
  <2>1. configured \in BOOLEAN
    BY Zenon
  <2>2. QED
    BY <2>1, NoReport DEF TypeOK, DATA0
<1>2. ControlTypeOK
  <2>1. running \in BOOLEAN /\ configured \in BOOLEAN /\ boot \in BOOLEAN /\ fresh \in BOOLEAN
    BY Zenon
  <2>2. reply \in Seq(Requests \X Nat) /\ sent \in Nat /\ dev0Toggle \in {DATA0, DATA1}
    BY DEF DATA0, DATA1
  <2>3. QED
    BY <2>1, <2>2 DEF ControlTypeOK
<1>3. ReplyIsExact /\ ExchangeInStep
  BY DEF ReplyIsExact, ExchangeInStep, Addressed, Requests
<1>4. QED
  BY <1>1, <1>2, <1>3, TypeParts DEF ControlInv

-----------------------------------------------------------------------------
(***************************************************************************)
(* The types of InTransfer survive its own steps and those of the control  *)
(* transfers.                                                              *)
(***************************************************************************)
LEMMA PollingTypeOK == ASSUME TypeOK, PollRunning \/ ReadPacket \/ Bus \/ ProduceReport PROVE TypeOK'
<1> USE DEF TypeOK, hostVars, devVars
<1>1. CASE PollRunning
  BY <1>1 DEF PollRunning, Poll
<1>2. CASE ReadPacket
  <2>1. data \in Seq(Int) /\ Append(data, RCVFIFO) \in Seq(Int) /\ Append(data, RCVFIFO) \in Seq(Nat)
    OBVIOUS
  <2>2. <<>> \in Seq(Nat)
    OBVIOUS
  <2>3. QED
    BY <1>2, <2>1, <2>2 DEF ReadPacket, Finish
<1>3. CASE ProduceReport
  BY <1>3 DEF ProduceReport
<1>4. CASE Nak \/ PacketLost
  BY <1>4 DEF Nak, PacketLost, RelaunchOrReturn
<1>5. ASSUME NEW arrives \in BOOLEAN, Receive(arrives) \/ ToggleError(arrives) PROVE TypeOK'
  <2>1. /\ acked' = acked + 1 \/ acked' = acked
        /\ devToggle' = Flip(devToggle) \/ devToggle' = devToggle
        /\ configured' = configured /\ produced' = produced
    BY <1>5 DEF Receive, ToggleError, Acknowledge
  <2>2. /\ chipToggle' = Flip(chipToggle) \/ chipToggle' = chipToggle
        /\ RCVFIFO' = acked + 1 \/ RCVFIFO' = RCVFIFO
        /\ pc' \in {"read", "main"} /\ rcvToggle' = rcvToggle /\ data' = data /\ report' = report
    BY <1>5 DEF Receive, ToggleError, ReturnError
  <2>3. devToggle' \in {DATA0, DATA1} /\ chipToggle' \in {DATA0, DATA1} /\ acked' \in Nat
    BY <2>1, <2>2 DEF Flip, DATA0, DATA1
  <2>4. RCVFIFO' \in Nat
    BY <2>2
  <2>5. QED
    BY <2>1, <2>2, <2>3, <2>4
<1>6. QED
  BY <1>1, <1>2, <1>3, <1>4, <1>5 DEF Bus

\* What a step of the control transfers may do to InTransfer.
LEMMA ControlTypeSteps ==
  ASSUME TypeOK,
         pc' = pc /\ RCVFIFO' = RCVFIFO /\ data' = data,
         rcvToggle' \in {DATA0, DATA1}, chipToggle' \in {DATA0, DATA1},
         \/ UNCHANGED <<devToggle, acked, produced, report>>
         \/ devToggle' = DATA0 /\ acked' = 0 /\ produced' = 0 /\ report' = RD!Report(0),
         configured' \in BOOLEAN
  PROVE  TypeOK'
<1>1. devToggle' \in {DATA0, DATA1} /\ acked' \in Nat /\ produced' \in Nat
  BY DEF TypeOK
<1>2. report' \in Seq(Int)
  BY NoReport DEF TypeOK
<1>3. QED
  BY <1>1, <1>2 DEF TypeOK

-----------------------------------------------------------------------------
(***************************************************************************)
(* A host that starts a request, or ends one, has nothing to agree on with *)
(* the keyboard.                                                           *)
(***************************************************************************)
LEMMA Restarted ==
  ASSUME NEW next \in Requests \union {"none"}, Start(next),
         next # "none" => pc' = "main",
         devStage' = "status" => devRequest' \notin WithData,
         ~Addressed' => devStage' = "idle"
  PROVE  /\ request' \in Requests \union {"none"} /\ stage' \in {"setup", "in", "status"}
         /\ reply' \in Seq(Requests \X Nat)
         /\ ReplyIsExact' /\ ExchangeInStep'
BY DEF Start, ReplyIsExact, ExchangeInStep

\* A launch that meets nobody: the request goes on as it was, or is over.
LEMMA Unanswered ==
  ASSUME ControlInv, Control, LaunchAgainOrFail, pc' = pc, chipToggle' = chipToggle,
         UNCHANGED <<device0Vars, attachment>>
  PROVE  /\ request' \in Requests \union {"none"} /\ stage' \in {"setup", "in", "status"}
         /\ reply' \in Seq(Requests \X Nat) /\ running' = running
         /\ ReplyIsExact' /\ ExchangeInStep'
<1> USE DEF device0Vars
<1>1. request \in Requests /\ pc' = "main"
  BY TypeParts DEF ControlInv, ControlTypeOK, Control
<1>2. running' = running
  BY DEF LaunchAgainOrFail, Fail
<1>3. CASE Fail
  <2>1. Start(AfterError[request]) /\ AfterError[request] \in Requests \union {"none"}
    BY <1>1, <1>3, NextRequests DEF Fail
  <2>2. (devStage' = "status" => devRequest' \notin WithData) /\ (~Addressed' => devStage' = "idle")
    BY DEF ControlInv, ExchangeInStep, Addressed
  <2>3. QED
    BY <1>1, <1>2, <2>1, <2>2, Restarted
<1>4. CASE UNCHANGED <<requestVars, running>>
  BY <1>4, TypeParts DEF ControlInv, ControlTypeOK, requestVars, ReplyIsExact, ExchangeInStep, Exchanged,
                         Addressed
<1>5. QED
  BY <1>3, <1>4 DEF LaunchAgainOrFail

LEMMA NoAnswerInv == ASSUME ControlInv, NoAnswer PROVE ControlInv'
<1> USE DEF NoAnswer, vars, hostVars, devVars, device0Vars
<1>1. /\ request' \in Requests \union {"none"} /\ stage' \in {"setup", "in", "status"}
      /\ reply' \in Seq(Requests \X Nat) /\ running' = running
      /\ ReplyIsExact' /\ ExchangeInStep'
  BY Unanswered
<1>2. TypeOK'
  BY DEF ControlInv, TypeOKAll, TypeOK
<1>3. ControlTypeOK'
  BY <1>1, TypeParts DEF ControlInv, ControlTypeOK
<1>4. QED
  BY <1>1, <1>2, <1>3, PartsTogether

LEMMA ProbeInv == ASSUME ControlInv, Probe PROVE ControlInv'
<1> USE DEF Probe, vars, hostVars, devVars, device0Vars
<1>1. "MouseHead" \in Requests
  BY RequestsWithData DEF Requests
<1>2. devStage = "idle"
  BY DEF ControlInv, ExchangeInStep, Addressed
<1>3. /\ request' \in Requests \union {"none"} /\ stage' \in {"setup", "in", "status"}
      /\ reply' \in Seq(Requests \X Nat) /\ ReplyIsExact' /\ ExchangeInStep'
  BY <1>1, <1>2, Restarted
<1>4. TypeOK'
  BY DEF ControlInv, TypeOKAll, TypeOK
<1>5. ControlTypeOK'
  <2>1. running' \in BOOLEAN
    BY Zenon
  <2>2. QED
    BY <1>3, <2>1, TypeParts DEF ControlInv, ControlTypeOK
<1>6. QED
  BY <1>3, <1>4, <1>5, PartsTogether

LEMMA PollingInv == ASSUME ControlInv, Polling PROVE ControlInv'
<1> USE DEF Polling, controlVars, requestVars, device0Vars
<1>1. TypeOK'
  BY PollingTypeOK DEF ControlInv, TypeOKAll
<1>2. ControlTypeOK'
  <2>1. configured' = configured
    BY DEF PollRunning, Poll, ReadPacket, Bus, Nak, PacketLost, Receive, ToggleError, Acknowledge,
           ProduceReport, devVars
  <2>2. QED
    BY <2>1, TypeParts DEF ControlInv, ControlTypeOK
<1>3. ReplyIsExact'
  BY DEF ControlInv, ReplyIsExact
<1>4. request # "none" => pc' = pc /\ chipToggle' = chipToggle
  BY DEF ControlInv, ExchangeInStep, PollRunning, Poll, ReadPacket, Bus, Nak, PacketLost, Receive,
         ToggleError, ProduceReport, hostVars
<1>5. ExchangeInStep'
  BY <1>4 DEF ControlInv, ExchangeInStep, Exchanged, Addressed
<1>6. QED
  BY <1>1, <1>2, <1>3, <1>5, PartsTogether

LEMMA AttachmentInv == ASSUME ControlInv, Detach \/ Attach PROVE ControlInv'
<1> USE DEF Detach, Attach, vars, hostVars, devVars, requestVars, device0Vars
<1>1. /\ configured' \in BOOLEAN /\ boot' \in BOOLEAN /\ devStage' \in {"idle", "data", "status", "done"}
      /\ running' = running /\ fresh' = fresh
  <2>1. CASE Detach
    BY <2>1, Zenon
  <2>2. CASE Attach
    BY <2>2, TypeParts DEF ControlInv, ControlTypeOK
  <2>3. QED
    BY <2>1, <2>2
<1>2. TypeOK'
  BY <1>1 DEF ControlInv, TypeOKAll, TypeOK
<1>3. ControlTypeOK'
  BY <1>1, TypeParts DEF ControlInv, ControlTypeOK
<1>4. ReplyIsExact' /\ ExchangeInStep'
  BY DEF ControlInv, ReplyIsExact, ExchangeInStep, Addressed
<1>5. QED
  BY <1>2, <1>3, <1>4, PartsTogether

\* The SETUP packet reaches the keyboard, which starts the request anew.
LEMMA SetupInv == ASSUME ControlInv, NEW acknowledged \in BOOLEAN, Setup(acknowledged) PROVE ControlInv'
<1> USE DEF Setup, devVars
<1>1. /\ request \in Requests /\ pc' = "main" /\ reply = <<>> /\ Addressed /\ Addressed'
      /\ stage = "setup" /\ request # "none"
  BY TypeParts DEF ControlInv, ControlTypeOK, Control, ExchangeInStep, Addressed
<1>2. /\ devRequest' = request /\ sent' = 0 /\ dev0Toggle' = DATA1
      /\ devStage' = IF request \in WithData THEN "data" ELSE "status"
  OBVIOUS
<1>3. /\ request' \in Requests \union {"none"} /\ stage' \in {"setup", "in", "status"}
      /\ reply' \in Seq(Requests \X Nat) /\ running' = running
      /\ chipToggle' \in {DATA0, DATA1} /\ ReplyIsExact' /\ ExchangeInStep'
  <2>1. chipToggle' = chipToggle \/ chipToggle' = DATA1
    BY DEF DataStage
  <2>2. chipToggle' \in {DATA0, DATA1}
    BY <2>1 DEF ControlInv, TypeOKAll, TypeOK
  <2>3. CASE acknowledged /\ request \in WithData /\ DataStage /\ UNCHANGED running
    <3>1. stage' = "in" /\ request' = request /\ reply' = <<>> /\ running' = running /\ chipToggle' = DATA1
      BY <1>1, <2>3 DEF DataStage
    <3>2. Packets0[request] \in Nat \ {0}
      BY <2>3, Packets0Type
    <3>3. ExchangeInStep'
      BY <1>1, <1>2, <2>3, <3>1, <3>2 DEF ExchangeInStep, Exchanged, Packets0
    <3>4. ReplyIsExact'
      BY <3>1 DEF ReplyIsExact
    <3>5. QED
      BY <1>1, <2>2, <3>1, <3>3, <3>4
  <2>4. CASE /\ acknowledged /\ request \notin WithData /\ stage' = "status"
             /\ UNCHANGED <<request, reply, chipToggle, running>>
    <3>1. ReplyIsExact'
      BY <1>1, <2>4 DEF ReplyIsExact
    <3>2. ExchangeInStep'
      BY <1>1, <1>2, <2>4 DEF ExchangeInStep
    <3>3. QED
      BY <1>1, <2>2, <2>4, <3>1, <3>2
  <2>5. CASE Fail
    <3>1. Start(AfterError[request]) /\ AfterError[request] \in Requests \union {"none"} /\ running' = running
      BY <1>1, <2>5, NextRequests DEF Fail
    <3>2. QED
      BY <1>1, <1>2, <2>2, <3>1, Restarted
  <2>6. CASE ~acknowledged /\ UNCHANGED <<requestVars, running>>
    <3>1. request' = request /\ stage' = "setup" /\ reply' = <<>> /\ running' = running
      BY <1>1, <2>6 DEF requestVars
    <3>2. ReplyIsExact'
      BY <3>1 DEF ReplyIsExact
    <3>3. ExchangeInStep'
      BY <1>1, <1>2, <3>1 DEF ExchangeInStep
    <3>4. QED
      BY <1>1, <2>2, <3>1, <3>2, <3>3
  <2>7. QED
    BY <2>3, <2>4, <2>5, <2>6 DEF LaunchAgainOrFail
<1>4. TypeOK'
  BY <1>3 DEF ControlInv, TypeOKAll, TypeOK
<1>5. ControlTypeOK'
  BY <1>1, <1>2, <1>3, TypeParts DEF ControlInv, ControlTypeOK, DATA1
<1>6. QED
  BY <1>3, <1>4, <1>5, PartsTogether

\* Where host and keyboard are when a packet of the reply is sent.
LEMMA AtData ==
  ASSUME ControlInv, HasReply
  PROVE  /\ request \in WithData /\ request \in Requests /\ devRequest = request /\ pc = "main"
         /\ Exchanged /\ Len(reply) < Packets0[request] /\ Packets0[request] \in Nat
         /\ stage = "in" /\ Addressed /\ devStage = "data" /\ request # "none"
<1>1. request \in WithData /\ devRequest = request /\ Exchanged /\ Len(reply) < Packets0[request]
      /\ stage = "in" /\ Addressed /\ devStage = "data"
  BY DEF HasReply, ControlInv, ExchangeInStep
<1>2. pc = "main" /\ request \in Requests /\ request # "none"
  BY <1>1 DEF HasReply, Control, Requests
<1>3. QED
  BY <1>1, <1>2, Packets0Type

LEMMA ReceiveReplyInv == ASSUME ControlInv, NEW arrives \in BOOLEAN, ReceiveReply(arrives) PROVE ControlInv'
<1> USE DEF ReceiveReply, devVars
<1>1. /\ request \in WithData /\ request \in Requests /\ devRequest = request /\ pc = "main"
      /\ Exchanged /\ Len(reply) < Packets0[request] /\ Packets0[request] \in Nat
      /\ stage = "in" /\ Addressed /\ devStage = "data" /\ request # "none"
  BY AtData
<1>2. sent = Len(reply) /\ dev0Toggle = chipToggle /\ sent \in Nat /\ dev0Toggle \in {0, 1}
  BY <1>1, TypeParts DEF ControlInv, ControlTypeOK, Exchanged, DATA0, DATA1
<1>3. chipToggle' = 1 - chipToggle /\ chipToggle' \in {DATA0, DATA1}
  BY <1>2 DEF Flip, DATA0, DATA1
<1>4. /\ devRequest' = devRequest /\ devStage' = devStage
      /\ \/ sent' = sent + 1 /\ dev0Toggle' = 1 - dev0Toggle
         \/ sent' = sent /\ dev0Toggle' = dev0Toggle
  BY DEF Acknowledge0, Flip
<1>5. /\ reply' = Append(reply, <<request, sent + 1>>) /\ request' = request /\ running' = running
      /\ stage' = IF Len(reply') = Packets0[request] THEN "status" ELSE "in"
  BY <1>1 DEF ReadReply
<1>6. reply \in Seq(Requests \X Nat) /\ <<request, sent + 1>> \in Requests \X Nat
  BY <1>1, <1>2, TypeParts DEF ControlInv, ControlTypeOK
<1>7. reply' \in Seq(Requests \X Nat) /\ Len(reply') = Len(reply) + 1
  BY <1>5, <1>6
<1>8. ReplyIsExact'
  <2>1. \A i \in 1 .. Len(reply) : reply[i] = <<request, i>>
    BY DEF ControlInv, ReplyIsExact
  <2>2. ASSUME NEW i \in 1 .. Len(reply') PROVE reply'[i] = <<request, i>>
    BY <1>2, <1>5, <1>6, <1>7, <2>1
  <2>3. stage' = "status" => Len(reply') = Packets0[request]
    BY <1>5
  <2>4. QED
    BY <1>5, <2>2, <2>3 DEF ReplyIsExact, Packets0
<1>9. ExchangeInStep'
  <2>1. Exchanged'
    BY <1>2, <1>3, <1>4, <1>7 DEF Exchanged
  <2>2. stage' \in {"in", "status"} /\ (stage' = "in" => Len(reply') < Packets0[request])
    BY <1>1, <1>5, <1>7
  <2>3. pc' = "main" /\ Addressed'
    BY <1>1 DEF Addressed
  <2>4. QED
    BY <1>1, <1>4, <1>5, <2>1, <2>2, <2>3 DEF ExchangeInStep, Packets0, Requests
<1>10. TypeOK'
  BY <1>3 DEF ControlInv, TypeOKAll, TypeOK
<1>11. ControlTypeOK'
  <2>1. sent' \in Nat /\ dev0Toggle' \in {DATA0, DATA1}
    BY <1>2, <1>4 DEF DATA0, DATA1
  <2>2. QED
    BY <1>1, <1>4, <1>5, <1>7, <2>1, TypeParts DEF ControlInv, ControlTypeOK
<1>12. QED
  BY <1>8, <1>9, <1>10, <1>11, PartsTogether

\* A repeated packet ends the request.
LEMMA RepeatedReplyInv == ASSUME ControlInv, NEW arrives \in BOOLEAN, RepeatedReply(arrives) PROVE ControlInv'
<1> USE DEF RepeatedReply, vars, hostVars, devVars
<1>1. request \in Requests /\ pc' = "main" /\ Addressed' /\ devStage = "data"
  BY AtData DEF Addressed
<1>2. /\ devRequest' = devRequest /\ devStage' = devStage
      /\ \/ sent' = sent + 1 /\ dev0Toggle' = 1 - dev0Toggle
         \/ sent' = sent /\ dev0Toggle' = dev0Toggle
  BY DEF Acknowledge0, Flip
<1>3. Start(AfterError[request]) /\ AfterError[request] \in Requests \union {"none"} /\ running' = running
  BY <1>1, NextRequests DEF Fail
<1>4. /\ request' \in Requests \union {"none"} /\ stage' \in {"setup", "in", "status"}
      /\ reply' \in Seq(Requests \X Nat) /\ ReplyIsExact' /\ ExchangeInStep'
  BY <1>1, <1>2, <1>3, Restarted
<1>5. TypeOK'
  BY DEF ControlInv, TypeOKAll, TypeOK
<1>6. ControlTypeOK'
  <2>1. sent' \in Nat /\ dev0Toggle' \in {DATA0, DATA1}
    BY <1>2, TypeParts DEF ControlInv, ControlTypeOK, DATA0, DATA1
  <2>2. QED
    BY <1>2, <1>3, <1>4, <2>1, TypeParts DEF ControlInv, ControlTypeOK
<1>7. QED
  BY <1>4, <1>5, <1>6, PartsTogether

LEMMA ExecuteTypes ==
  ASSUME ControlInv, Execute
  PROVE  /\ \/ UNCHANGED <<devToggle, acked, produced, report>>
            \/ devToggle' = DATA0 /\ acked' = 0 /\ produced' = 0 /\ report' = RD!Report(0)
         /\ configured' \in BOOLEAN /\ boot' \in BOOLEAN
<1>1. configured \in BOOLEAN /\ boot \in BOOLEAN
  BY Zenon, TypeParts DEF ControlInv, ControlTypeOK
<1>2. CASE /\ devStage = "status" /\ devRequest = "SetConf"
           /\ configured' = TRUE /\ devToggle' = DATA0
           /\ acked' = 0 /\ produced' = 0 /\ report' = RD!Report(0)
           /\ UNCHANGED boot
  BY <1>1, <1>2, Zenon
<1>3. CASE devStage = "status" /\ devRequest = "SetProto" /\ boot' = TRUE /\ UNCHANGED <<devVars, report>>
  BY <1>1, <1>3, Zenon DEF devVars
<1>4. CASE devStage # "status" /\ UNCHANGED <<devVars, report, boot>>
  BY <1>1, <1>4, Zenon DEF devVars
<1>5. QED
  BY <1>2, <1>3, <1>4 DEF Execute

LEMMA StatusInv == ASSUME ControlInv, NEW arrives \in BOOLEAN, Status(arrives) PROVE ControlInv'
<1> USE DEF Status
<1>1. request \in Requests /\ request # "none" /\ pc' = "main" /\ Addressed
  BY TypeParts DEF ControlInv, ControlTypeOK, Control
<1>2. /\ devStage' = "done" /\ chipToggle' = chipToggle
      /\ devRequest' = devRequest /\ sent' = sent /\ dev0Toggle' = dev0Toggle
  OBVIOUS
<1>3. /\ \/ UNCHANGED <<devToggle, acked, produced, report>>
         \/ devToggle' = DATA0 /\ acked' = 0 /\ produced' = 0 /\ report' = RD!Report(0)
      /\ configured' \in BOOLEAN /\ boot' \in BOOLEAN
  BY ExecuteTypes
<1>4. fresh' \in BOOLEAN
  BY Zenon
<1>5. CASE arrives
  <2>1. Start(AfterSuccess[request]) /\ AfterSuccess[request] \in Requests \union {"none"}
    BY <1>1, <1>5, NextRequests DEF Succeed
  <2>2. running' \in BOOLEAN
    <3>1. running' = (running \/ request = "SetProto")
      BY <1>5 DEF Succeed
    <3>2. QED
      BY <3>1, Zenon
  <2>3. /\ attachment' = attachment \/ attachment' = "claimed"
        /\ rcvToggle' = rcvToggle \/ rcvToggle' = DATA0
    BY <1>5 DEF Succeed, Claim
  <2>4. Addressed'
    BY <1>1, <2>3 DEF Addressed
  <2>5. /\ request' \in Requests \union {"none"} /\ stage' \in {"setup", "in", "status"}
        /\ reply' \in Seq(Requests \X Nat) /\ ReplyIsExact' /\ ExchangeInStep'
    BY <1>1, <1>2, <2>1, <2>4, Restarted
  <2>6. TypeOK'
    <3>1. rcvToggle' \in {DATA0, DATA1} /\ chipToggle' \in {DATA0, DATA1}
      BY <1>2, <2>3 DEF ControlInv, TypeOKAll, TypeOK
    <3>2. QED
      BY <1>3, <3>1, ControlTypeSteps DEF ControlInv, TypeOKAll
  <2>7. ControlTypeOK'
    BY <1>2, <1>3, <1>4, <2>2, <2>3, <2>5, TypeParts DEF ControlInv, ControlTypeOK
  <2>8. QED
    BY <2>5, <2>6, <2>7, PartsTogether
<1>6. CASE ~arrives
  <2>1. LaunchAgainOrFail /\ attachment' = attachment /\ rcvToggle' = rcvToggle
    BY <1>6
  <2>2. /\ request' \in Requests \union {"none"} /\ stage' \in {"setup", "in", "status"}
        /\ reply' \in Seq(Requests \X Nat) /\ running' = running /\ ReplyIsExact' /\ ExchangeInStep'
    <3>1. CASE Fail
      <4>1. Start(AfterError[request]) /\ AfterError[request] \in Requests \union {"none"}
            /\ running' = running
        BY <1>1, <3>1, NextRequests DEF Fail
      <4>2. Addressed'
        BY <1>1, <2>1 DEF Addressed
      <4>3. QED
        BY <1>1, <1>2, <4>1, <4>2, Restarted
    <3>2. CASE UNCHANGED <<requestVars, running>>
      <4>1. request' = request /\ stage' = "status" /\ reply' = reply /\ running' = running
        BY <3>2 DEF requestVars
      <4>2. ReplyIsExact'
        BY <4>1 DEF ControlInv, ReplyIsExact
      <4>3. ExchangeInStep'
        BY <1>1, <1>2, <2>1, <4>1 DEF ControlInv, ExchangeInStep, Addressed
      <4>4. QED
        BY <4>1, <4>2, <4>3, TypeParts DEF ControlInv, ControlTypeOK
    <3>3. QED
      BY <2>1, <3>1, <3>2 DEF LaunchAgainOrFail
  <2>3. TypeOK'
    <3>1. rcvToggle' \in {DATA0, DATA1} /\ chipToggle' \in {DATA0, DATA1}
      BY <1>2, <2>1 DEF ControlInv, TypeOKAll, TypeOK
    <3>2. QED
      BY <1>3, <3>1, ControlTypeSteps DEF ControlInv, TypeOKAll
  <2>4. ControlTypeOK'
    BY <1>2, <1>3, <1>4, <2>1, <2>2, TypeParts DEF ControlInv, ControlTypeOK
  <2>5. QED
    BY <2>2, <2>3, <2>4, PartsTogether
<1>7. QED
  BY <1>5, <1>6

LEMMA StutterControlInv == ASSUME ControlInv, UNCHANGED allVars PROVE ControlInv'
<1> USE DEF allVars, vars, hostVars, devVars, controlVars, requestVars, device0Vars
<1>1. TypeOK'
  BY DEF ControlInv, TypeOKAll, TypeOK
<1>2. ControlTypeOK'
  BY TypeParts DEF ControlInv, ControlTypeOK
<1>3. ReplyIsExact' /\ ExchangeInStep'
  BY DEF ControlInv, ReplyIsExact, ExchangeInStep, Exchanged, Addressed
<1>4. QED
  BY <1>1, <1>2, <1>3, PartsTogether

-----------------------------------------------------------------------------
\* Host and keyboard stay in step through the stages of every request.
THEOREM ControlCorrect == SpecAll => []ControlInv
<1>1. InitAll => ControlInv
  BY InitControlInv
<1>2. ControlInv /\ [NextAll]_allVars => ControlInv'
  BY ProbeInv, PollingInv, NoAnswerInv, SetupInv, ReceiveReplyInv, RepeatedReplyInv, StatusInv,
     AttachmentInv, StutterControlInv DEF NextAll, ControlBus
<1>3. QED
  BY <1>1, <1>2, PTL DEF SpecAll

\* A request of XferCtrlReq that returns 0 has got exactly the packets of its
\* own reply, for replies of any length and whatever is lost.
THEOREM RepliesCorrect == SpecAll => []ReplyIsExact
<1>1. ControlInv => ReplyIsExact
  BY DEF ControlInv
<1>2. QED
  BY <1>1, ControlCorrect, PTL

-----------------------------------------------------------------------------
LEMMA InitProbe == InitAll => ProbeInStep /\ BootInStep
BY DEF InitAll, ProbeInStep, BootInStep, Addressed, AfterConf, AfterProbe

LEMMA ProbeInStepStep ==
  ASSUME ControlInv, ProbeInStep, BootInStep, Probe PROVE ProbeInStep' /\ BootInStep'
<1>1. configured = FALSE /\ devStage = "idle"
  BY TypeParts DEF Probe, ControlInv, ControlTypeOK, ProbeInStep, ExchangeInStep, Addressed
<1>2. QED
  BY <1>1 DEF Probe, Start, ProbeInStep, BootInStep, Addressed, AfterConf, AfterProbe, vars, hostVars,
              devVars, device0Vars

LEMMA PollingStep ==
  ASSUME ControlInv, ProbeInStep, BootInStep, Polling PROVE ProbeInStep' /\ BootInStep'
<1> USE DEF Polling, controlVars, requestVars, device0Vars
<1>1. configured' = configured
  BY DEF PollRunning, Poll, ReadPacket, Bus, Nak, PacketLost, Receive, ToggleError, Acknowledge,
         ProduceReport, devVars
<1>2. fresh => pc' = pc
  BY DEF ProbeInStep, PollRunning, ReadPacket, Bus, Nak, PacketLost, Receive, ToggleError,
         ProduceReport, hostVars
<1>3. QED
  BY <1>1, <1>2 DEF ProbeInStep, BootInStep, Addressed

LEMMA AttachmentStep ==
  ASSUME ControlInv, ProbeInStep, BootInStep, Detach \/ Attach PROVE ProbeInStep' /\ BootInStep'
<1>1. CASE Detach
  BY <1>1 DEF Detach, ProbeInStep, BootInStep, Addressed, hostVars, requestVars
<1>2. CASE Attach
  BY <1>2 DEF Attach, ProbeInStep, BootInStep, Addressed, vars, hostVars, devVars, requestVars,
              device0Vars
<1>3. QED
  BY <1>1, <1>2

\* A request that is over with an error, or is launched again.
LEMMA FailStep ==
  ASSUME ControlInv, ProbeInStep, BootInStep, Control, Fail
  PROVE  /\ running' = running /\ stage' = "setup"
         /\ request' \in AfterConf => request \in AfterConf
         /\ request' \in AfterProbe => request \in AfterProbe
         /\ request' # "SetConf" /\ request' # "SetProto"
         /\ running => request' \in AfterProbe \union {"none"}
         /\ request' # "none" => (request' \in AfterConf <=> request \in AfterConf) /\ request # "SetConf"
<1>1. request \in Requests
  BY TypeParts DEF ControlInv, ControlTypeOK, Control
<1>2. request' = AfterError[request] /\ running' = running /\ stage' = "setup"
  BY DEF Fail, Start
<1>3. QED
  BY <1>1, <1>2, RequestsWithData DEF Requests, AfterError, AfterConf, AfterProbe, ProbeInStep, Control

LEMMA NoAnswerStep ==
  ASSUME ControlInv, ProbeInStep, BootInStep, NoAnswer PROVE ProbeInStep' /\ BootInStep'
<1> USE DEF NoAnswer, vars, hostVars, devVars, device0Vars
<1>1. CASE Fail
  BY <1>1, FailStep DEF Control, ProbeInStep, BootInStep, Addressed
<1>2. CASE UNCHANGED <<requestVars, running>>
  BY <1>2 DEF requestVars, ProbeInStep, BootInStep, Addressed
<1>3. QED
  BY <1>1, <1>2 DEF LaunchAgainOrFail

LEMMA SetupStep ==
  ASSUME ControlInv, ProbeInStep, BootInStep, NEW acknowledged \in BOOLEAN, Setup(acknowledged)
  PROVE  ProbeInStep' /\ BootInStep'
<1> USE DEF Setup, devVars
<1>1. /\ devRequest' = request /\ devStage' = IF request \in WithData THEN "data" ELSE "status"
      /\ stage = "setup" /\ Addressed
  OBVIOUS
<1>2. CASE Fail
  BY <1>1, <1>2, FailStep DEF Control, ProbeInStep, BootInStep, Addressed, AfterConf
<1>3. CASE /\ UNCHANGED <<request, running>>
           /\ stage' = "setup" \/ stage' \in {"in", "status"}
  BY <1>1, <1>3 DEF ProbeInStep, BootInStep, Addressed, AfterConf
<1>4. QED
  BY <1>1, <1>2, <1>3 DEF LaunchAgainOrFail, DataStage, requestVars

LEMMA ReplyStep ==
  ASSUME ControlInv, ProbeInStep, BootInStep, NEW arrives \in BOOLEAN,
         ReceiveReply(arrives) \/ RepeatedReply(arrives)
  PROVE  ProbeInStep' /\ BootInStep'
<1>1. /\ devRequest' = devRequest /\ devStage' = devStage /\ devStage = "data"
      /\ UNCHANGED <<pc, configured, attachment, boot, fresh>>
  BY AtData DEF ReceiveReply, RepeatedReply, Acknowledge0, vars, hostVars, devVars
<1>2. CASE ReceiveReply(arrives)
  <2>1. request \in WithData /\ request' = request /\ running' = running
    BY <1>2, AtData DEF ReceiveReply, ReadReply
  <2>2. request # "SetConf" /\ request # "SetProto"
    BY <2>1, RequestsWithData
  <2>3. QED
    BY <1>1, <2>1, <2>2 DEF ProbeInStep, BootInStep, Addressed
<1>3. CASE RepeatedReply(arrives)
  BY <1>1, <1>3, FailStep DEF RepeatedReply, HasReply, Control, ProbeInStep, BootInStep, Addressed
<1>4. QED
  BY <1>2, <1>3

LEMMA StatusStep ==
  ASSUME ControlInv, ProbeInStep, BootInStep, NEW arrives \in BOOLEAN, Status(arrives)
  PROVE  ProbeInStep' /\ BootInStep'
<1> USE DEF Status
<1>1. /\ request \in Requests /\ devRequest = request /\ stage = "status" /\ Addressed
      /\ request \notin WithData => devStage \in {"status", "done"}
      /\ devStage = "status" => request \notin WithData
      /\ devStage' = "done" /\ pc' = pc
  BY TypeParts DEF ControlInv, ControlTypeOK, Control, ExchangeInStep, Requests
<1>2. CASE devStage = "status" /\ request = "SetConf"
  <2>1. configured' = TRUE /\ fresh' = FALSE /\ boot' = boot /\ attachment = "claimed"
    BY <1>1, <1>2 DEF Execute, ProbeInStep
  <2>2. ~running
    BY <1>2 DEF ProbeInStep, AfterProbe
  <2>3. attachment' = attachment
    BY <1>2 DEF Succeed
  <2>4. ~running' /\ request' \in {"SetProto", "SetConf", "none"} /\ stage' \in {"setup", "status"}
        /\ (request' = "SetConf" => stage' = "status") /\ (request' = "SetProto" => stage' = "setup")
    BY <1>1, <1>2, <2>2 DEF Succeed, Start, AfterSuccess, LaunchAgainOrFail, Fail, AfterError, requestVars
  <2>5. QED
    BY <1>1, <2>1, <2>3, <2>4 DEF ProbeInStep, BootInStep, Addressed, AfterConf, AfterProbe
<1>3. CASE devStage = "status" /\ request = "SetProto"
  <2>1. boot' = TRUE /\ configured' = configured /\ configured /\ attachment = "claimed" /\ ~fresh
    BY <1>1, <1>3 DEF Execute, devVars, ProbeInStep, BootInStep, AfterConf
  <2>2. attachment' = attachment /\ ~fresh'
    BY <1>3, <2>1 DEF Succeed
  <2>3. request' \in {"SetProto", "GetIdle", "none"} /\ (stage' = "setup" \/ request' = "SetProto")
        /\ (running' => request' = "GetIdle")
    BY <1>1, <1>3 DEF Succeed, Start, AfterSuccess, LaunchAgainOrFail, Fail, AfterError, requestVars,
                      ProbeInStep, AfterProbe
  <2>4. QED
    BY <1>1, <2>1, <2>2, <2>3 DEF ProbeInStep, BootInStep, Addressed, AfterConf, AfterProbe
<1>4. CASE devStage # "status"
  <2>1. boot' = boot /\ configured' = configured
    BY <1>4 DEF Execute, devVars
  <2>2. CASE ~arrives
    <3>1. attachment' = attachment /\ LaunchAgainOrFail
      BY <2>2
    <3>2. fresh' <=> fresh
      BY <2>1, <2>2, Zenon DEF ProbeInStep
    <3>3. CASE Fail
      BY <1>1, <2>1, <3>1, <3>2, <3>3, FailStep DEF Control, ProbeInStep, BootInStep, Addressed
    <3>4. CASE UNCHANGED <<requestVars, running>>
      <4>1. request \in {"SetConf", "SetProto"} => devStage = "done"
        BY <1>1, <1>4, RequestsWithData
      <4>2. UNCHANGED <<request, stage, running, attachment>>
        BY <3>1, <3>4 DEF requestVars
      <4>3. QED
        BY <1>1, <2>1, <3>2, <4>1, <4>2 DEF ProbeInStep, BootInStep, Addressed
    <3>5. QED
      BY <3>1, <3>3, <3>4 DEF LaunchAgainOrFail
  <2>3. CASE arrives /\ request = "KeyboardConf"
    <3>1. ~running' /\ request' = "SetConf" /\ stage' = "setup" /\ attachment' = "claimed" /\ fresh' = TRUE
      BY <2>3 DEF Succeed, Start, AfterSuccess, Claim, ProbeInStep, AfterProbe
    <3>2. ~configured
      <4>1. attachment # "claimed"
        BY <1>1, <2>3 DEF ProbeInStep, AfterConf
      <4>2. QED
        BY <4>1 DEF ProbeInStep
    <3>3. QED
      BY <1>1, <2>1, <3>1, <3>2 DEF ProbeInStep, BootInStep, Addressed, AfterConf, AfterProbe, Control
  <2>4. CASE arrives /\ request # "KeyboardConf"
    <3>1. /\ attachment' = attachment /\ stage' = "setup" /\ request' = AfterSuccess[request]
          /\ running' = (running \/ request = "SetProto")
      BY <2>4 DEF Succeed, Start
    <3>2. fresh' <=> fresh
      BY <2>1, <2>4, Zenon DEF ProbeInStep
    <3>3. CASE request = "SetConf"
      <4>1. configured /\ ~fresh /\ attachment = "claimed" /\ ~running
        BY <1>1, <1>4, <3>3, RequestsWithData DEF ProbeInStep, AfterProbe
      <4>2. request' = "SetProto" /\ (running' <=> running)
        BY <3>1, <3>3, Zenon DEF AfterSuccess
      <4>3. QED
        BY <1>1, <2>1, <3>1, <3>2, <4>1, <4>2
           DEF ProbeInStep, BootInStep, Addressed, AfterConf, AfterProbe
    <3>4. CASE request = "SetProto"
      <4>1. boot /\ ~fresh /\ attachment = "claimed" /\ configured
        BY <1>1, <1>4, <3>4, RequestsWithData DEF ProbeInStep, BootInStep, AfterConf
      <4>2. request' = "GetIdle"
        BY <3>1, <3>4 DEF AfterSuccess
      <4>3. QED
        BY <1>1, <2>1, <3>1, <3>2, <4>1, <4>2
           DEF ProbeInStep, BootInStep, Addressed, AfterConf, AfterProbe
    <3>5. CASE request \notin {"SetConf", "SetProto"}
      <4>1. running' <=> running
        BY <3>1, <3>5, Zenon
      <4>2. /\ request' # "SetConf" /\ request' # "SetProto"
            /\ request' \in AfterConf => request \in AfterConf
            /\ request' \in AfterProbe => request \in AfterProbe
            /\ request' # "none" => (request' \in AfterConf <=> request \in AfterConf)
            /\ request \in AfterProbe => request' \in AfterProbe \union {"none"}
        BY <1>1, <2>4, <3>1, <3>5, RequestsWithData DEF AfterConf, AfterProbe, AfterSuccess, Requests
      <4>3. running => request' \in AfterProbe \union {"none"}
        BY <1>1, <4>2 DEF ProbeInStep, Control
      <4>4. QED
        BY <1>1, <2>1, <3>1, <3>2, <3>5, <4>1, <4>2, <4>3
           DEF Control, ProbeInStep, BootInStep, Addressed
    <3>6. QED
      BY <3>3, <3>4, <3>5
  <2>5. QED
    BY <2>2, <2>3, <2>4
<1>5. QED
  BY <1>1, <1>2, <1>3, <1>4, RequestsWithData DEF Requests

LEMMA NextStep ==
  ASSUME ControlInv, ProbeInStep, BootInStep, [NextAll]_allVars PROVE ProbeInStep' /\ BootInStep'
<1>1. CASE UNCHANGED allVars
  BY <1>1 DEF allVars, vars, hostVars, devVars, controlVars, requestVars, device0Vars, ProbeInStep,
              BootInStep, Addressed
<1>2. CASE NextAll
  BY <1>2, ProbeInStepStep, PollingStep, AttachmentStep, NoAnswerStep, SetupStep, ReplyStep, StatusStep
     DEF NextAll, ControlBus
<1>3. QED
  BY <1>1, <1>2

\* The probe keeps in step with the keyboard it configures.
THEOREM ProbeCorrect == SpecAll => []IInvAll
<1>1. InitAll => ProbeInStep /\ BootInStep
  BY InitProbe
<1>2. ControlInv /\ ProbeInStep /\ BootInStep /\ [NextAll]_allVars => ProbeInStep' /\ BootInStep'
  BY NextStep
<1>3. IInvAll <=> ControlInv /\ ProbeInStep /\ BootInStep
  BY DEF IInvAll
<1>4. QED
  BY <1>1, <1>2, <1>3, ControlCorrect, PTL DEF SpecAll

\* The keyboard a running host polls is configured and in the boot protocol,
\* although each request of the probe may be lost, repeated or refused.
THEOREM BootCorrect == SpecAll => []RunningMeansBoot
<1>1. IInvAll => RunningMeansBoot
  BY DEF IInvAll, BootInStep, RunningMeansBoot
<1>2. QED
  BY <1>1, ProbeCorrect, PTL

(***************************************************************************)
(* The host starts to poll in one step only: when the keyboard that it has *)
(* claimed and configured, and no other that took its place meanwhile, has *)
(* answered the request for the boot protocol.  (RunningMeansBoot alone    *)
(* would allow it to start with no device attached.)                       *)
(***************************************************************************)
StartsOnAnswer ==
  [][~running /\ running' => /\ request = "SetProto" /\ devRequest = "SetProto"
                            /\ attachment = "claimed" /\ attachment' = "claimed"
                            /\ configured' /\ boot']_allVars

LEMMA OnlyStatusStarts ==
  ASSUME NextAll, ~running, running'
  PROVE  \E arrives \in BOOLEAN : Status(arrives)
<1>1. CASE Probe
  BY <1>1 DEF Probe
<1>2. CASE Polling \/ Attach \/ Detach
  BY <1>2, Zenon DEF Polling, Attach, Detach, controlVars
<1>3. CASE NoAnswer
  BY <1>3, Zenon DEF NoAnswer, LaunchAgainOrFail, Fail
<1>4. ASSUME NEW arrives \in BOOLEAN, Setup(arrives) PROVE FALSE
  BY <1>4, Zenon DEF Setup, LaunchAgainOrFail, Fail, DataStage
<1>5. ASSUME NEW arrives \in BOOLEAN, ReceiveReply(arrives) \/ RepeatedReply(arrives) PROVE FALSE
  BY <1>5, Zenon DEF ReceiveReply, RepeatedReply, ReadReply, Fail
<1>6. QED
  BY <1>1, <1>2, <1>3, <1>4, <1>5, Zenon DEF NextAll, ControlBus

LEMMA StartStep ==
  ASSUME IInvAll, NextAll, ~running, running'
  PROVE  /\ request = "SetProto" /\ devRequest = "SetProto"
         /\ attachment = "claimed" /\ attachment' = "claimed"
         /\ configured' /\ boot'
<1>1. PICK arrives \in BOOLEAN : Status(arrives)
  BY OnlyStatusStarts, Zenon
<1>2. arrives /\ Succeed /\ request = "SetProto" /\ Addressed /\ Control /\ stage = "status"
  BY <1>1, Zenon DEF Status, LaunchAgainOrFail, Fail, Succeed
<1>3. attachment' = attachment /\ attachment = "claimed"
  BY <1>2 DEF Succeed, IInvAll, ProbeInStep, AfterConf
<1>4. devRequest = "SetProto"
  BY <1>2 DEF IInvAll, ControlInv, ExchangeInStep, Control
<1>5. ProbeInStep' /\ BootInStep'
  BY NextStep, Zenon DEF IInvAll
<1>6. configured' /\ boot'
  BY <1>3, <1>5 DEF BootInStep
<1>7. QED
  BY <1>2, <1>3, <1>4, <1>6

\* Only the claimed keyboard's answer to SET_PROTOCOL starts the polling, although
\* each packet of the probe may be lost or repeated and the keyboard replaced.
THEOREM StartCorrect == SpecAll => StartsOnAnswer
<1>1. IInvAll /\ [NextAll]_allVars
        => [~running /\ running' => /\ request = "SetProto" /\ devRequest = "SetProto"
                                   /\ attachment = "claimed" /\ attachment' = "claimed"
                                   /\ configured' /\ boot']_allVars
  BY StartStep, Zenon
<1>2. QED
  BY <1>1, ProbeCorrect, PTL DEF SpecAll, StartsOnAnswer

-----------------------------------------------------------------------------
(***************************************************************************)
(* The refinement: which step of InTransfer each step is.                  *)
(***************************************************************************)
LEMMA InitRefines == InitAll => IT!Init
BY DEF InitAll, IT!Init, IT!DATA0, DATA0, IT!RD!Report, RD!Report

\* What a polling step sees: a keyboard that has been configured, or none.
LEMMA PollingRefines == ASSUME IInvAll, Polling PROVE [IT!Next]_(IT!vars)
<1> USE DEF Polling, controlVars
<1>1. CASE PollRunning
  <2>1. ~fresh
    BY <1>1 DEF PollRunning, IInvAll, ProbeInStep
  <2>2. QED
    BY <1>1, <2>1 DEF PollRunning, Poll, IT!Poll, devVars, IT!devVars, IT!Next, IT!Host
<1>2. CASE ReadPacket
  <2>1. ~fresh
    BY <1>2 DEF ReadPacket, IInvAll, ProbeInStep
  <2>2. QED
    BY <1>2, <2>1 DEF ReadPacket, Finish, IT!ReadPacket, IT!Finish, devVars, IT!devVars, IT!Next, IT!Host
<1>3. CASE Nak
  <2>1. configured /\ ~fresh /\ attachment = "claimed"
    BY <1>3 DEF Nak, IInvAll, ProbeInStep
  <2>2. QED
    BY <1>3, <2>1 DEF Nak, RelaunchOrReturn, IT!Nak, IT!RelaunchOrReturn, devVars, IT!devVars, IT!Next, IT!Bus
<1>4. CASE PacketLost
  BY <1>4 DEF PacketLost, RelaunchOrReturn, IT!PacketLost, IT!RelaunchOrReturn, devVars, IT!devVars,
              IT!Next, IT!Bus, IInvAll, ProbeInStep
<1>5. ASSUME NEW arrives \in BOOLEAN, Receive(arrives) PROVE IT!Next
  <2>1. configured /\ ~fresh /\ attachment = "claimed"
    BY <1>5 DEF Receive, HasPacket, IInvAll, ProbeInStep
  <2>2. IT!Receive(arrives)
    BY <1>5, <2>1 DEF Receive, HasPacket, Acknowledge, Flip, IT!Receive, IT!HasPacket, IT!Acknowledge, IT!Flip
  <2>3. QED
    BY <2>2 DEF IT!Next, IT!Bus
<1>6. ASSUME NEW arrives \in BOOLEAN, ToggleError(arrives) PROVE IT!Next
  <2>1. configured /\ ~fresh /\ attachment = "claimed"
    BY <1>6 DEF ToggleError, HasPacket, IInvAll, ProbeInStep
  <2>2. IT!ToggleError(arrives)
    BY <1>6, <2>1 DEF ToggleError, ReturnError, HasPacket, Acknowledge, Flip,
                      IT!ToggleError, IT!ReturnError, IT!HasPacket, IT!Acknowledge, IT!Flip
  <2>3. QED
    BY <2>2 DEF IT!Next, IT!Bus
<1>7. CASE ProduceReport
  <2>1. configured /\ ~fresh /\ attachment = "claimed"
    BY <1>7 DEF ProduceReport, IInvAll, ProbeInStep
  <2>2. QED
    BY <1>7, <2>1 DEF ProduceReport, IT!ProduceReport, hostVars, IT!hostVars, IT!Next
<1>8. QED
  BY <1>1, <1>2, <1>3, <1>4, <1>5, <1>6, <1>7 DEF Bus

\* A step that leaves the state of polling alone, but for the toggle of the
\* chip while main is not polling.
LEMMA ChipRefines ==
  ASSUME IInvAll, pc = "main",
         UNCHANGED <<pc, rcvToggle, RCVFIFO, data, report, devToggle, acked, produced, fresh>>,
         attachment' = "claimed" <=> attachment = "claimed",
         chipToggle' \in {DATA0, DATA1}
  PROVE  [IT!Next]_(IT!vars)
<1>1. IT!OtherTransfer
  BY DEF IT!OtherTransfer, IT!devVars, IT!DATA0, IT!DATA1, DATA0, DATA1
<1>2. QED
  BY <1>1 DEF IT!Next

LEMMA AttachmentRefines == ASSUME IInvAll, Detach \/ Attach \/ Probe PROVE [IT!Next]_(IT!vars)
<1> USE DEF vars, hostVars, devVars, IT!vars, IT!hostVars, IT!devVars
<1>1. CASE Detach /\ attachment = "claimed"
  <2>1. IT!Unplug
    BY <1>1 DEF Detach, IT!Unplug
  <2>2. QED
    BY <2>1 DEF IT!Next
<1>2. CASE Detach /\ attachment # "claimed"
  BY <1>2 DEF Detach
<1>3. CASE Attach
  BY <1>3 DEF Attach
<1>4. CASE Probe
  BY <1>4 DEF Probe
<1>5. QED
  BY <1>1, <1>2, <1>3, <1>4

LEMMA StatusRefines ==
  ASSUME IInvAll, NEW arrives \in BOOLEAN, Status(arrives) PROVE [IT!Next]_(IT!vars)
<1> USE DEF Status, IT!vars, IT!hostVars, IT!devVars
<1>1. /\ request \in Requests /\ devRequest = request /\ stage = "status" /\ Addressed /\ pc = "main"
      /\ devStage = "status" => request \notin WithData
      /\ request # "none"
  BY TypeParts DEF IInvAll, ControlInv, ControlTypeOK, Control, ExchangeInStep, Requests
<1>2. CASE arrives /\ request = "KeyboardConf"
  <2>1. attachment' = "claimed" /\ fresh' = TRUE /\ rcvToggle' = DATA0
    BY <1>2 DEF Succeed, Claim
  <2>2. IT!Configure
    BY <1>1, <2>1 DEF IT!Configure, IT!DATA0, DATA0, IT!RD!Report, RD!Report
  <2>3. QED
    BY <2>2 DEF IT!Next
<1>3. CASE ~(arrives /\ request = "KeyboardConf")
  <2>1. attachment' = attachment /\ rcvToggle' = rcvToggle
    BY <1>3 DEF Succeed
  <2>2. CASE devStage = "status" /\ request = "SetConf"
    <3>1. /\ fresh /\ attachment = "claimed" /\ ~fresh'
          /\ devToggle' = DATA0 /\ acked' = 0 /\ produced' = 0 /\ report' = RD!Report(0)
      BY <1>1, <1>3, <2>2 DEF Execute, IInvAll, ProbeInStep
    <3>2. QED
      BY <2>1, <3>1
  <2>3. CASE ~(devStage = "status" /\ request = "SetConf")
    <3>1. UNCHANGED <<configured, devToggle, acked, produced, report>>
      BY <1>1, <2>3 DEF Execute, devVars
    <3>2. fresh' <=> fresh
      BY <1>3, <3>1, Zenon DEF IInvAll, ProbeInStep
    <3>3. QED
      BY <2>1, <3>1, <3>2
  <2>4. QED
    BY <2>2, <2>3
<1>4. QED
  BY <1>2, <1>3

LEMMA ControlRefines == ASSUME IInvAll, ControlBus PROVE [IT!Next]_(IT!vars)
<1> USE DEF vars, hostVars, devVars
<1>1. chipToggle \in {DATA0, DATA1} /\ dev0Toggle \in {DATA0, DATA1}
  BY TypeParts DEF IInvAll, ControlInv, TypeOK, ControlTypeOK
<1>2. CASE NoAnswer
  BY <1>1, <1>2, ChipRefines DEF NoAnswer, Control
<1>3. ASSUME NEW arrives \in BOOLEAN, Setup(arrives) PROVE [IT!Next]_(IT!vars)
  <2>1. chipToggle' \in {DATA0, DATA1}
    BY <1>1, <1>3 DEF Setup, DataStage
  <2>2. QED
    BY <1>3, <2>1, ChipRefines DEF Setup, Control
<1>4. ASSUME NEW arrives \in BOOLEAN, ReceiveReply(arrives) PROVE [IT!Next]_(IT!vars)
  <2>1. chipToggle' \in {DATA0, DATA1}
    BY <1>1, <1>4 DEF ReceiveReply, Flip, DATA0, DATA1
  <2>2. QED
    BY <1>4, <2>1, ChipRefines DEF ReceiveReply, HasReply, Control
<1>5. ASSUME NEW arrives \in BOOLEAN, RepeatedReply(arrives) PROVE [IT!Next]_(IT!vars)
  BY <1>1, <1>5, ChipRefines DEF RepeatedReply, HasReply, Control
<1>6. QED
  BY <1>2, <1>3, <1>4, <1>5, StatusRefines DEF ControlBus

LEMMA NextRefines == ASSUME IInvAll, [NextAll]_allVars PROVE [IT!Next]_(IT!vars)
<1>1. CASE UNCHANGED allVars
  BY <1>1 DEF allVars, vars, hostVars, devVars, controlVars, IT!vars, IT!hostVars, IT!devVars
<1>2. CASE NextAll
  BY <1>2, AttachmentRefines, PollingRefines, ControlRefines DEF NextAll
<1>3. QED
  BY <1>1, <1>2

\* The control transfers, which share the toggle of the chip with polling and
\* configure the keyboard in several steps that may be lost, never disturb it:
\* with them polling is still that of InTransfer.
THEOREM PollingCorrect == SpecAll => ImplementsPolling
<1>1. InitAll => IT!Init
  BY InitRefines
<1>2. IInvAll /\ [NextAll]_allVars => [IT!Next]_(IT!vars)
  BY NextRefines
<1>3. QED
  BY <1>1, <1>2, ProbeCorrect, PTL DEF SpecAll, ImplementsPolling
=============================================================================
