----------------------------- MODULE Transfers ------------------------------
(***************************************************************************)
(* The control transfers of transfer.c (XferCtrlReq, XferCtrlData,         *)
(* XferCtrlND) as the class probes of HID.c and GetDriverandReport of      *)
(* main.c make them, and the polling of InTransfer beside them.  They      *)
(* share the chip with its one data toggle, the bus that loses packets and *)
(* acknowledgements, and the keyboard, which may be pulled and attached    *)
(* again at any moment.                                                    *)
(*                                                                         *)
(* As in InTransfer a step on the bus is one launch of XferDispatchPkt     *)
(* with what the host makes of its result; a loss is answered with another *)
(* launch, or the dispatch gives up and the request fails.  A STALL is     *)
(* such a failure.  A reply is the sequence of its packets.                *)
(***************************************************************************)
EXTENDS InTransfer

CONSTANT ConfPackets    \* packets of the configuration descriptor

ASSUME ConfPacketsAssumption == ConfPackets \in Nat \ {0}

VARIABLES
  request,      \* the request under way, or "none"
  stage,        \* "setup", "in" or "status"
  reply,        \* packets of the data stage read so far
  running,      \* USB_STATE_RUNNING: the class probe has returned TRUE
  attachment,   \* keyboard: "absent", "attached", "probed" or "claimed"
  devRequest,   \* keyboard: the request it has taken last
  devStage,     \* keyboard: "idle", "data", "status" or "done"
  sent,         \* keyboard: packets of the reply it holds for acknowledged
  dev0Toggle,   \* keyboard: toggle of the next packet of endpoint 0
  boot,         \* keyboard: SET_PROTOCOL has put it in the boot protocol
  fresh         \* observer: HID_init has been called, but the keyboard that
                \* it was called for has not been configured

requestVars == <<request, stage, reply>>
device0Vars == <<devRequest, devStage, sent, dev0Toggle>>
controlVars == <<requestVars, device0Vars, running, attachment, boot, fresh>>
allVars == <<vars, controlVars>>

-----------------------------------------------------------------------------
(***************************************************************************)
(* The requests: HIDMProbe and HIDKProbe each read the head of the         *)
(* configuration (9 bytes, two packets of 8) and then the whole of it; a   *)
(* keyboard is configured, put in the boot protocol and asked for its idle *)
(* rate and its protocol.                                                  *)
(***************************************************************************)
Packets0 == [MouseHead |-> 2, MouseConf |-> ConfPackets,
             KeyboardHead |-> 2, KeyboardConf |-> ConfPackets,
             GetIdle |-> 1, GetProto |-> 1]
WithData == DOMAIN Packets0
Requests == WithData \union {"SetConf", "SetProto"}

AfterSuccess == [MouseHead |-> "MouseConf", MouseConf |-> "KeyboardHead",
                 KeyboardHead |-> "KeyboardConf", KeyboardConf |-> "SetConf",
                 SetConf |-> "SetProto", SetProto |-> "GetIdle",
                 GetIdle |-> "GetProto", GetProto |-> "none"]

\* Fault: an error of SET_PROTOCOL is reported like one of GetIdle.
AfterErrorLenient == [MouseHead |-> "KeyboardHead", MouseConf |-> "KeyboardHead",
                      KeyboardHead |-> "none", KeyboardConf |-> "none",
                      SetConf |-> "SetProto", SetProto |-> "none",
                      GetIdle |-> "GetProto", GetProto |-> "none"]

\* An error of the mouse probe leads to the keyboard probe, one of that to the
\* error state; the results of GetIdle and GetProto are only printed.
AfterError == [MouseHead |-> "KeyboardHead", MouseConf |-> "KeyboardHead",
               KeyboardHead |-> "none", KeyboardConf |-> "none",
               SetConf |-> "none", SetProto |-> "none",
               GetIdle |-> "GetProto", GetProto |-> "none"]

Start(next) == request' = next /\ stage' = "setup" /\ reply' = <<>>

-----------------------------------------------------------------------------
(***************************************************************************)
(* The host between the stages.                                            *)
(***************************************************************************)
\* A device with a new address is given to the class probes.
Probe ==
  /\ pc = "main" /\ request = "none"
  /\ attachment = "attached"
  /\ attachment' = "probed"
  /\ running' = FALSE
  /\ Start("MouseHead")
  /\ UNCHANGED <<vars, device0Vars, boot, fresh>>

\* Fault: HID_init is called by the mouse probe only.
ClaimWithoutInit ==
  /\ attachment' = "claimed"
  /\ UNCHANGED rcvToggle

\* The interface is that of a keyboard: HID_init resets the toggle.
Claim ==
  /\ attachment' = "claimed"
  /\ rcvToggle' = DATA0

\* The request has returned 0.
Succeed ==
  /\ Start(AfterSuccess[request])
  /\ running' = (running \/ request = "SetProto")
  /\ \/ request = "KeyboardConf" /\ Claim
     \/ request # "KeyboardConf" /\ UNCHANGED <<attachment, rcvToggle>>

\* The request has returned an error.
Fail ==
  /\ Start(AfterError[request])
  /\ UNCHANGED running

LaunchAgainOrFail == Fail \/ UNCHANGED <<requestVars, running>>

Control == pc = "main" /\ request # "none"
Addressed == attachment \in {"probed", "claimed"}

-----------------------------------------------------------------------------
(***************************************************************************)
(* The stages on the bus.                                                  *)
(***************************************************************************)
\* The token or a packet is lost, or nobody answers, or the keyboard refuses.
NoAnswer ==
  /\ Control
  /\ LaunchAgainOrFail
  /\ UNCHANGED <<vars, device0Vars, attachment, boot, fresh>>

\* XferCtrlData writes the toggle to the record of endpoint 0, from where
\* XferInTransfer takes it to the chip.
DataStage == stage' = "in" /\ chipToggle' = DATA1 /\ UNCHANGED <<request, reply>>

\* The keyboard takes the SETUP packet, whatever it was busy with.
Setup(acknowledged) ==
  /\ Control /\ stage = "setup" /\ Addressed
  /\ devRequest' = request /\ sent' = 0 /\ dev0Toggle' = DATA1
  /\ devStage' = IF request \in WithData THEN "data" ELSE "status"
  /\ IF acknowledged
     THEN \/ request \in WithData /\ DataStage /\ UNCHANGED running
          \/ /\ request \notin WithData
             /\ stage' = "status"
             /\ UNCHANGED <<request, reply, chipToggle, running>>
     ELSE LaunchAgainOrFail /\ UNCHANGED chipToggle
  /\ UNCHANGED <<pc, rcvToggle, RCVFIFO, data, report, devVars, attachment, boot, fresh>>

\* The host's ACK of a packet of the reply arrives, or it will be repeated.
Acknowledge0(arrives) ==
  /\ IF arrives
     THEN sent' = sent + 1 /\ dev0Toggle' = Flip(dev0Toggle)
     ELSE UNCHANGED <<sent, dev0Toggle>>
  /\ UNCHANGED <<devRequest, devStage>>

\* The packet is appended; the last one leads to the status stage.
ReadReply ==
  /\ reply' = Append(reply, <<devRequest, sent + 1>>)
  /\ stage' = IF Len(reply') = Packets0[request] THEN "status" ELSE "in"
  /\ UNCHANGED <<request, running>>

HasReply ==
  /\ Control /\ stage = "in" /\ Addressed
  /\ devStage = "data" /\ sent < Packets0[devRequest]

ReceiveReply(arrives) ==
  /\ HasReply
  /\ dev0Toggle = chipToggle
  /\ chipToggle' = Flip(chipToggle)
  /\ ReadReply
  /\ Acknowledge0(arrives)
  /\ UNCHANGED <<pc, rcvToggle, RCVFIFO, data, report, devVars, attachment, boot, fresh>>

\* Fault: the packet is read although the toggle was wrong.
RepeatedReplyRead(arrives) ==
  /\ HasReply
  /\ dev0Toggle # chipToggle
  /\ ReadReply
  /\ Acknowledge0(arrives)
  /\ UNCHANGED <<vars, attachment, boot, fresh>>

\* The chip drops a repeated packet; XferInTransfer returns an error.
RepeatedReply(arrives) ==
  /\ HasReply
  /\ dev0Toggle # chipToggle
  /\ Fail
  /\ Acknowledge0(arrives)
  /\ UNCHANGED <<vars, attachment, boot, fresh>>

\* What the keyboard does when it has taken the status stage, once.
Execute ==
  \/ /\ devStage = "status" /\ devRequest = "SetConf"
     /\ configured' = TRUE /\ devToggle' = DATA0
     /\ acked' = 0 /\ produced' = 0 /\ report' = RD!Report(0)
     /\ UNCHANGED boot
  \/ /\ devStage = "status" /\ devRequest = "SetProto"
     /\ boot' = TRUE
     /\ UNCHANGED <<devVars, report>>
  \/ /\ devStage # "status"
     /\ UNCHANGED <<devVars, report, boot>>

\* The handshake of the keyboard (or its empty packet, for a request without
\* data) arrives, or the launch is repeated.  HID_init makes the keyboard a
\* fresh one, its SET_CONFIGURATION ends that.
Status(arrives) ==
  /\ Control /\ stage = "status" /\ Addressed
  /\ Execute
  /\ devStage' = "done"
  /\ IF arrives THEN Succeed
     ELSE LaunchAgainOrFail /\ UNCHANGED <<attachment, rcvToggle>>
  /\ fresh' = ((arrives /\ request = "KeyboardConf") \/ (fresh /\ ~configured'))
  /\ UNCHANGED <<pc, chipToggle, RCVFIFO, data, devRequest, sent, dev0Toggle>>

-----------------------------------------------------------------------------
Detach ==
  /\ attachment # "absent"
  /\ attachment' = "absent"
  /\ configured' = FALSE /\ boot' = FALSE /\ devStage' = "idle"
  /\ UNCHANGED <<hostVars, devToggle, acked, produced, requestVars, running,
                 devRequest, sent, dev0Toggle, fresh>>

Attach ==
  /\ attachment = "absent"
  /\ attachment' = "attached"
  /\ UNCHANGED <<vars, requestVars, running, device0Vars, boot, fresh>>

\* Polling as in InTransfer, which main does while a keyboard runs.
PollRunning == running /\ request = "none" /\ Poll

Polling == (PollRunning \/ ReadPacket \/ Bus \/ ProduceReport) /\ UNCHANGED controlVars

ControlBus ==
  \/ NoAnswer
  \/ \E arrives \in BOOLEAN :
       Setup(arrives) \/ ReceiveReply(arrives) \/ RepeatedReply(arrives) \/ Status(arrives)

\* A device with a new address is attached, and nothing has been asked of it.
InitAll ==
  /\ pc = "main" /\ rcvToggle = DATA0 /\ chipToggle = DATA0
  /\ RCVFIFO = 0 /\ data = <<>> /\ report = RD!Report(0)
  /\ configured = FALSE /\ devToggle = DATA0 /\ acked = 0 /\ produced = 0
  /\ request = "none" /\ stage = "setup" /\ reply = <<>>
  /\ running = FALSE /\ attachment = "attached"
  /\ devRequest = "none" /\ devStage = "idle" /\ sent = 0 /\ dev0Toggle = DATA0
  /\ boot = FALSE /\ fresh = FALSE

NextAll == Probe \/ Polling \/ ControlBus \/ Detach \/ Attach

SpecAll == InitAll /\ [][NextAll]_allVars

(***************************************************************************)
(* The program runs on, a dispatch ends, and a packet that is sent again   *)
(* and again is at last exchanged without a loss.                          *)
(***************************************************************************)
PolledOnce == (Receive(TRUE) \/ ToggleError(TRUE)) /\ UNCHANGED controlVars
AskedOnce == Setup(TRUE) \/ ReceiveReply(TRUE) \/ RepeatedReply(TRUE) \/ Status(TRUE)

FairSpecAll ==
  /\ SpecAll
  /\ WF_allVars(PollRunning /\ UNCHANGED controlVars)
  /\ WF_allVars((ReadPacket \/ Bus) /\ UNCHANGED controlVars)
  /\ SF_allVars(PolledOnce)
  /\ SF_allVars(AskedOnce)

-----------------------------------------------------------------------------
TypeOKAll ==
  /\ TypeOK
  /\ request \in Requests \union {"none"}
  /\ stage \in {"setup", "in", "status"}
  /\ reply \in Seq(Requests \X Nat)
  /\ running \in BOOLEAN /\ configured \in BOOLEAN /\ boot \in BOOLEAN /\ fresh \in BOOLEAN
  /\ attachment \in {"absent", "attached", "probed", "claimed"}
  /\ devRequest \in Requests \union {"none"}
  /\ devStage \in {"idle", "data", "status", "done"}
  /\ sent \in Nat /\ dev0Toggle \in {DATA0, DATA1}

(***************************************************************************)
(* A request that returns 0 has got the whole reply to this very request,  *)
(* each packet once and in order, whatever was lost and repeated and       *)
(* whatever an earlier request had left behind in the keyboard.            *)
(***************************************************************************)
ReplyIsExact ==
  /\ \A i \in 1 .. Len(reply) : reply[i] = <<request, i>>
  /\ stage = "status" /\ request \in WithData => Len(reply) = Packets0[request]

(***************************************************************************)
(* While the data stage goes on, host and keyboard are at the same packet, *)
(* or one apart with the toggles different; a request without data has no  *)
(* such stage.  A host in the status stage has been through the stages     *)
(* before.                                                                 *)
(***************************************************************************)
Exchanged ==
  \/ sent = Len(reply) /\ dev0Toggle = chipToggle
  \/ sent + 1 = Len(reply) /\ dev0Toggle # chipToggle

ExchangeInStep ==
  /\ request # "none" => pc = "main"
  /\ request = "none" => stage = "setup"
  /\ stage = "setup" => reply = <<>>
  /\ stage = "in" => request \in WithData /\ Len(reply) < Packets0[request]
  /\ stage # "setup" /\ Addressed => devRequest = request /\ devStage # "idle"
  /\ stage = "in" /\ Addressed => devStage = "data" /\ Exchanged
  /\ stage = "status" /\ Addressed =>
       devStage \in IF request \in WithData THEN {"data", "done"} ELSE {"status", "done"}
  /\ devStage = "status" => devRequest \notin WithData
  /\ ~Addressed => devStage = "idle"

ControlInv == TypeOKAll /\ ReplyIsExact /\ ExchangeInStep

(***************************************************************************)
(* How far the probe has come, seen from host and keyboard: the step that  *)
(* InTransfer takes for the configuration is HID_init (fresh), and the     *)
(* host polls only a keyboard that has followed.                           *)
(***************************************************************************)
AfterConf == {"SetProto", "GetIdle", "GetProto"}
AfterProbe == {"GetIdle", "GetProto"}

ProbeInStep ==
  /\ configured => attachment = "claimed" /\ ~fresh
  /\ fresh => ~running /\ pc = "main" /\ request \notin AfterConf
  /\ running => request \in AfterProbe \union {"none"}
  /\ Addressed /\ request # "none" =>
       (attachment = "claimed" <=> request \in {"SetConf"} \union AfterConf)
  /\ request = "SetConf" /\ stage = "setup" => fresh
  /\ devStage = "status" /\ devRequest = "SetConf" => fresh /\ attachment = "claimed"
  /\ request = "SetConf" /\ stage = "status" /\ Addressed /\ devStage = "done" => configured

BootInStep ==
  /\ (running \/ request \in AfterConf) /\ attachment = "claimed" => configured
  /\ (running \/ request \in AfterProbe) /\ attachment = "claimed" => boot
  /\ request = "SetProto" /\ stage = "status" /\ Addressed /\ devStage = "done" => boot

IInvAll == ControlInv /\ ProbeInStep /\ BootInStep

(***************************************************************************)
(* The keyboard that a running host polls is configured and in the boot    *)
(* protocol, the only one whose reports main can read; if it has been      *)
(* replaced, the host has not yet given the new one to its probes.         *)
(***************************************************************************)
RunningMeansBoot == running /\ attachment = "claimed" => configured /\ boot

(***************************************************************************)
(* InTransfer takes the configuration of a keyboard for one step.  Here    *)
(* HID_init resets the toggle of the host before SET_CONFIGURATION resets  *)
(* that of the keyboard, and either may be lost; the step is HID_init, and *)
(* until the keyboard follows it is taken for one that has nothing to say. *)
(***************************************************************************)
IT == INSTANCE InTransfer WITH
        configured <- attachment = "claimed",
        devToggle  <- IF fresh THEN DATA0 ELSE devToggle,
        acked      <- IF fresh THEN 0 ELSE acked,
        produced   <- IF fresh THEN 0 ELSE produced,
        report     <- IF fresh THEN RD!Report(0) ELSE report

(***************************************************************************)
(* The control transfers never disturb polling: with them, and with the    *)
(* toggle of the chip that they share, every step is one of InTransfer,    *)
(* whose theorems then hold.                                               *)
(***************************************************************************)
ImplementsPolling == IT!Init /\ [][IT!Next]_(IT!vars)

\* Of the reports a keyboard produces, each reaches main exactly once and in
\* order, beside the control transfers of its probe and of the next one's.
DeliversReports == IT!ImplementsDelivery

\* Once the probe has returned TRUE, every report reaches main at last, unless
\* the keyboard is pulled.
RunningReportsArrive ==
  running /\ configured /\ Delivered < produced ~> Delivered = produced \/ ~configured
=============================================================================
