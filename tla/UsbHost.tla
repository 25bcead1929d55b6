------------------------------ MODULE UsbHost ------------------------------
(***************************************************************************)
(* The USB host stack of the firmware: the main loop of main.c calls       *)
(* MAX3421E_Task (interrupt polling and bus probing, MAX3421E.c), then     *)
(* USB_Task (the enumeration state machine, transfer.c with the class      *)
(* probes of HID.c), then its own body, which reports a new device, resets *)
(* the controller after a device was lost, and otherwise polls.            *)
(*                                                                         *)
(* The program is a single thread, so pc names the call the loop is about  *)
(* to make.  The USB port and the MAX3421E chip run beside it: a device    *)
(* may be plugged, pulled or swapped between any two steps, the chip ends  *)
(* a bus reset when it likes, the settle timer expires when it likes.      *)
(* A control transfer is abstracted to its result code: it can succeed     *)
(* only when the device that is addressed is there to answer.              *)
(***************************************************************************)
EXTENDS Integers, FiniteSets

CONSTANTS
  USB_NUMDEVICES,   \* addresses 1 .. USB_NUMDEVICES - 1 can be assigned
  MaxPortChanges    \* bound on the number of plugs, unplugs and swaps

ASSUME NumDevicesAssumption == USB_NUMDEVICES \in Nat \ {0, 1}
ASSUME MaxPortChangesAssumption == MaxPortChanges \in Nat

VARIABLES
  pc,                   \* next call of the main loop
  usb_task_state,       \* state code of USB_Task, a BYTE
  usb_error,            \* last error recorded by USB_Task
  last_usb_task_state,  \* state in which it was recorded
  epinfo,               \* devtable[].epinfo, by address
  devclass,             \* devtable[].devclass, by address
  tmp_addr,             \* address being configured (static in USB_Task)
  hid_addr,             \* hid_device.addr, the address that is polled
  usb_delay,            \* settle timer (static in USB_Task)
  runningdebugflag,     \* main: the running device has been reported
  errorflag,            \* main: the error has been reported
  device,               \* main: class of the reported device
  led9,                 \* LED 9, lit while a device is running
  rHIRQ,                \* MAX3421E: interrupt bits that are set in HIRQ
  HIRQ,                 \* the copy of HIRQ that MaxIntHandler took
  busrst,               \* MAX3421E: HCTL.BUSRST, a bus reset is under way
  lowspeed,             \* MAX3421E: MODE.LOWSPEED
  portKind, portLow,    \* what is in the port, and is it a low speed device
  daddr,                \* address the device answers to, -1 before a reset
  portChanges           \* number of port changes so far

hostVars  == <<usb_task_state, usb_error, last_usb_task_state, tmp_addr, usb_delay>>
tableVars == <<epinfo, devclass, hid_addr>>
mainVars  == <<runningdebugflag, errorflag, device, led9>>
chipVars  == <<rHIRQ, HIRQ, busrst, lowspeed>>
portVars  == <<portKind, portLow, daddr, portChanges>>
vars == <<pc, hostVars, tableVars, mainVars, chipVars, portVars>>

-----------------------------------------------------------------------------
(***************************************************************************)
(* State codes.  MaxIntHandler increments the code, so they are numbers.   *)
(***************************************************************************)
DETACHED_INITIALIZE      == 1
DETACHED_WAIT_FOR_DEVICE == 3
DETACHED_ILLEGAL         == 4
ATTACHED                 == 16
SETTLE                   == 17
RESET_DEVICE             == 18
WAIT_RESET_COMPLETE      == 19
WAIT_SOF                 == 20
GET_DEVICE_DESCRIPTOR    == 21
ADDRESSING               == 32
CONFIGURING              == 48
RUNNING                  == 64
ERROR                    == 255

Masked(s) == s - (s % 16)          \* s & USB_STATE_MASK
Detached(s) == Masked(s) = 0

Byte == 0 .. 255
Addresses == 0 .. USB_NUMDEVICES           \* indices of devtable
Assignable == 1 .. USB_NUMDEVICES - 1      \* addresses USB_Task gives out

HID_K == 1
HID_M == 2
DEV_NONE == 255                            \* GetDriverandReport found no device

NO_ERROR == 0
XFER_ERROR == 1        \* any nonzero result code of a transfer
NO_ADDRESS == 254      \* fe - no address available
NO_DRIVER == 253       \* fd - no client driver available

Irqs == {"CONDETIRQ", "BUSEVENTIRQ", "FRAMEIRQ"}

Devices == {"keyboard", "mouse", "other"}
PortKinds == Devices \cup {"none", "se1"}
ClassOf(k) == CASE k = "keyboard" -> HID_K [] k = "mouse" -> HID_M [] OTHER -> 0

-----------------------------------------------------------------------------
(***************************************************************************)
(* The chip's view of the bus.  J is the idle level of a device of the     *)
(* speed the chip is set to, K that of the other speed.  While the host    *)
(* drives a bus reset the sample may also read as SE0.                     *)
(***************************************************************************)
LineState(ls) ==
  CASE portKind = "none" -> "SE0"
    [] portKind = "se1"  -> "SE1"
    [] OTHER             -> IF portLow = ls THEN "J" ELSE "K"

BusSamples(ls, inReset) == {LineState(ls)} \cup (IF inReset THEN {"SE0"} ELSE {})

\* A transfer to address a can be answered.
Responds(a) ==
  /\ portKind \in Devices
  /\ portLow = lowspeed
  /\ ~busrst
  /\ daddr = a

\* Result codes a transfer to address a may end with: noise can fail any.
ResultCodes(a) == IF Responds(a) THEN {0, XFER_ERROR} ELSE {XFER_ERROR}

USB_init ==
  /\ epinfo' = [a \in Addresses |-> IF a = 0 THEN "dev0ep" ELSE "NULL"]
  /\ devclass' = [a \in Addresses |-> 0]

\* Fault: the bus is probed afresh while a bus reset is waited for.
ProbeDuringReset(s, ls) ==
  \/ /\ s \in {"J", "K"}
     /\ lowspeed' = (IF s = "J" THEN ls ELSE ~ls)
     /\ usb_task_state' = ATTACHED
  \/ /\ s \in {"SE0", "SE1"}
     /\ lowspeed' = ls
     /\ usb_task_state' = IF s = "SE1" THEN DETACHED_ILLEGAL
                          ELSE IF Detached(usb_task_state) THEN DETACHED_WAIT_FOR_DEVICE
                          ELSE DETACHED_INITIALIZE

\* Bus sample s was read while MODE.LOWSPEED was ls.
MAX_busprobe(s, ls) ==
  \/ /\ s \in {"J", "K"}
     /\ usb_task_state # WAIT_RESET_COMPLETE
     /\ lowspeed' = (IF s = "J" THEN ls ELSE ~ls)
     /\ usb_task_state' = ATTACHED
  \/ /\ s \in {"J", "K"}
     /\ usb_task_state = WAIT_RESET_COMPLETE
     /\ lowspeed' = ls
     /\ UNCHANGED usb_task_state
  \/ /\ s = "SE1"
     /\ lowspeed' = ls
     /\ usb_task_state' = DETACHED_ILLEGAL
  \/ /\ s = "SE0"
     /\ ~Detached(usb_task_state)
     /\ lowspeed' = ls
     /\ usb_task_state' = DETACHED_INITIALIZE
  \/ /\ s = "SE0"
     /\ Detached(usb_task_state)
     /\ lowspeed' = FALSE
     /\ usb_task_state' = DETACHED_WAIT_FOR_DEVICE

-----------------------------------------------------------------------------
(***************************************************************************)
(* MAX3421E_Task.  Only CONDETIE is enabled, so the interrupt pin is low   *)
(* exactly while CONDETIRQ is set.  The handler reads HIRQ and samples the *)
(* bus, and only then acknowledges: the chip may raise bits in between.    *)
(***************************************************************************)
NoInterrupt ==
  /\ pc = "max"
  /\ "CONDETIRQ" \notin rHIRQ
  /\ pc' = "task"
  /\ UNCHANGED <<hostVars, tableVars, mainVars, chipVars, portVars>>

MaxIntProbe ==
  /\ pc = "max"
  /\ "CONDETIRQ" \in rHIRQ
  /\ HIRQ' = rHIRQ
  /\ \E s \in BusSamples(lowspeed, busrst) : MAX_busprobe(s, lowspeed)
  /\ pc' = "ack"
  /\ UNCHANGED <<usb_error, last_usb_task_state, tmp_addr, usb_delay,
                 tableVars, mainVars, rHIRQ, busrst, portVars>>

\* The state code is a BYTE and wraps.
MaxIntAck ==
  /\ pc = "ack"
  /\ usb_task_state' = (IF "BUSEVENTIRQ" \in HIRQ THEN (usb_task_state + 1) % 256
                                                  ELSE usb_task_state)
  /\ rHIRQ' = rHIRQ \ HIRQ
  /\ HIRQ' = {}
  /\ pc' = "task"
  /\ UNCHANGED <<usb_error, last_usb_task_state, tmp_addr, usb_delay,
                 tableVars, mainVars, busrst, lowspeed, portVars>>

-----------------------------------------------------------------------------
(***************************************************************************)
(* USB_Task, one action for each case of its switch.                       *)
(***************************************************************************)
Task(s) == pc = "task" /\ usb_task_state = s /\ pc' = "app"

GoTo(s) == usb_task_state' = s /\ UNCHANGED <<usb_error, last_usb_task_state>>

Fail(code) ==
  /\ usb_error' = code
  /\ last_usb_task_state' = usb_task_state
  /\ usb_task_state' = ERROR

DetachedInitialize ==
  /\ Task(DETACHED_INITIALIZE)
  /\ USB_init
  /\ GoTo(DETACHED_WAIT_FOR_DEVICE)
  /\ UNCHANGED <<tmp_addr, usb_delay, hid_addr, mainVars, chipVars, portVars>>

StartSettle ==
  /\ Task(ATTACHED)
  /\ usb_delay' = "running"
  /\ GoTo(SETTLE)
  /\ UNCHANGED <<tmp_addr, tableVars, mainVars, chipVars, portVars>>

Settle ==
  /\ Task(SETTLE)
  /\ GoTo(IF usb_delay = "expired" THEN RESET_DEVICE ELSE SETTLE)
  /\ UNCHANGED <<tmp_addr, usb_delay, tableVars, mainVars, chipVars, portVars>>

\* Fault: an old BUSEVENTIRQ is left pending when the reset is issued.
IssueResetOnly ==
  /\ Task(RESET_DEVICE)
  /\ busrst' = TRUE
  /\ GoTo(WAIT_RESET_COMPLETE)
  /\ UNCHANGED <<tmp_addr, usb_delay, tableVars, mainVars,
                 rHIRQ, HIRQ, lowspeed, portVars>>

IssueBusReset ==
  /\ Task(RESET_DEVICE)
  /\ rHIRQ' = rHIRQ \ {"BUSEVENTIRQ"}
  /\ busrst' = TRUE
  /\ GoTo(WAIT_RESET_COMPLETE)
  /\ UNCHANGED <<tmp_addr, usb_delay, tableVars, mainVars,
                 HIRQ, lowspeed, portVars>>

WaitReset ==
  /\ Task(WAIT_RESET_COMPLETE)
  /\ GoTo(IF busrst THEN WAIT_RESET_COMPLETE ELSE WAIT_SOF)
  /\ UNCHANGED <<tmp_addr, usb_delay, tableVars, mainVars, chipVars, portVars>>

\* The test is "HIRQ | bmFRAMEIRQ", which is true whatever HIRQ holds.
WaitSof ==
  /\ Task(WAIT_SOF)
  /\ GoTo(GET_DEVICE_DESCRIPTOR)
  /\ UNCHANGED <<tmp_addr, usb_delay, tableVars, mainVars, chipVars, portVars>>

\* Only the first transfer decides; the result codes of the full descriptor
\* and of the string descriptors are overwritten and never looked at.
GetDeviceDescriptor ==
  /\ Task(GET_DEVICE_DESCRIPTOR)
  /\ \E rcode \in ResultCodes(0) :
       IF rcode = 0 THEN GoTo(ADDRESSING) ELSE Fail(rcode)
  /\ UNCHANGED <<tmp_addr, usb_delay, tableVars, mainVars, chipVars, portVars>>

\* Fault: any free slot is taken.
AnyFreeAddress(i) == i \in Assignable /\ epinfo[i] = "NULL"

FreeAddress(i) ==
  /\ i \in Assignable
  /\ epinfo[i] = "NULL"
  /\ \A j \in Assignable : j < i => epinfo[j] # "NULL"

\* The slot is taken before SET_ADDRESS is sent and kept when it fails; a
\* device whose last handshake was lost has taken the address all the same.
Addressing ==
  /\ Task(ADDRESSING)
  /\ \/ \E i \in Assignable, rcode \in ResultCodes(0) :
          /\ FreeAddress(i)
          /\ epinfo' = [epinfo EXCEPT ![i] = epinfo[0]]
          /\ IF rcode = 0
             THEN GoTo(CONFIGURING) /\ tmp_addr' = i /\ daddr' = i
             ELSE /\ Fail(rcode)
                  /\ UNCHANGED tmp_addr
                  /\ daddr' \in (IF Responds(0) THEN {daddr, i} ELSE {daddr})
     \/ /\ \A i \in Assignable : epinfo[i] # "NULL"
        /\ Fail(NO_ADDRESS)
        /\ UNCHANGED <<epinfo, tmp_addr, daddr>>
  /\ UNCHANGED <<usb_delay, devclass, hid_addr, mainVars, chipVars,
                 portKind, portLow, portChanges>>

\* Fault: the endpoints of the address are not switched.
ClaimClassOnly(class) ==
  /\ devclass' = [devclass EXCEPT ![tmp_addr] = class]
  /\ hid_addr' = tmp_addr
  /\ UNCHANGED epinfo

\* The first probe whose boot interface matches takes the address over
\* before it configures the device, and leaves it so when that fails.
ClaimInterface(class) ==
  /\ devclass' = [devclass EXCEPT ![tmp_addr] = class]
  /\ epinfo' = [epinfo EXCEPT ![tmp_addr] = "hid_ep"]
  /\ hid_addr' = tmp_addr

Configuring ==
  /\ Task(CONFIGURING)
  /\ \/ /\ Responds(tmp_addr)
        /\ ClassOf(portKind) # 0
        /\ ClaimInterface(ClassOf(portKind))
        /\ GoTo(RUNNING) \/ Fail(NO_DRIVER)
     \/ Fail(NO_DRIVER) /\ UNCHANGED tableVars
  /\ UNCHANGED <<tmp_addr, usb_delay, mainVars, chipVars, portVars>>

\* WAIT_FOR_DEVICE, ILLEGAL, RUNNING, the default case, and the codes that
\* no case of the inner switches names.
TaskCases == {DETACHED_INITIALIZE, ATTACHED, SETTLE, RESET_DEVICE, WAIT_RESET_COMPLETE,
              WAIT_SOF, GET_DEVICE_DESCRIPTOR, ADDRESSING, CONFIGURING}

TaskIdle ==
  /\ pc = "task"
  /\ usb_task_state \notin TaskCases
  /\ pc' = "app"
  /\ UNCHANGED <<hostVars, tableVars, mainVars, chipVars, portVars>>

USB_Task ==
  \/ DetachedInitialize \/ StartSettle \/ Settle \/ IssueBusReset \/ WaitReset
  \/ WaitSof \/ GetDeviceDescriptor \/ Addressing \/ Configuring \/ TaskIdle

-----------------------------------------------------------------------------
(***************************************************************************)
(* The body of the main loop.                                              *)
(***************************************************************************)
Occupied == {a \in Assignable : epinfo[a] # "NULL"}

\* Fault: the first occupied slot is reported.
FirstSlotClass(c) ==
  \/ Occupied = {} /\ c = DEV_NONE
  \/ \E a \in Occupied : (\A b \in Occupied : a <= b) /\ c = devclass[a]

\* GetDriverandReport: the class of the last occupied slot of devtable.
ReportedClass(c) ==
  \/ Occupied = {} /\ c = DEV_NONE
  \/ \E a \in Occupied : (\A b \in Occupied : b <= a) /\ c = devclass[a]

ReportDevice ==
  /\ pc = "app" /\ usb_task_state = RUNNING /\ ~runningdebugflag
  /\ runningdebugflag' = TRUE
  /\ led9' = TRUE
  /\ \E c \in Byte : ReportedClass(c) /\ device' = c
  /\ pc' = "max"
  /\ UNCHANGED <<hostVars, tableVars, errorflag, chipVars, portVars>>

\* kbdPoll when the device is a keyboard, nothing otherwise.
PollDevice ==
  /\ pc = "app" /\ usb_task_state = RUNNING /\ runningdebugflag
  /\ pc' = "max"
  /\ UNCHANGED <<hostVars, tableVars, mainVars, chipVars, portVars>>

ReportError ==
  /\ pc = "app" /\ usb_task_state = ERROR
  /\ led9' = (led9 /\ errorflag)
  /\ errorflag' = TRUE
  /\ pc' = "max"
  /\ UNCHANGED <<hostVars, tableVars, runningdebugflag, device, chipVars, portVars>>

\* Fault: the branch is also taken for a reported device, without teardown.
NotRunningAnyFlag ==
  /\ pc = "app" /\ usb_task_state \notin {RUNNING, ERROR}
  /\ errorflag' = FALSE
  /\ led9' = FALSE
  /\ pc' = "max"
  /\ UNCHANGED <<hostVars, tableVars, runningdebugflag, device, chipVars, portVars>>

NotRunning ==
  /\ pc = "app" /\ usb_task_state \notin {RUNNING, ERROR} /\ ~runningdebugflag
  /\ errorflag' = FALSE
  /\ led9' = FALSE
  /\ pc' = "max"
  /\ UNCHANGED <<hostVars, tableVars, runningdebugflag, device, chipVars, portVars>>

\* MAX3421E_init up to its bus probe, at power-on or after a device was lost.
\* The chip reset ends a bus reset, clears HIRQ and selects full speed.
ChipInit ==
  /\ \/ pc = "boot"
     \/ pc = "app" /\ usb_task_state \notin {RUNNING, ERROR} /\ runningdebugflag
  /\ MAX_busprobe(LineState(FALSE), FALSE)
  /\ rHIRQ' = {}
  /\ busrst' = FALSE
  /\ runningdebugflag' = FALSE
  /\ pc' = "init"
  /\ UNCHANGED <<usb_error, last_usb_task_state, tmp_addr, usb_delay, tableVars,
                 errorflag, device, led9, HIRQ, portVars>>

\* The rest of MAX3421E_init clears CONDETIRQ; then USB_init, and the loop.
ChipInitDone ==
  /\ pc = "init"
  /\ rHIRQ' = rHIRQ \ {"CONDETIRQ"}
  /\ USB_init
  /\ errorflag' = FALSE
  /\ led9' = FALSE
  /\ pc' = "max"
  /\ UNCHANGED <<hostVars, hid_addr, runningdebugflag, device,
                 HIRQ, busrst, lowspeed, portVars>>

MainBody ==
  ReportDevice \/ PollDevice \/ ReportError \/ NotRunning \/ ChipInit \/ ChipInitDone

-----------------------------------------------------------------------------
(***************************************************************************)
(* The port, the chip and the clock.                                       *)
(***************************************************************************)
PortChange ==
  /\ portChanges < MaxPortChanges
  /\ portChanges' = portChanges + 1
  /\ \E k \in PortKinds, low \in BOOLEAN :
       /\ portKind # "none" \/ k # "none"
       /\ k \in Devices \/ ~low
       /\ portKind' = k
       /\ portLow' = low
  /\ daddr' = -1
  /\ rHIRQ' = rHIRQ \cup {"CONDETIRQ"}
  /\ UNCHANGED <<pc, hostVars, tableVars, mainVars, HIRQ, busrst, lowspeed>>

\* A bus reset makes the chip detect a connection while it lasts ...
ResetCondet ==
  /\ busrst
  /\ "CONDETIRQ" \notin rHIRQ
  /\ rHIRQ' = rHIRQ \cup {"CONDETIRQ"}
  /\ UNCHANGED <<pc, hostVars, tableVars, mainVars, HIRQ, busrst, lowspeed, portVars>>

\* ... or when it ends, which also raises BUSEVENTIRQ and leaves the device
\* at address 0.
ResetDone ==
  /\ busrst
  /\ busrst' = FALSE
  /\ \E condet \in SUBSET {"CONDETIRQ"} : rHIRQ' = rHIRQ \cup {"BUSEVENTIRQ"} \cup condet
  /\ daddr' = IF portKind \in Devices THEN 0 ELSE daddr
  /\ UNCHANGED <<pc, hostVars, tableVars, mainVars, HIRQ, lowspeed,
                 portKind, portLow, portChanges>>

\* The chip starts a frame; it sends none while it resets the bus.
StartFrame ==
  /\ ~busrst
  /\ "FRAMEIRQ" \notin rHIRQ
  /\ rHIRQ' = rHIRQ \cup {"FRAMEIRQ"}
  /\ UNCHANGED <<pc, hostVars, tableVars, mainVars, HIRQ, busrst, lowspeed, portVars>>

SettleExpires ==
  /\ usb_delay = "running"
  /\ usb_delay' = "expired"
  /\ UNCHANGED <<pc, usb_task_state, usb_error, last_usb_task_state, tmp_addr,
                 tableVars, mainVars, chipVars, portVars>>

-----------------------------------------------------------------------------
\* device is not initialised by the program.
Init ==
  /\ pc = "boot"
  /\ usb_task_state = DETACHED_INITIALIZE
  /\ usb_error = NO_ERROR /\ last_usb_task_state = 0
  /\ epinfo = [a \in Addresses |-> "NULL"]
  /\ devclass = [a \in Addresses |-> 0]
  /\ tmp_addr = 0 /\ hid_addr = 0
  /\ usb_delay = "expired"
  /\ runningdebugflag = FALSE /\ errorflag = FALSE
  /\ device \in {0, HID_K, HID_M, DEV_NONE}
  /\ led9 = FALSE
  /\ rHIRQ = {} /\ HIRQ = {}
  /\ busrst = FALSE /\ lowspeed = FALSE
  /\ portKind \in {"none", "keyboard"}
  /\ portLow \in BOOLEAN
  /\ portKind = "none" => ~portLow
  /\ daddr = -1
  /\ portChanges = 0

Firmware == NoInterrupt \/ MaxIntProbe \/ MaxIntAck \/ USB_Task \/ MainBody
Environment == PortChange \/ ResetCondet \/ ResetDone \/ StartFrame \/ SettleExpires

Next == Firmware \/ Environment

Spec == Init /\ [][Next]_vars

(***************************************************************************)
(* The loop never blocks, the settle timer and the chip's bus reset are    *)
(* finite.  A bus reset (50 ms) spans thousands of turns of the loop, so   *)
(* of infinitely many resets some end while the host still waits for them, *)
(* between USB_Task and the next MAX3421E_Task.                            *)
(***************************************************************************)
ResetDoneBeforePoll ==
  pc = "max" /\ usb_task_state = WAIT_RESET_COMPLETE /\ ResetDone

Fairness ==
  /\ WF_vars(Firmware)
  /\ WF_vars(SettleExpires)
  /\ WF_vars(ResetDone)
  /\ SF_vars(ResetDoneBeforePoll)

FairSpec == Spec /\ Fairness

-----------------------------------------------------------------------------
TypeOK ==
  /\ pc \in {"boot", "init", "max", "ack", "task", "app"}
  /\ usb_task_state \in Byte /\ last_usb_task_state \in Byte
  /\ usb_error \in {NO_ERROR, XFER_ERROR, NO_ADDRESS, NO_DRIVER}
  /\ epinfo \in [Addresses -> {"NULL", "dev0ep", "hid_ep"}]
  /\ devclass \in [Addresses -> {0, HID_K, HID_M}]
  /\ tmp_addr \in Addresses /\ hid_addr \in Addresses
  /\ usb_delay \in {"running", "expired"}
  /\ runningdebugflag \in BOOLEAN /\ errorflag \in BOOLEAN /\ led9 \in BOOLEAN
  /\ device \in {0, HID_K, HID_M, DEV_NONE}
  /\ rHIRQ \in SUBSET Irqs /\ HIRQ \in SUBSET Irqs
  /\ busrst \in BOOLEAN /\ lowspeed \in BOOLEAN
  /\ portKind \in PortKinds /\ portLow \in BOOLEAN
  /\ daddr \in Addresses \cup {-1}
  /\ portChanges \in 0 .. MaxPortChanges

-----------------------------------------------------------------------------
(***************************************************************************)
(* Safety.                                                                 *)
(***************************************************************************)

\* The occupied slots of devtable are 1 .. n for some n: whatever sequence
\* of failed enumerations leaks slots, the newest device is in the last one,
\* which is the one GetDriverandReport reports.
SlotsAreAPrefix ==
  \A a, b \in Assignable : a < b /\ epinfo[b] # "NULL" => epinfo[a] # "NULL"

\* Every devtable[addr].epinfo a transfer is about to follow is a pointer to
\* a record: the default address in the descriptor state, tmp_addr in the
\* probes, addr = 1 in GetDriverandReport; and the address that is polled
\* uses the HID endpoints, for epinfo[1] exists in no other record.
EndpointsPresent ==
  /\ pc = "task" /\ usb_task_state \in {GET_DEVICE_DESCRIPTOR, ADDRESSING}
       => epinfo[0] # "NULL"
  /\ pc = "task" /\ usb_task_state = CONFIGURING => epinfo[tmp_addr] # "NULL"
  /\ pc = "app" /\ usb_task_state = RUNNING
       => epinfo[1] # "NULL" /\ epinfo[hid_addr] = "hid_ep"

\* main polls with the driver of the device that is configured: the class it
\* remembers from GetDriverandReport is the class of the polled address, and
\* that address is the one USB_Task gave out last.
ReportedDeviceIsPolled ==
  pc = "app" /\ usb_task_state = RUNNING /\ runningdebugflag
    => device = devclass[hid_addr] /\ hid_addr = tmp_addr /\ device # 0

\* main clears runningdebugflag (and resets the controller) only in the
\* branch for states that are neither RUNNING nor ERROR; a device that was
\* running can nevertheless not reach the ERROR branch without it.
TeardownBeforeError ==
  pc = "app" /\ usb_task_state = ERROR => ~runningdebugflag

\* At the top of the loop LED 9 is lit exactly while a reported device runs,
\* although the ERROR branch switches it off only the first time.
LedShowsRunning == pc = "max" => led9 <=> runningdebugflag

\* No transfer is started while the chip drives a bus reset, although
\* WAIT_RESET_COMPLETE can be left by the interrupt handler's increment.
NoTrafficDuringReset ==
  pc = "task" /\ busrst
    => usb_task_state \notin {GET_DEVICE_DESCRIPTOR, ADDRESSING, CONFIGURING, RUNNING}

\* In the error state the recorded code and the recorded state fit together,
\* and "no address available" is only claimed while every slot is taken.
ErrorIsExplained ==
  usb_task_state = ERROR =>
    \/ /\ usb_error = NO_ADDRESS
       /\ last_usb_task_state = ADDRESSING /\ Occupied = Assignable
    \/ usb_error = NO_DRIVER /\ last_usb_task_state = CONFIGURING
    \/ /\ usb_error = XFER_ERROR
       /\ last_usb_task_state \in {GET_DEVICE_DESCRIPTOR, ADDRESSING}

(***************************************************************************)
(* The inductive invariant behind them.                                    *)
(***************************************************************************)

\* Which states the calls of the loop can see.  While a device has been
\* reported, only RUNNING or what an interrupt has just made of it.
StatesByCall ==
  /\ pc \in {"boot", "init"}
       => /\ usb_task_state \in {DETACHED_INITIALIZE, DETACHED_WAIT_FOR_DEVICE,
                                 DETACHED_ILLEGAL, ATTACHED}
          /\ ~runningdebugflag
  /\ pc = "ack" => usb_task_state \in {DETACHED_INITIALIZE, DETACHED_WAIT_FOR_DEVICE,
                                       DETACHED_ILLEGAL, ATTACHED, WAIT_RESET_COMPLETE}
  /\ runningdebugflag =>
       /\ pc = "max" => usb_task_state = RUNNING
       /\ pc = "ack" => usb_task_state \in {DETACHED_INITIALIZE, DETACHED_ILLEGAL, ATTACHED}
       /\ pc = "task" => usb_task_state \in
            {RUNNING, ATTACHED, SETTLE, DETACHED_INITIALIZE, DETACHED_INITIALIZE + 1,
             DETACHED_ILLEGAL, DETACHED_ILLEGAL + 1}
       /\ pc = "app" => usb_task_state \in
            {RUNNING, SETTLE, RESET_DEVICE, DETACHED_WAIT_FOR_DEVICE,
             DETACHED_INITIALIZE + 1, DETACHED_ILLEGAL, DETACHED_ILLEGAL + 1}

\* Slot 0 always belongs to the default address.
DefaultSlot ==
  /\ epinfo[0] # "hid_ep"
  /\ pc \notin {"boot", "init"} => epinfo[0] = "dev0ep"

\* tmp_addr is the last occupied slot while its device is probed or runs,
\* and the HID driver owns it once the device runs.
NewestSlot ==
  usb_task_state \in {CONFIGURING, RUNNING} =>
    /\ tmp_addr \in Assignable
    /\ epinfo[tmp_addr] # "NULL"
    /\ \A a \in Assignable : a > tmp_addr => epinfo[a] = "NULL"

RunningSlot ==
  usb_task_state = RUNNING =>
    /\ epinfo[tmp_addr] = "hid_ep"
    /\ devclass[tmp_addr] # 0
    /\ hid_addr = tmp_addr
    /\ runningdebugflag => device = devclass[tmp_addr]

\* After RESET_DEVICE a BUSEVENTIRQ means that the reset has ended.
ResetOver ==
  /\ usb_task_state \in {WAIT_SOF, GET_DEVICE_DESCRIPTOR, ADDRESSING, CONFIGURING, RUNNING}
       => ~busrst
  /\ usb_task_state = WAIT_RESET_COMPLETE /\ "BUSEVENTIRQ" \in rHIRQ => ~busrst
  /\ usb_task_state = WAIT_RESET_COMPLETE /\ "BUSEVENTIRQ" \in HIRQ /\ pc = "ack" => ~busrst

LedFollowsFlag == pc # "init" => led9 <=> runningdebugflag

IInv ==
  /\ TypeOK
  /\ SlotsAreAPrefix
  /\ StatesByCall
  /\ DefaultSlot
  /\ NewestSlot
  /\ RunningSlot
  /\ ResetOver
  /\ ErrorIsExplained
  /\ LedFollowsFlag

(***************************************************************************)
(* Liveness.                                                               *)
(***************************************************************************)

\* Once the port is left alone, the host comes to rest: a device is running,
\* the error is recorded, or nothing is being enumerated; it does not go
\* around the attach states for ever.
Resting == {DETACHED_INITIALIZE + 1, DETACHED_WAIT_FOR_DEVICE, DETACHED_ILLEGAL,
            DETACHED_ILLEGAL + 1, RUNNING, ERROR}

ComesToRest == <>[](usb_task_state \in Resting)

(***************************************************************************)
(* What comments of the program say and the code does not keep.            *)
(***************************************************************************)

\* MAX3421E.c:253 "clear serviced IRQs": when the handler has cleared the
\* interrupts, an empty port has been serviced, or its interrupt is still there.
NoDisconnectLost ==
  [][ pc = "ack" /\ pc' = "task" /\ portKind = "none"
        => Detached(usb_task_state') \/ "CONDETIRQ" \in rHIRQ' ]_vars

StartsToSettle == usb_task_state # SETTLE /\ usb_task_state' = SETTLE

\* transfer.c:277 "initial settle 200ms": when a device that no bus reset has
\* reached yet is taken to settle, it is with the settle timer running.
SettleIsTimed ==
  [][StartsToSettle /\ portKind \in Devices /\ daddr = -1 => usb_delay' = "running"]_vars
=============================================================================
