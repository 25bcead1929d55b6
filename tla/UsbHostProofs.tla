-------------------------- MODULE UsbHostProofs ----------------------------
(***************************************************************************)
(* The safety properties of UsbHost hold for every number of addresses and *)
(* any number of port changes.  IInv is inductive: Init establishes it     *)
(* and every action of the firmware and of its environment keeps it.       *)
(***************************************************************************)
EXTENDS UsbHost, TLAPS

USE NumDevicesAssumption, MaxPortChangesAssumption
USE DEF DETACHED_INITIALIZE, DETACHED_WAIT_FOR_DEVICE, DETACHED_ILLEGAL, ATTACHED,
        SETTLE, RESET_DEVICE, WAIT_RESET_COMPLETE, WAIT_SOF, GET_DEVICE_DESCRIPTOR,
        ADDRESSING, CONFIGURING, RUNNING, ERROR, HID_K, HID_M, DEV_NONE,
        NO_ERROR, XFER_ERROR, NO_ADDRESS, NO_DRIVER, Byte, Addresses, Assignable

\* Whatever was sampled, a probe leaves the host detached, attached, or still
\* waiting for its bus reset.
LEMMA ProbeResult ==
  ASSUME NEW s, NEW ls \in BOOLEAN, MAX_busprobe(s, ls)
  PROVE  /\ lowspeed' \in BOOLEAN
         /\ \/ usb_task_state' \in {1, 4, 16}
            \/ usb_task_state' = 3 /\ Detached(usb_task_state)
            \/ usb_task_state = 19 /\ usb_task_state' = 19
BY DEF MAX_busprobe

\* The initial states satisfy the invariant.
LEMMA InitIInv == Init => IInv
<1> SUFFICES ASSUME Init PROVE IInv
  OBVIOUS
<1>1. TypeOK
  <2>1. portKind \in PortKinds /\ rHIRQ \in SUBSET Irqs /\ HIRQ \in SUBSET Irqs
    BY DEF Init, PortKinds, Devices, Irqs
  <2>2. epinfo \in [Addresses -> {"NULL", "dev0ep", "hid_ep"}] /\ devclass \in [Addresses -> {0, HID_K, HID_M}]
    BY DEF Init
  <2>3. 0 \in Addresses /\ portChanges \in 0 .. MaxPortChanges
    BY DEF Init
  <2>4. /\ runningdebugflag \in BOOLEAN /\ errorflag \in BOOLEAN /\ led9 \in BOOLEAN
        /\ busrst \in BOOLEAN /\ lowspeed \in BOOLEAN /\ portLow \in BOOLEAN
    BY Zenon DEF Init
  <2> QED BY <2>1, <2>2, <2>3, <2>4 DEF Init, TypeOK
<1>2. SlotsAreAPrefix /\ StatesByCall /\ DefaultSlot /\ NewestSlot /\ RunningSlot
  BY DEF Init, SlotsAreAPrefix, StatesByCall, DefaultSlot, NewestSlot, RunningSlot
<1>3. ResetOver /\ ErrorIsExplained /\ LedFollowsFlag
  BY DEF Init, ResetOver, ErrorIsExplained, LedFollowsFlag
<1> QED BY <1>1, <1>2, <1>3 DEF IInv

\* MAX3421E_Task keeps the invariant.
LEMMA MaxTaskIInv ==
  ASSUME IInv, NoInterrupt \/ MaxIntProbe \/ MaxIntAck
  PROVE  IInv'
<1> USE DEF IInv, hostVars, tableVars, mainVars, chipVars, portVars
<1>1. CASE NoInterrupt
  BY <1>1 DEF NoInterrupt, TypeOK, SlotsAreAPrefix, StatesByCall, DefaultSlot, NewestSlot,
       RunningSlot, ResetOver, ErrorIsExplained, LedFollowsFlag, Occupied
<1>2. CASE MaxIntProbe
  BY <1>2, ProbeResult DEF MaxIntProbe, TypeOK, SlotsAreAPrefix, StatesByCall, DefaultSlot, NewestSlot,
       RunningSlot, ResetOver, ErrorIsExplained, LedFollowsFlag, Occupied, Detached, Masked
<1>3. CASE MaxIntAck
  BY <1>3 DEF MaxIntAck, TypeOK, SlotsAreAPrefix, StatesByCall, DefaultSlot, NewestSlot,
       RunningSlot, ResetOver, ErrorIsExplained, LedFollowsFlag, Occupied
<1> QED BY <1>1, <1>2, <1>3

\* USB_Task keeps the invariant, whatever case of its switch is taken.
LEMMA UsbTaskIInv ==
  ASSUME IInv, USB_Task
  PROVE  IInv'
<1> USE DEF IInv, hostVars, tableVars, mainVars, chipVars, portVars, Task, GoTo, TypeOK,
        SlotsAreAPrefix, StatesByCall, DefaultSlot, NewestSlot, RunningSlot, ResetOver,
        ErrorIsExplained, LedFollowsFlag, Occupied
<1>1. CASE DetachedInitialize
  BY <1>1 DEF DetachedInitialize, USB_init
<1>2. CASE StartSettle
  BY <1>2 DEF StartSettle
<1>3. CASE Settle
  BY <1>3 DEF Settle
<1>4. CASE IssueBusReset
  BY <1>4 DEF IssueBusReset
<1>5. CASE WaitReset
  BY <1>5 DEF WaitReset
<1>6. CASE WaitSof
  BY <1>6 DEF WaitSof
<1>7. CASE GetDeviceDescriptor
  <2>1. \/ GoTo(ADDRESSING)
        \/ Fail(XFER_ERROR)
    BY <1>7 DEF GetDeviceDescriptor, ResultCodes
  <2>2. /\ Task(GET_DEVICE_DESCRIPTOR)
        /\ UNCHANGED <<tmp_addr, usb_delay, tableVars, mainVars, chipVars, portVars>>
    BY <1>7 DEF GetDeviceDescriptor
  <2>3. CASE GoTo(ADDRESSING)
    BY <2>2, <2>3
  <2>4. CASE Fail(XFER_ERROR)
    BY <2>2, <2>4 DEF Fail
  <2> QED BY <2>1, <2>3, <2>4
<1>8. CASE Addressing
  <2>1. CASE /\ \A i \in Assignable : epinfo[i] # "NULL"
             /\ Fail(NO_ADDRESS)
             /\ UNCHANGED <<epinfo, tmp_addr, daddr>>
    BY <1>8, <2>1 DEF Addressing, Fail
  <2>2. ASSUME NEW i \in Assignable, FreeAddress(i),
               epinfo' = [epinfo EXCEPT ![i] = epinfo[0]],
               \/ GoTo(CONFIGURING) /\ tmp_addr' = i /\ daddr' = i
               \/ Fail(XFER_ERROR) /\ UNCHANGED tmp_addr /\ daddr' \in {daddr, i}
        PROVE  IInv'
    <3>1. \A a \in Assignable : a > i => epinfo[a] = "NULL"
      BY <2>2 DEF FreeAddress
    <3>2. SlotsAreAPrefix' /\ DefaultSlot'
      BY <1>8, <2>2, <3>1 DEF Addressing, FreeAddress
    <3>3. NewestSlot' /\ RunningSlot'
      BY <1>8, <2>2, <3>1 DEF Addressing, Fail
    <3>4. StatesByCall' /\ ResetOver' /\ ErrorIsExplained' /\ LedFollowsFlag'
      BY <1>8, <2>2 DEF Addressing, Fail
    <3>5. /\ Task(ADDRESSING)
          /\ UNCHANGED <<usb_delay, devclass, hid_addr, mainVars, chipVars,
                         portKind, portLow, portChanges>>
      BY <1>8 DEF Addressing
    <3>6. CASE GoTo(CONFIGURING) /\ tmp_addr' = i /\ daddr' = i
      BY <2>2, <3>2, <3>3, <3>4, <3>5, <3>6
    <3>7. CASE Fail(XFER_ERROR) /\ UNCHANGED tmp_addr /\ daddr' \in {daddr, i}
      BY <2>2, <3>2, <3>3, <3>4, <3>5, <3>7 DEF Fail
    <3> QED BY <2>2, <3>6, <3>7
  <2>3. \/ /\ \A i \in Assignable : epinfo[i] # "NULL"
           /\ Fail(NO_ADDRESS)
           /\ UNCHANGED <<epinfo, tmp_addr, daddr>>
        \/ \E i \in Assignable :
             /\ FreeAddress(i)
             /\ epinfo' = [epinfo EXCEPT ![i] = epinfo[0]]
             /\ \/ GoTo(CONFIGURING) /\ tmp_addr' = i /\ daddr' = i
                \/ Fail(XFER_ERROR) /\ UNCHANGED tmp_addr /\ daddr' \in {daddr, i}
    BY <1>8 DEF Addressing, ResultCodes, Fail
  <2> QED BY <2>1, <2>2, <2>3
<1>9. CASE Configuring
  <2>1. CASE Fail(NO_DRIVER) /\ UNCHANGED tableVars
    BY <1>9, <2>1 DEF Configuring, Fail
  <2>2. ASSUME NEW class \in {HID_K, HID_M}, ClaimInterface(class),
               GoTo(RUNNING) \/ Fail(NO_DRIVER)
        PROVE  IInv'
    <3>1. SlotsAreAPrefix' /\ DefaultSlot' /\ NewestSlot' /\ RunningSlot'
      BY <1>9, <2>2 DEF Configuring, ClaimInterface, Fail
    <3>2. StatesByCall' /\ ResetOver' /\ ErrorIsExplained' /\ LedFollowsFlag'
      BY <1>9, <2>2 DEF Configuring, ClaimInterface, Fail
    <3>3. /\ Task(CONFIGURING)
          /\ UNCHANGED <<tmp_addr, usb_delay, mainVars, chipVars, portVars>>
      BY <1>9 DEF Configuring
    <3>4. tmp_addr \in Assignable
      BY <3>3
    <3>5. CASE GoTo(RUNNING)
      BY <2>2, <3>1, <3>2, <3>3, <3>4, <3>5 DEF ClaimInterface
    <3>6. CASE Fail(NO_DRIVER)
      BY <2>2, <3>1, <3>2, <3>3, <3>4, <3>6 DEF ClaimInterface, Fail
    <3> QED BY <2>2, <3>5, <3>6
  <2>3. \/ Fail(NO_DRIVER) /\ UNCHANGED tableVars
        \/ \E class \in {HID_K, HID_M} :
             ClaimInterface(class) /\ (GoTo(RUNNING) \/ Fail(NO_DRIVER))
    BY <1>9 DEF Configuring, ClassOf
  <2> HIDE DEF IInv, GoTo, tableVars
  <2> QED BY <2>1, <2>2, <2>3
<1>10. CASE TaskIdle
  BY <1>10 DEF TaskIdle, TaskCases
<1> QED BY <1>1, <1>2, <1>3, <1>4, <1>5, <1>6, <1>7, <1>8, <1>9, <1>10 DEF USB_Task

\* The body of the main loop keeps the invariant.
LEMMA MainBodyIInv ==
  ASSUME IInv, MainBody
  PROVE  IInv'
<1> USE DEF IInv, hostVars, tableVars, mainVars, chipVars, portVars, TypeOK,
        SlotsAreAPrefix, StatesByCall, DefaultSlot, NewestSlot, RunningSlot, ResetOver,
        ErrorIsExplained, LedFollowsFlag, Occupied
<1>1. CASE ReportDevice
  BY <1>1 DEF ReportDevice, ReportedClass
<1>2. CASE PollDevice
  BY <1>2 DEF PollDevice
<1>3. CASE ReportError
  BY <1>3 DEF ReportError
<1>4. CASE NotRunning
  <2>1. led9' \in BOOLEAN /\ ~led9' /\ errorflag' \in BOOLEAN
    BY <1>4, Zenon DEF NotRunning
  <2> QED BY <1>4, <2>1 DEF NotRunning
<1>5. CASE ChipInit
  <2>1. MAX_busprobe(LineState(FALSE), FALSE)
    BY <1>5 DEF ChipInit
  <2>2. /\ usb_task_state' \in {DETACHED_INITIALIZE, DETACHED_WAIT_FOR_DEVICE,
                                DETACHED_ILLEGAL, ATTACHED}
        /\ lowspeed' \in BOOLEAN
    <3>1. /\ lowspeed' \in BOOLEAN
          /\ \/ usb_task_state' \in {1, 3, 4, 16}
             \/ usb_task_state = 19
      BY <2>1, ProbeResult
    <3> QED BY <1>5, <3>1 DEF ChipInit
  <2>3. runningdebugflag' \in BOOLEAN /\ ~runningdebugflag' /\ busrst' \in BOOLEAN /\ ~busrst'
    BY <1>5, Zenon DEF ChipInit
  <2> QED BY <1>5, <2>2, <2>3 DEF ChipInit
<1>6. CASE ChipInitDone
  <2>1. led9' \in BOOLEAN /\ ~led9' /\ errorflag' \in BOOLEAN
    BY <1>6, Zenon DEF ChipInitDone
  <2> QED BY <1>6, <2>1 DEF ChipInitDone, USB_init
<1> QED BY <1>1, <1>2, <1>3, <1>4, <1>5, <1>6 DEF MainBody

\* The port, the chip and the clock keep the invariant.
LEMMA EnvironmentIInv ==
  ASSUME IInv, Environment
  PROVE  IInv'
<1> USE DEF IInv, hostVars, tableVars, mainVars, chipVars, portVars, TypeOK,
        SlotsAreAPrefix, StatesByCall, DefaultSlot, NewestSlot, RunningSlot, ResetOver,
        ErrorIsExplained, LedFollowsFlag, Occupied, Irqs
<1>1. CASE PortChange
  BY <1>1 DEF PortChange
<1>2. CASE ResetCondet
  BY <1>2 DEF ResetCondet
<1>3. CASE ResetDone
  <2>1. busrst' \in BOOLEAN /\ ~busrst'
    BY <1>3, Zenon DEF ResetDone
  <2>2. rHIRQ' \in SUBSET Irqs
    BY <1>3 DEF ResetDone
  <2>3. daddr' \in Addresses \cup {-1}
    BY <1>3 DEF ResetDone
  <2> QED BY <1>3, <2>1, <2>2, <2>3 DEF ResetDone
<1>4. CASE StartFrame
  BY <1>4 DEF StartFrame
<1>5. CASE SettleExpires
  BY <1>5 DEF SettleExpires
<1> QED BY <1>1, <1>2, <1>3, <1>4, <1>5 DEF Environment

\* IInv is an invariant.
THEOREM InductiveInvariant == Spec => []IInv
<1>1. IInv /\ UNCHANGED vars => IInv'
  BY DEF IInv, vars, hostVars, tableVars, mainVars, chipVars, portVars, TypeOK,
         SlotsAreAPrefix, StatesByCall, DefaultSlot, NewestSlot, RunningSlot, ResetOver,
         ErrorIsExplained, LedFollowsFlag, Occupied
<1>2. IInv /\ [Next]_vars => IInv'
  BY <1>1, MaxTaskIInv, UsbTaskIInv, MainBodyIInv, EnvironmentIInv DEF Next, Firmware, Environment
<1> QED BY <1>2, InitIInv, PTL DEF Spec

\* Every variable keeps its type; in particular the BYTE state code never
\* leaves the range and the address being configured is one of devtable.
THEOREM TypeCorrect == Spec => []TypeOK
BY InductiveInvariant, PTL DEF IInv

\* The newest device has the last occupied slot of devtable.
THEOREM SlotsCorrect == Spec => []SlotsAreAPrefix
BY InductiveInvariant, PTL DEF IInv

\* No transfer follows a null or a wrong endpoint pointer.  addr = 1 is safe
\* because the slots are a prefix and the running device has one of them.
THEOREM EndpointsCorrect == Spec => []EndpointsPresent
<1>1. IInv => EndpointsPresent
  <2> SUFFICES ASSUME IInv PROVE EndpointsPresent
    OBVIOUS
  <2>1. pc = "task" => epinfo[0] # "NULL"
    BY DEF IInv, DefaultSlot
  <2>2. usb_task_state \in {CONFIGURING, RUNNING}
          => tmp_addr \in Assignable /\ epinfo[tmp_addr] # "NULL" /\ epinfo[1] # "NULL"
    BY DEF IInv, NewestSlot, SlotsAreAPrefix
  <2>3. usb_task_state = RUNNING => epinfo[hid_addr] = "hid_ep"
    BY DEF IInv, RunningSlot
  <2> QED BY <2>1, <2>2, <2>3 DEF EndpointsPresent
<1> QED BY <1>1, InductiveInvariant, PTL

\* main polls the device that it has reported, with the driver for its class.
THEOREM ReportedDeviceCorrect == Spec => []ReportedDeviceIsPolled
<1>1. IInv => ReportedDeviceIsPolled
  BY DEF IInv, RunningSlot, ReportedDeviceIsPolled
<1> QED BY <1>1, InductiveInvariant, PTL

\* A device that was running is torn down before its error is reported, and
\* LED 9 follows it.
THEOREM TeardownCorrect == Spec => [](TeardownBeforeError /\ LedShowsRunning)
<1>1. IInv => TeardownBeforeError /\ LedShowsRunning
  BY DEF IInv, StatesByCall, LedFollowsFlag, TeardownBeforeError, LedShowsRunning
<1> QED BY <1>1, InductiveInvariant, PTL

\* LED 9 is lit exactly while main holds a device for running, between any
\* two calls of the main loop.
THEOREM LedCorrect == Spec => []LedShowsRunning
BY TeardownCorrect, PTL

\* The chip never gets a transfer while it drives a bus reset.
THEOREM NoTrafficCorrect == Spec => []NoTrafficDuringReset
<1>1. IInv => NoTrafficDuringReset
  BY DEF IInv, ResetOver, NoTrafficDuringReset
<1> QED BY <1>1, InductiveInvariant, PTL

\* Code and state of a recorded error fit together.
THEOREM ErrorCorrect == Spec => []ErrorIsExplained
BY InductiveInvariant, PTL DEF IInv

(***************************************************************************)
(* The way through the states.                                             *)
(***************************************************************************)

\* The code of a case of USB_Task is below those it goes on to, and the increment
\* for a BUSEVENTIRQ that is left over never turns the BYTE over: only a probe of
\* the bus, at an interrupt or at a chip reset, takes the code back, and the chip
\* is reset only at power-on or after a device was lost.
EnumerationAdvances ==
  [][usb_task_state' < usb_task_state
       => \/ pc = "max" /\ "CONDETIRQ" \in rHIRQ
          \/ pc = "boot"
          \/ pc = "app" /\ runningdebugflag /\ usb_task_state \notin {RUNNING, ERROR}]_vars

\* No case of USB_Task takes the code back.
LEMMA TaskAdvances ==
  ASSUME IInv, USB_Task
  PROVE  ~(usb_task_state' < usb_task_state)
<1>1. usb_task_state \in Int
  BY DEF IInv, TypeOK
<1>2. CASE DetachedInitialize \/ StartSettle \/ IssueBusReset \/ WaitSof
  BY <1>2 DEF DetachedInitialize, StartSettle, IssueBusReset, WaitSof, Task, GoTo
<1>3. CASE Settle
  BY <1>3 DEF Settle, Task, GoTo
<1>4. CASE WaitReset
  <2>1. usb_task_state = WAIT_RESET_COMPLETE
        /\ (usb_task_state' = WAIT_RESET_COMPLETE \/ usb_task_state' = WAIT_SOF)
    BY <1>4, Zenon DEF WaitReset, Task, GoTo
  <2> QED BY <2>1
<1>5. CASE GetDeviceDescriptor
  BY <1>5 DEF GetDeviceDescriptor, Task, GoTo, Fail
<1>6. CASE Addressing
  <2>1. usb_task_state = 32 /\ (usb_task_state' = 48 \/ usb_task_state' = 255)
    BY <1>6 DEF Addressing, Task, GoTo, Fail
  <2> QED BY <2>1
<1>7. CASE Configuring
  <2>1. usb_task_state = 48 /\ (usb_task_state' = 64 \/ usb_task_state' = 255)
    BY <1>7 DEF Configuring, Task, GoTo, Fail
  <2> QED BY <2>1
<1>8. CASE TaskIdle
  <2>1. usb_task_state' = usb_task_state
    BY <1>8, Zenon DEF TaskIdle, hostVars
  <2> QED BY <1>1, <2>1
<1> QED BY <1>2, <1>3, <1>4, <1>5, <1>6, <1>7, <1>8 DEF USB_Task

\* USB_Task enumerates in one direction, for every number of addresses and of
\* changes of the port.
THEOREM StatesAdvance == Spec => EnumerationAdvances
<1>1. IInv /\ [Next]_vars
        => [usb_task_state' < usb_task_state
              => \/ pc = "max" /\ "CONDETIRQ" \in rHIRQ
                 \/ pc = "boot"
                 \/ pc = "app" /\ runningdebugflag
                    /\ usb_task_state \notin {RUNNING, ERROR}]_vars
  <2> SUFFICES ASSUME IInv, Next, usb_task_state' < usb_task_state
               PROVE  \/ pc = "max" /\ "CONDETIRQ" \in rHIRQ
                      \/ pc = "boot"
                      \/ pc = "app" /\ runningdebugflag
                         /\ usb_task_state \notin {RUNNING, ERROR}
    OBVIOUS
  <2>1. usb_task_state \in Int
    BY DEF IInv, TypeOK
  <2>2. ~(usb_task_state < usb_task_state)
    BY <2>1
  <2>3. CASE MaxIntProbe \/ ChipInit
    BY <2>3, Zenon DEF MaxIntProbe, ChipInit
  <2>4. CASE MaxIntAck
    <3>1. usb_task_state \in 1 .. 19
      BY <2>4 DEF MaxIntAck, IInv, StatesByCall
    <3>2. usb_task_state' \in {usb_task_state, usb_task_state + 1}
      BY <2>4, <3>1 DEF MaxIntAck
    <3> QED BY <3>1, <3>2
  <2>5. CASE USB_Task
    BY <2>5, TaskAdvances
  <2>6. CASE usb_task_state' = usb_task_state
    BY <2>2, <2>6, Zenon
  <2>7. NoInterrupt \/ ReportDevice \/ PollDevice \/ ReportError \/ NotRunning \/ ChipInitDone
        \/ Environment => usb_task_state' = usb_task_state
    BY DEF NoInterrupt, ReportDevice, PollDevice, ReportError, NotRunning, ChipInitDone,
         Environment, PortChange, ResetCondet, ResetDone, StartFrame, SettleExpires, hostVars
  <2> QED BY <2>3, <2>4, <2>5, <2>6, <2>7 DEF Next, Firmware, MainBody
<1> QED BY <1>1, InductiveInvariant, PTL DEF Spec, EnumerationAdvances
=============================================================================
