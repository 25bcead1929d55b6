# JuliaSetVisualizer: verification project

JuliaSetVisualizer runs on an FPGA board (DE10-Lite). A soft processor executes
a C program that hosts a USB keyboard through a MAX3421E chip and lets the user
choose a Julia set and a colour; hardware beside it computes the set into an
SDRAM and drives a VGA monitor. The modules here model the program, the
drivers under it and the hardware it works with, TLC checks them on small instances, and TLAPS proves
the main results for every value of their constants.

Paths are relative to the repository's root; `usb_kb/` stands for
`src/software/JuliaSetVisualizer/usb_kb/` and `main.c` for
`src/software/JuliaSetVisualizer/main.c`.

## 1. Inventory

| Component | State | Operations | Correct when |
|---|---|---|---|
| USB task (`usb_kb/transfer.c`, USB_Task, USB_init) | `usb_task_state`, `usb_error`, `last_usb_task_state`, `devtable[]`, static `tmp_addr` and `usb_delay` | one case per state of the enumeration | the device table is consistent, no transfer follows a null endpoint, enumeration comes to rest |
| Interrupt handler and bus probe (`usb_kb/MAX3421E.c`) | copy of HIRQ, chip mode | poll the interrupt, probe the bus, acknowledge, advance the task | no connection event is lost or served twice; the echo of a bus reset does not restart the attachment |
| Packet dispatch (XferDispatchPkt) | deadline, NAK and retry counters | launch, wait, judge, retry | it judges the result of its own launch, ends, and times out only a dead chip |
| Settle timer (USB_Task, states ATTACHED and SETTLE) | `usb_delay` | start, compare with the clock | the bus is reset only when a delay of 200 ms is over; it ends |
| IN transfers (kbdPoll, XferInTransfer) | saved data toggles, buffer | poll, read packets, save the toggle | each report reaches `main` exactly once and in order |
| Control transfers (XferCtrlReq, XferCtrlData, XferCtrlND) | data toggle of the chip, shared with polling | setup, data and status stage | a request that succeeds got its own reply, whole; polling is not disturbed |
| HID class drivers (`usb_kb/HID.c`) | `hid_device`, `hid_ep[]`, class in `devtable[]` | HIDMProbe, HIDKProbe, HID_init | the driver's record and the table name the same device |
| Main loop (`main.c`) | `runningdebugflag`, `errorflag`, `device`, LED 9 | report, poll, tear down, report an error | a device that was reported is torn down before anything else is reported |
| Keyboard application (`main.c`) | `prev_keycode`, TRANSITION, REAL_VAL, IMAG_VAL, COLOR, HEX and LED registers | button, detect a newly pressed key, select, show the key codes | pressed keys select, the display shows what was pressed |
| Interface state machine (`src/ISM.sv`) | `state` | advance when TRANSITION names the next state | it follows the program |
| VGA timing (`src/VGA_controller.sv`) | `clkdiv`, `hc`, `vc`, `hs`, `vs` | scan, sync, reset | pulses and picture have their place |
| VGA interface (`src/vga_interface.sv`, `src/ocm.v`) | video memory and its output register, pixel register | fetch the word under the beam, draw | every pixel belongs to the cell under the beam |
| Fractal engine (`src/fractal_calc.sv`, `src/iteration_calc.sv`, `src/naturallog.sv`) | counters, latched constants, step | step the pixels, iterate, brightness | both constants belong to one selection; steps end; brightness grows with the step |
| SPI access (`MAX3421E.c`, `alt_avalon_spi_command`, SPI master) | byte counts and credits; holding and shift registers | send, receive, drain | an access is one frame with the right bytes, and no byte is overwritten |
| JTAG UART driver (`altera_avalon_jtag_uart_{init,write,read}.c`) | two rings, `irq_enable`, `host_inactive`; two FIFOs | write, read, close, interrupt, alarm, host | characters arrive in order; no wake-up is lost; no call waits for ever for a host that is gone |
| System timer (`alt_tick.c`, `alt_alarm_start.c`, `altera_avalon_timer_sc.c`) | `_alt_nticks`, list of alarms, flag of the timer | tick, start, stop | alarms are called at their tick, across the wrap |

The remaining parts (generated systems, the rest of the board support package,
the glyph table, digit decoder, unused sources) are listed in `PROJECT.json` with the
reason why they are not modelled.

**Interactions.** `main` is a single thread. Its loop calls MAX3421E_Task,
USB_Task and its own body in turn; they share the task state, the device table
and the chip's registers. The interrupt pin of the chip is *polled*, so the
"handler" MaxIntHandler runs between the calls of the loop, never inside one.
Beside the thread run the USB port (plugging and unplugging), the chip (end of a
bus reset, frames, results of transfers), the tick counter, the two keys of the
board and the video hardware. The program drives the hardware through output
registers (PIOs); the hardware answers with ISM's state only. Below the program
lie three drivers of the vendor that run on interrupts or beside a device with a clock
of its own: the timer gives every deadline its clock, the SPI driver carries
every access to the MAX3421E, and the JTAG UART carries every `printf`.

**Hard behaviours.** Port changes between any two steps; acknowledging an
interrupt after looking at the bus; an increment of the state code by a handler
that does not know the state; slots that leak when enumeration fails; deadlines
on a clock that wraps; NAKs and retries within a deadline; lost packets and lost
acknowledgements; edge detection on overwritten and uninitialised data; a memory
that delivers a clock late; rings and FIFOs that an interrupt handler and a
thread move at the same time. `PROJECT.json` lists each hazard at its line with the
properties that watch it.

## 2. Modules

| Module | Models | Size of its instance |
|---|---|---|
| `UsbHost` | main loop, MaxIntHandler, MAX_busprobe, USB_Task, class probes, port and chip | 2 assignable addresses, 2 port changes |
| `UsbHostProofs` | proofs about `UsbHost` | - |
| `Clock` | the millisecond clock and its wrap | see below |
| `XferDispatch`, `XferDispatchProofs` | XferDispatchPkt against a clock and a chip that may die | clock of 17 readings, deadline 11 |
| `SettleTimer` | the settle delay on the same clock | as part of `SystemTimer` |
| `SystemTimer`, `SystemTimerProofs` | timer, tick counter and alarms; extends `SettleTimer` and implements its clock | counter of 32, 3 per reading, delay 3, an alarm of 5 or 30 ticks |
| `AlarmClock` | abstract: an alarm is called when its ticks are over | - |
| `ReportDelivery` | abstract: reports are delivered exactly once | - |
| `InTransfer` | kbdPoll, XferInTransfer, chip and keyboard toggles; implements `ReportDelivery` | as part of `Transfers` |
| `Transfers`, `TransfersProofs` | XferCtrlReq and its stages, the requests of the probes; extends `InTransfer` and implements it; proofs about both | 3 packets of configuration, 4 reports |
| `KeyboardApp` | the running-keyboard branch of `main`, ISM, keys, digits and LEDs; proofs | 6 key codes, 3 stack words |
| `Raster` | the limits of the pixel and line counts, shared by the next two and the engine | the real counts |
| `VgaController` | counters and sync pulses | the real counts |
| `TextDisplay` | extends it by the text fetch pipeline and the address of the bitmap | the real counts |
| `EscapeIntensity` | brightness of a pixel: the table of logarithms and the fixed-point product | the real table |
| `FractalEngine` | register writes of `main`, ISM, latch, pixel and step counters, what the screen takes | the real counts, 2 selections |
| `VideoProofs` | proofs about `TextDisplay` and `FractalEngine` | - |
| `Board` | `KeyboardApp`, `TextDisplay` and `FractalEngine` in one specification, in a behaviour of which one of them moves: they read no variable of each other, so their interleavings add nothing | as theirs |
| `RegisterAccess` | abstract: a register access is one step | - |
| `SpiCommand`, `SpiCommandProofs` | alt_avalon_spi_command against the SPI master; implements `RegisterAccess` | 0 to 3 data bytes |
| `CharStream` | abstract: a line that keeps characters and their order | - |
| `JtagUart`, `JtagUartProofs` | driver, interrupt handler, alarm, FIFOs and host; implements `CharStream` in both directions | 3 slots, FIFOs of 1 and 2, 4 characters |

**How modules correspond to the code.** Each variable has the name of the C or
Verilog variable or the chip register it stands for; each action is one call or
one case of a `switch`. In `UsbHost`, `pc` names the call the main loop makes
next ("max", "task", "app"), "ack" is the point inside MaxIntHandler between
probing the bus and clearing the interrupts, and "boot" and "init" are the two
halves of MAX3421E_init, so the port and the chip can act at each of these
points. In `FractalEngine` the counters `hc` and `vc` of
`fractal_calc.sv` have the names of the outputs they drive, `x_draw` and `y_draw`. In `JtagUart` and `SpiCommand` each access of the thread to something that
the handler or the device may change is a step of its own (`main` and `pc` say
which is next); in `Transfers` a step is a launch of XferDispatchPkt with what
the caller makes of its result. Operators with a comment that starts with "Fault:" are not part of the model:
they are plausible wrong versions of the definition that follows them, used to
confirm that the properties can fail.

**Composition.** `UsbHost` composes the interrupt handler, the USB task, the
probes and the main loop, because they share the task state and the table. It
abstracts a whole control transfer to its result and the settle delay to
"running" and "expired". The other modules look into what it abstracts:

- `XferDispatch`: a dispatch has a result of its own, so a result code is a fair
  abstraction. `SettleTimer`: a delay that is started is never too short, so "expired" may come at any
  time but not at once; without a start (MAX3421E.c:251) it is what it was.
- `SystemTimer` is `SettleTimer` on the real tick counter: the clock `Ms` computes
  from it is the clock `SettleTimer` and `XferDispatch` assume (`ImplementsClock`), and
  its alarms implement `AlarmClock`.
- `InTransfer` implements `ReportDelivery`. It takes the configuration of a
  keyboard for one step and lets other transfers change the chip's toggle.
  `Transfers` has the control transfers that do both, and implements
  `InTransfer` (`ImplementsPolling`). The refinement mapping takes HID_init for the
  step: until the keyboard has followed (`fresh`), it counts as configured
  with nothing to say. The theorems of `InTransfer` so hold of the composition.
- `SpiCommand` implements `RegisterAccess`: every other module may take an access to
  the chip for one step, as long as it has a data byte. `InTransfer` and `Transfers`
  have no packet without data, so they never make the one that does not end.
- `JtagUart` implements `CharStream`; its alarm is the one of `SystemTimer`.

`KeyboardApp` starts where `UsbHost` is in RUNNING, and takes the delivered
reports as its input. `TextDisplay` shows states 0 and 1 of ISM, the only
ones `KeyboardApp` can reach; `Board` puts the three side by side. `FractalEngine` asks what would happen beyond: there main's
selections work, and the transitions it lacks are written too.

## 3. What the runs show

| Run | Shows |
|---|---|
| `usb_host` | With ports changing at any moment: the inductive invariant of the proofs (`IInv`), in which the occupied slots are a prefix of the table with the newest device in the last one (`SlotsAreAPrefix`), the recorded error and state fit (`ErrorIsExplained`) and LED 9 follows the flag; no transfer follows a null endpoint, the poll included (`EndpointsPresent`); the class `main` remembers is that of the device it polls (`ReportedDeviceIsPolled`); a reported device is torn down before the error branch is reached (`TeardownBeforeError`); no transfer starts during a bus reset (`NoTrafficDuringReset`); enumeration comes to rest (`ComesToRest`) |
| `xfer_dispatch` | A dispatch judges its own result only, launches fewer times than the two limits together, never calls a working chip dead, never times out early, wraps included, and returns while the chip works |
| `settle_timer` | `SystemTimer`: the bus is reset only when the delay that was started last is over, wherever the clock wraps and however often a device is attached, with a delay of its own or, by a left-over bus event, without one; in ticks and in real time although the timer's flag may hold an old timeout; a delay ends if it does so before the wrap; alarms are called at their tick |
| `transfers` | With any packet or acknowledgement lost and the keyboard pulled at any moment: a request that returns 0 got exactly its own reply (`ReplyIsExact`), a running host polls a keyboard in the boot protocol (`RunningMeansBoot`), the shared toggle does not disturb polling (`ImplementsPolling`), reports of one packet are delivered exactly once, as a refinement of `ReportDelivery` (`DeliversReports`), and they arrive unless the keyboard is pulled (`RunningReportsArrive`) |
| `board` | Keyboard: no key ever selects anything (`SelectionUnreachable`), and the digits and LEDs show both key codes of the last report. Text: for the cells the address can name, pixels are where they belong, over whole frames and with resets at any edge; the sync pulses are whole and keep off the picture (`SyncPulses`); a pixel of the picture has an address of its own in the SDRAM (`BitmapAddressed`). Engine: it never works with the halves of two selections (`SelectionLatched`, in `EngineInv`); the table of logarithms is one (`LnAdds`) and brightness never falls (`IntensityGrows`); only pixel (0, 0) is ever calculated and state 2 stays black (`OnlyFirstPixel`) |
| `spi_command` | An access is one frame with the right bytes and the chip's answer (`ImplementsAccess`), no byte is overwritten (`OneByteFlying`, in `SpiInv`); it ends if it has a data byte, and if it has none it never does (`AccessEnds`) |
| `jtag_uart` | Nothing lost, repeated or reordered in either direction (`TxInOrder`, `RxInOrder`), no lost wake-up, a host that stays is served (`NeverStalls`), and calls return; only a read may wait on, and only for a host that shows itself again and again (`CallsReturn`) |

Five runs refute what a comment says; each is a finding in `PROJECT.json`:

| Run | The code |
|---|---|
| `keyboard_press` | overwrites `prev_keycode` by the new key before it asks for `prev_keycode == 0` and a key (main.c:215): nothing can be selected |
| `usb_host_NoDisconnectLost` | in MaxIntHandler a disconnect between the probe and the acknowledgement is cleared without having been seen |
| `usb_host_SettleIsTimed` | with a BUSEVENTIRQ left over, MaxIntHandler takes a new device past the state that starts the settle delay (MAX3421E.c:251), so the bus is reset at once: transfer.c:277 'initial settle 200ms' |
| `display_vertical` | the vertical pulse covers line 489 from pixel 1 on and line 490, not the lines 490-491 of VGA_controller.sv:101 |
| `display_cells` | row 12, column 64 shows cell 0 again: `f_addr` has 10 bits, against the 80x30 cells of vga_interface.sv:5 |

### Bounds, and why they are enough

- `UsbHost`: three addresses of which two can be assigned is the least table
  that has a first, a last and a full state; two port changes are enough to pull
  a running device and attach another, to swap devices in the middle of an
  enumeration, and, with transfers failing of themselves and their slots
  leaking, to fill the table (NO_ADDRESS is reached). The safety properties are
  proved for every number of addresses and of port changes.
- `Clock`, `XferDispatch`, `SettleTimer`: the real clock has 4294967 readings. What
  matters is the order of deadline and wrap, so the instances start at every
  reading of a clock that is a little larger than the deadline. `ClockAssumption` compares
  the abstract step of the clock with the C expression on small words. The
  limits 3 and 2 let NAKs and timeouts interleave. With the constants of the
  code (limits 200 and 3, 5000 ms) the budget that `LiveChipAnswers` assumes is
  a turn of at most 24 ms; a packet takes about one.
- `InTransfer`, in the run of `Transfers`: two reports are needed to confuse a repeated
  report with a new one and the toggle returns after two, so four let it go round
  twice. Proved for any number.
- `KeyboardApp`: the codes are no key, a code without a constant, a selection
  key, one with three digits, the smallest signed character and a negative
  one. The selection result is proved for all codes.
- `SystemTimer`: the instance keeps the relation of the code (`MaxMs` is the last
  reading below the wrap of the product). Alarms of 5 and 30 ticks on a counter of 32 lie
  on either side of its end from almost every start. The counter starts anywhere.
- `Transfers`: a reply of three packets has a first, a middle and a last one, so a
  repeated packet can be confused with each neighbour; proved for any number.
- `JtagUart`: a ring of 3 slots holds 2 characters and wraps after three, the FIFO
  holds one, and 4 characters exceed both together, so write has to wait. Two
  characters in a call are enough to be cut into pieces at the end of the ring.
  Both directions are proved for every size.
- `SpiCommand`: three bytes are a first, a middle and a last one for each of the
  counts, 0 is what MAXbytes_rd asks for after a packet without data (transfer.c:211); proved for any number.
- `FractalEngine`: the real counts and table; two selections can be mixed. Proved for any
  number of selections.
- `TextDisplay`: the real counts (one frame, 840000 clock edges, and the reset
  at each of them).

### Fairness

The firmware never blocks, so its steps are weakly fair as a whole. The
environment is fair only where hardware guarantees it:

- `UsbHost`: the settle timer expires and a bus reset ends (the chip times it).
  `SF(ResetDoneBeforePoll)` says that of infinitely many resets some end between
  USB_Task and the next MAX3421E_Task: a reset lasts 50 ms, thousands of
  turns of the loop, and the rest of the turn (printing, polling) is the long
  part of it. No fairness of port changes or frames. `SettleTimer` shows the one
  case in which the first assumption fails: a delay started in the last 200 ms
  before the clock wraps (every 71.6 minutes).
- `XferDispatch`: the call, the answer of a live chip, the clock; the strong
  fairness of `DeadlinePasses` and of `EndSettle` says that a loop of microseconds
  sees a reading that lasts a millisecond.
- `InTransfer`: polls go on, a dispatch ends, and an exchange repeated for ever
  succeeds at last (strong fairness of the two loss-free exchanges).
- `Transfers`: the same, and of a control packet that is launched again and
  again one is exchanged without a loss.
- `SystemTimer`: the timer runs and its interrupt is served.
- `JtagUart`: the thread runs on, the level-triggered interrupt is served, the
  alarm goes off every second, and a host that stays takes what is there. No
  fairness of what the host sends, or of its coming back. The thread reads
  `host_inactive` afresh on each turn of its loop, as the -O0 build of the
  Makefile does.
- `SpiCommand`: the thread runs on and the device shifts.
- `KeyboardApp`, `TextDisplay` and `FractalEngine` state safety only.

## 4. Proofs

All theorems are of the form *invariant*, *action property* or *refinement of the
specification*, for every value of the constants. Action properties on a count of the steps
that are left (`DispatchShrinks`, `AccessShrinks`) hold the finite part of a termination argument. The type invariants and inductive
invariants of the modules proved about (but for those of `UsbHost` and `SpiCommand`) are left to
the proofs; the runs check what follows from them. Assumptions on constants are
the named ASSUMEs of the modules.

- **`UsbHostProofs`**. The safety properties are not inductive: that the reported
  class is that of the polled device depends on where the newest device
  sits in the table and on which states each call of the loop can see.
  `IInv` adds `StatesByCall` (what an interrupt can have made of RUNNING before each
  call), `DefaultSlot`, `NewestSlot` and `RunningSlot` (the slot of the device
  being configured is the last one, and is the HID driver's once the device runs),
  `ResetOver` (after RESET_DEVICE a pending BUSEVENTIRQ means that the
  reset has ended, which is why the line that clears it matters) and
  `LedFollowsFlag`. One lemma per group of actions; the properties follow. `StatesAdvance`:
  the state code goes back only at a probe of the bus. It needs `StatesByCall`, because the
  increment for a BUSEVENTIRQ comes after a probe has put the code at 19 or below, so
  the BYTE never turns over.
- **`XferDispatchProofs`**. `TurnsAccounted` bounds elapsed time by launches times
  the turn time, `LaunchesCounted` equates launches with the counters, and
  `DeadlineAhead` says the clock never runs ahead of the deadline although it
  may fall back. Together with `BudgetAssumption` the deadline cannot pass
  while the chip works, hence no late answer can be taken for the next one.
  `StepsLeft` counts 5 for each NAK and each bus timeout that the limits still allow,
  more than a turn has steps, so every step takes one away (`DispatchTerminates`);
  and the chip that is polled is done or busy (`AnswerComes`). A clock that
  ticks on does not enter into this: it is what ends the call if the chip dies.
- **`SystemTimerProofs`**, for words of every width. `ExpiryAhead` is the same argument
  for the delay (`ExpiryCorrect`). From one tick to the next the product of the clock
  grows by a constant or wraps, so its quotient is the next reading or 0 (`MsNext`): this is the
  step of `SettleTimer` (`ClockCorrect`), and no property of the abstract clock has to be
  checked again on the counter. `CountedInv` allows one tick more than periods, the
  one that waited when the delay started (`RealTimeCorrect`). `AlarmInv`: an alarm in
  the list is to come, and has its rollover flag exactly when its time is below the
  counter. Then the ticks left are `(time - nticks) % Word`, a tick takes one of them away
  and an alarm is due when one was left (`Turn`), which is the step of
  `AlarmClock` (`AlarmsOnTimeCorrect`).
- **`TransfersProofs`**, on `InTransfer`. `TogglesAgree`: host and keyboard differ by at most one
  packet whose acknowledgement was lost, and then their toggles differ. Each
  step is a step of `ReportDelivery` or a stutter (`StepRefines`). Assumes
  reports of one packet, which is what a low-speed boot keyboard sends.
- **`TransfersProofs`**, on `Transfers`. `ExchangeInStep` relates the stages of host and keyboard: in
  the data stage they are at the same packet, or one apart with different
  toggles, which gives `ReplyIsExact`. `ProbeInStep` says how far the probe has
  come and where HID_init lies between the two resets of the toggles, `BootInStep` what
  the keyboard has executed. Each step is mapped to a step of `InTransfer` or a
  stutter (`PollingCorrect`), for any number of packets and reports. `StartCorrect` says
  what is known in the one step where the polling starts, with which `UsbHost` stands for the whole
  probe; the invariant `RunningMeansBoot` would also hold if it started with no device.
- **`JtagUartProofs`**. `InFlight`: FIFO and ring hold exactly what the host has
  not got, in order; `Unpublished` adds the piece that write has copied but
  not yet published, `RoomIsThere` the room the handler counts on. Hence the
  refinement of `CharStream` (`TransmitImplementsStream`). RAVAIL is taken one clock after RVALID, so the handler may turn
  its interrupt off over a ring with room; `HandlerHasMoved` says why the ring is not empty then:
  it is entered to read with a character in the FIFO and moves that one first. With it `NoLostWakeup`
  is inductive (`WakeupsKept`).
  In the other direction `RxInv` is the same with the ends exchanged (`Arriving`); read copies a piece
  before it gives its slots back, so the ring is counted from what it has given back (`Freed`),
  and `Unreleased` says that the piece is still in it (`ReceiveImplementsStream`).
- **`SpiCommandProofs`**. `OneByteFlying`, that no byte is overwritten, is not
  inductive: `SpiInv` adds when the chip is selected (`Selected`), that the bytes the chip has, those on
  their way and those still to be written are the frame (`SentInStep`), and that the bytes
  kept are those of the data part of a read (`KeptInStep`) (`SpiCorrect`). The access
  is taken for the one step of `RegisterAccess` when the frame ends (`AccessCorrect`).
  `StepsLeft` counts 8 for each byte to be written and less for one in a later
  register, and the thread's steps within a turn. A turn could be taken in vain, and the sum
  stay as it is: `LoopHasWork` excludes it, because a byte is still to come
  whenever the loop goes on (`AccessTerminates`), and the device has that byte (`NeverStuck`). The
  exception of both is `EmptyPart`, the data command of an access of 0 bytes, which is
  never left (`EmptyNeverEnds`).
- **`KeyboardApp`**. No report is seen as a newly pressed key (`NeverPressed`),
  so the registers keep their reset values, so ISM stays in state 0. A decimal
  digit fits four bits (`DigitFitsNibble`) and each call keeps the other half of the
  register (`HalvesShown`), hence `DisplayCorrect` for all codes but 0x80.
- **`VideoProofs`**, on `TextDisplay`. `Fetched`: before a pixel edge the memory has sampled the
  address of the present position, because the address changes only at pixel
  edges and the memory samples at both edges of the pixel clock. Hence the
  pixel is right whichever side of the edge the pixel register sees.
  `PulsesCorrect` needs the vertical register beside its line count (`VerticalInv`), and `AddressesCorrect` says that
  a line is the remainder of its address in the bitmap, within the 23 bits (`SdramAssumption`).
- **`VideoProofs`**, on `FractalEngine`. `SelectionLatched` speaks of the
  states after 0, but is decided in state 0. `Selecting`, `Selected` and `Drawing` say what main has
  still to write against the registers and the latch: while a constant is missing the
  transition is not written, at the clock that takes the transition the latch has
  both constants, and afterwards no constant but `Unset` is written (`EngineCorrect`). It
  assumes that neither 0 nor `Unset` is a selection (`SelectionsAssumption`). `FirstPixelCorrect` needs no strengthening.
  `LogarithmCorrect` and `BrightnessCorrect` are about the table of logarithms, whatever the
  engine is driven with: the table rises, and the scaled logarithm never reaches 2, which is as
  far as the test of its bit 16 goes; so the byte cut out of it follows the iteration count. These two
  need no more of the engine than its type invariant.

**Only model-checked.** Liveness (`ComesToRest`, `DispatchReturns`,
`SettleEndsBeforeWrap`, `RunningReportsArrive`, `NeverStalls`,
`CallsReturn`, `AccessEnds`), because TLAPS has no support for
fairness. For `DispatchReturns` (while the chip works) and `AccessEnds` the proofs give the argument that
fairness is added to: a bounded number of steps, and somebody who owes the next one. For `NeverStalls` they give
`NoLostWakeup`. That the steps are taken is left to the runs.
`DeliversReports` says of the composition what `DeliveryCorrect` says of `InTransfer`; it follows from
that and `PollingCorrect` by putting the refinement mapping for the variables.
And the five refutations. Every other property of the passing runs is a theorem.

## 5. Not modelled, and observations beside the runs

Most of the repository's lines are not the project's own logic: generated systems,
the vendor's board support package twice over, and a second copy of the firmware
(`JuliaSetVisualizer_Linux`) whose USB sources are the same files and whose `main.c` differs in
calls of textVGAClr and the wording of a prompt. Register maps, start-up code, the
flash driver and the log of the vendor hold no state of this program. The modules cover
the program, its hardware and the drivers it depends on; a line of the copies
or of generated tables would add nothing to check.

Left out of the modelled parts:

- The bytes of descriptors and strings, and everything that is printed. Result
  codes other than success are one value. The walk of the probes through the
  configuration (HID.c:139) is taken for a well-formed descriptor; a descriptor of
  length 0 would keep it from advancing.
- The oscillator loop of `MAX3421E_reset`, which counts its attempts but does not
  stop at the count. MaxGpxHandler, whose pin is tied to 0, and mousePoll, which nothing calls.
- The Avalon port of the VGA interface, glyphs, colours and segment digits.
- A non-blocking descriptor's flag as set by fcntl, and the file layer above the UART.

Observations:

- WAIT_SOF tests `HIRQ | bmFRAMEIRQ`, which is always true (transfer.c:298).
- 0xff masked is 0xf0, so the error state runs into the `default` case
  (transfer.c:378); the next connection interrupt leaves it.
- The result of reading the whole device descriptor is overwritten (transfer.c:308),
  and a string descriptor is read whether or not its request succeeded (transfer.c:316).
- A left-over BUSEVENTIRQ can, after a disconnect, take the task past the state that clears the
  device table, as it takes a new device past the start of its settle delay (`usb_host_SettleIsTimed`).
- A dispatch or a delay whose deadline lies beyond the largest reading of the clock
  (it is entered in the last 5000 ms or 200 ms before the wrap, every 71.6 minutes) never
  sees it pass: a delay waits for ever, a dispatch does if the chip is dead.
- Reports of several packets would be mixed after an error between two packets,
  because the toggle is saved at the end only (transfer.c:218).
- A read of 0 bytes over SPI never returns (MAXbytes_rd after a packet
  without data, transfer.c:211): `AccessEnds`, `EmptyNeverEnds`.
- altera_avalon_jtag_uart_init.c:157 says that with data still available 'the buffer is full'. RAVAIL
  counts a character that arrives in the very clock in which RVALID is found 0, so the
  receive interrupt may go off with room in the buffer. It is on again when the reader has emptied
  the buffer (`NoLostWakeup`).
- write drops the rest of its characters at the first second without activity of
  the host, even if the handler has just made room (altera_avalon_jtag_uart_write.c:187).
- Code 0x80 has no positive counterpart in a signed character; its digits
  spill into each other's bits. Ordinary keyboards do not send it in normal use.
- The button branch of main.c:194 needs KEY[0], which is the reset, to be pressed.
- In state 1 the program writes 1 to TRANSITION although ISM leaves it at 2; the
  drawing states could not be reached even if the selection worked.
- fractal_calc.sv:55 advances its counters only if `calculating` is 1 and
  `iteration_start` is 0, but line 99 sets the latter whenever the former holds
  (`OnlyFirstPixel`). `z_imag_abs` in iteration_calc.sv:34 is an implicit net of one bit.

## 6. Plan

Done, in the order of importance: `UsbHost` with its proofs; `XferDispatch`,
`Clock` and `SettleTimer`; `InTransfer` with `ReportDelivery`; `KeyboardApp`;
`VgaController` and `TextDisplay`; `Transfers` over `InTransfer`; `JtagUart`; `SystemTimer`;
`SpiCommand`; `FractalEngine`; `Board`.

What is left, should the project go on:

1. The walk of the probes through a configuration descriptor, against a reference
   definition of "first interface, its first endpoint".
2. `Transfers` under `UsbHost`: a request of `UsbHost` as the abstraction of
   the exchange, as `InTransfer` is of the polls.
3. Proofs: the walk of 1 for configurations of every length, and the step from a request of
   `UsbHost` to the exchange of 2.
