---------------------------- MODULE SettleTimer ----------------------------
(***************************************************************************)
(* The settle delay of USB_Task (transfer.c), after which a device that    *)
(* was attached has its bus reset.  UsbHost abstracts the clock away and   *)
(* lets the delay expire at any moment after its start; this module is     *)
(* about the comparison with the clock, which wraps.                       *)
(*                                                                         *)
(* A left-over bus event takes the host past the start of the delay; what  *)
(* it then waits for is the end of the delay that was started last, which  *)
(* may be long over (SettleIsTimed of UsbHost).                            *)
(***************************************************************************)
EXTENDS Clock

CONSTANT SettleTime    \* the 200 of transfer.c:277

ASSUME SettleTimeAssumption == SettleTime \in Nat /\ SettleTime < MaxMs - 1

VARIABLES
  usb_task_state,   \* "ATTACHED", "SETTLE" or "RESET_DEVICE"
  usb_delay,        \* the time of expiry
  ms,               \* reading of the clock
  elapsed           \* observer: ms since the start of the delay that was
                    \* started last, up to SettleTime + 1; so, too, if none was

vars == <<usb_task_state, usb_delay, ms, elapsed>>

\* Fault: the time of expiry is taken modulo the range of the clock.
StartSettleModulo ==
  /\ usb_task_state = "ATTACHED"
  /\ usb_delay' = (ms + SettleTime) % (MaxMs + 1)
  /\ usb_task_state' = "SETTLE"
  /\ elapsed' = 0
  /\ UNCHANGED ms

StartSettle ==
  /\ usb_task_state = "ATTACHED"
  /\ usb_delay' = ms + SettleTime
  /\ usb_task_state' = "SETTLE"
  /\ elapsed' = 0
  /\ UNCHANGED ms

\* Fault: the delay is added a second time where it is compared.
EndSettleTwice ==
  /\ usb_task_state = "SETTLE"
  /\ ms > usb_delay + SettleTime
  /\ usb_task_state' = "RESET_DEVICE"
  /\ UNCHANGED <<usb_delay, ms, elapsed>>

EndSettle ==
  /\ usb_task_state = "SETTLE"
  /\ ms > usb_delay
  /\ usb_task_state' = "RESET_DEVICE"
  /\ UNCHANGED <<usb_delay, ms, elapsed>>

\* MaxIntHandler finds a device attached, later on or while another one settles.
\* With a bus event left over it takes the state on to SETTLE in the same call;
\* UsbHost says when there is one, here there may always be.
Attach ==
  /\ usb_task_state' \in {"ATTACHED", "SETTLE"}
  /\ UNCHANGED <<usb_delay, ms, elapsed>>

Tick ==
  /\ ms' \in NextMs(ms)
  /\ elapsed' = IF elapsed <= SettleTime THEN elapsed + 1 ELSE elapsed
  /\ UNCHANGED <<usb_task_state, usb_delay>>

Init ==
  /\ usb_task_state = "ATTACHED"
  /\ usb_delay = 0
  /\ ms \in 0 .. MaxMs
  /\ elapsed = SettleTime + 1

Next == StartSettle \/ EndSettle \/ Attach \/ Tick

Spec == Init /\ [][Next]_vars

\* The main loop runs without blocking and looks at the clock far more often
\* than it ticks, so a reading that recurs is noticed.  No fairness of Attach.
FairSpec == Spec /\ WF_vars(StartSettle) /\ SF_vars(EndSettle) /\ WF_vars(Tick)

TypeOK ==
  /\ usb_task_state \in {"ATTACHED", "SETTLE", "RESET_DEVICE"}
  /\ usb_delay \in Nat
  /\ ms \in 0 .. MaxMs
  /\ elapsed \in 0 .. SettleTime + 1

\* The clock can fall back while a delay lasts, but never runs ahead.
ExpiryAhead == elapsed <= SettleTime => usb_delay >= ms + (SettleTime - elapsed)

IInv == TypeOK /\ ExpiryAhead

\* The bus is reset only when the delay that was started last has lasted for more
\* than SettleTime, whether or not the clock has wrapped meanwhile, and whatever
\* has been attached since: no reset cuts a delay short.
SettlesLongEnough ==
  [][usb_task_state = "SETTLE" /\ usb_task_state' = "RESET_DEVICE"
       => elapsed > SettleTime]_vars

\* A delay that ends before the last readings of the clock does expire.
SettleEndsBeforeWrap ==
  usb_task_state = "SETTLE" /\ usb_delay < MaxMs - 1 ~> usb_task_state # "SETTLE"

=============================================================================
