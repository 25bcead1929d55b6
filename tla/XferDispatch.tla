---------------------------- MODULE XferDispatch ----------------------------
(***************************************************************************)
(* XferDispatchPkt of transfer.c: a packet is launched, the chip is polled *)
(* for its completion until a deadline on the millisecond clock, and a NAK *)
(* or a bus timeout launches it again, up to a limit each.                 *)
(*                                                                         *)
(* Beside the program run the clock, which wraps, and the chip, which      *)
(* completes what is launched with any result, and which may die.  While   *)
(* it lives, entering the call and each turn after that (the launch, the   *)
(* chip's answer, and the program's steps up to the next launch) take at   *)
(* most TurnTime milliseconds.                                             *)
(***************************************************************************)
EXTENDS Clock

CONSTANTS
  USB_XFER_TIMEOUT,   \* time a dispatch may take, in ms
  USB_NAK_LIMIT,      \* the NAK that is given up at
  USB_RETRY_LIMIT,    \* the bus timeout that is given up at
  TurnTime            \* longest turn of a live chip, in ms

ASSUME LimitAssumption ==
  /\ USB_XFER_TIMEOUT \in Nat
  /\ USB_NAK_LIMIT \in 1 .. 255         \* nak_count is a BYTE
  /\ USB_RETRY_LIMIT \in 1 .. 127       \* retry_count is a char
  /\ TurnTime \in Nat \ {0}

\* The most turns that neither limit stops fit into the deadline.
ASSUME BudgetAssumption ==
  (USB_NAK_LIMIT + USB_RETRY_LIMIT) * TurnTime < USB_XFER_TIMEOUT

VARIABLES
  pc,            \* "idle" between dispatches, or the next step of the call
  rcode,         \* what the last dispatch returned
  timeout,       \* the deadline
  nak_count, retry_count,
  ms,            \* reading of the clock
  chip,          \* MAX3421E: is it carrying out a transfer
  HXFRDNIRQ,     \* MAX3421E: the transfer-done interrupt bit
  HRSL,          \* MAX3421E: result of the last transfer
  alive,         \* the chip still works
  \* Observers, which no step depends on but Tick:
  fresh,         \* HRSL is the result of the last launch
  launches,      \* number of launches of this dispatch
  elapsed,       \* ms since the dispatch was entered, up to USB_XFER_TIMEOUT
  age            \* ms since the last launch, up to TurnTime

callVars == <<rcode, timeout, nak_count, retry_count>>
chipVars == <<chip, HXFRDNIRQ, HRSL, alive>>
timeVars == <<ms, elapsed, age>>
vars == <<pc, callVars, chipVars, timeVars, fresh, launches>>

hrSUCCESS == "ok"
hrNAK     == "nak"
hrTIMEOUT == "timeout"
hrOther   == "error"            \* any other result code
Results   == {hrSUCCESS, hrNAK, hrTIMEOUT, hrOther}
TIMED_OUT == "ff"

-----------------------------------------------------------------------------
\* Fault: the deadline is taken modulo the range of the clock.
EnterModulo ==
  /\ pc = "idle"
  /\ timeout' = (ms + USB_XFER_TIMEOUT) % (MaxMs + 1)
  /\ nak_count' = 0 /\ retry_count' = 0
  /\ launches' = 0 /\ elapsed' = 0 /\ age' = 0
  /\ pc' = "launch"
  /\ UNCHANGED <<rcode, chipVars, ms, fresh>>

\* ms is a DWORD that stays below MaxMs, so the sum does not overflow.
Enter ==
  /\ pc = "idle"
  /\ timeout' = ms + USB_XFER_TIMEOUT
  /\ nak_count' = 0 /\ retry_count' = 0
  /\ launches' = 0 /\ elapsed' = 0 /\ age' = 0
  /\ pc' = "launch"
  /\ UNCHANGED <<rcode, chipVars, ms, fresh>>

Launch ==
  /\ pc = "launch"
  /\ chip' = "busy"
  /\ fresh' = FALSE
  /\ launches' = launches + 1
  /\ age' = 0
  /\ pc' = "wait"
  /\ UNCHANGED <<callVars, HXFRDNIRQ, HRSL, alive, ms, elapsed>>

Return(r) == pc' = "idle" /\ rcode' = r

\* The deadline is looked at before the interrupt bit.
DeadlinePasses ==
  /\ pc = "wait"
  /\ ms >= timeout
  /\ Return(TIMED_OUT)
  /\ UNCHANGED <<timeout, nak_count, retry_count, chipVars, timeVars, fresh, launches>>

\* Fault: the interrupt bit is not cleared.
TransferDoneLeftSet ==
  /\ pc = "wait"
  /\ ms < timeout
  /\ HXFRDNIRQ
  /\ pc' = "judge"
  /\ UNCHANGED <<callVars, chipVars, timeVars, fresh, launches>>

\* Fault: only a successful transfer counts as done.
TransferDoneIfSuccess ==
  /\ pc = "wait"
  /\ ms < timeout
  /\ HXFRDNIRQ
  /\ HRSL = hrSUCCESS
  /\ HXFRDNIRQ' = FALSE
  /\ pc' = "judge"
  /\ UNCHANGED <<callVars, chip, HRSL, alive, timeVars, fresh, launches>>

TransferDone ==
  /\ pc = "wait"
  /\ ms < timeout
  /\ HXFRDNIRQ
  /\ HXFRDNIRQ' = FALSE
  /\ pc' = "judge"
  /\ UNCHANGED <<callVars, chip, HRSL, alive, timeVars, fresh, launches>>

Relaunch == pc' = "launch" /\ UNCHANGED rcode

\* Fault: a NAK shows that the device is there, so the retries start anew.
CountForgetful ==
  \/ /\ HRSL = hrNAK
     /\ nak_count' = nak_count + 1
     /\ retry_count' = 0
     /\ IF nak_count' = USB_NAK_LIMIT THEN Return(hrNAK) ELSE Relaunch
  \/ /\ HRSL = hrTIMEOUT
     /\ retry_count' = retry_count + 1
     /\ nak_count' = 0
     /\ IF retry_count' = USB_RETRY_LIMIT THEN Return(hrTIMEOUT) ELSE Relaunch
  \/ /\ HRSL \notin {hrNAK, hrTIMEOUT}
     /\ Return(HRSL)
     /\ UNCHANGED <<nak_count, retry_count>>

Count ==
  \/ /\ HRSL = hrNAK
     /\ nak_count' = nak_count + 1
     /\ IF nak_count' = USB_NAK_LIMIT THEN Return(hrNAK) ELSE Relaunch
     /\ UNCHANGED retry_count
  \/ /\ HRSL = hrTIMEOUT
     /\ retry_count' = retry_count + 1
     /\ IF retry_count' = USB_RETRY_LIMIT THEN Return(hrTIMEOUT) ELSE Relaunch
     /\ UNCHANGED nak_count
  \/ /\ HRSL \notin {hrNAK, hrTIMEOUT}
     /\ Return(HRSL)
     /\ UNCHANGED <<nak_count, retry_count>>

Judge ==
  /\ pc = "judge"
  /\ Count
  /\ UNCHANGED <<timeout, chipVars, timeVars, fresh, launches>>

-----------------------------------------------------------------------------
Complete ==
  /\ alive
  /\ chip = "busy"
  /\ chip' = "ready"
  /\ HXFRDNIRQ' = TRUE
  /\ HRSL' \in Results
  /\ fresh' = TRUE
  /\ UNCHANGED <<pc, callVars, alive, timeVars, launches>>

Die ==
  /\ alive
  /\ alive' = FALSE
  /\ UNCHANGED <<pc, callVars, chip, HXFRDNIRQ, HRSL, timeVars, fresh, launches>>

\* Nothing bounds the wait for a chip that died before it answered.
NoAnswerWillCome == pc = "wait" /\ ~alive /\ ~HXFRDNIRQ

Upto(n, max) == IF n < max THEN n + 1 ELSE n

Tick ==
  /\ pc = "idle" \/ age < TurnTime \/ NoAnswerWillCome
  /\ ms' \in NextMs(ms)
  /\ IF pc = "idle"
     THEN UNCHANGED <<elapsed, age>>
     ELSE /\ elapsed' = Upto(elapsed, USB_XFER_TIMEOUT)
          /\ age' = Upto(age, TurnTime)
  /\ UNCHANGED <<pc, callVars, chipVars, fresh, launches>>

-----------------------------------------------------------------------------
Init ==
  /\ pc = "idle" /\ rcode = hrSUCCESS /\ timeout = 0
  /\ nak_count = 0 /\ retry_count = 0
  /\ ms \in 0 .. MaxMs
  /\ chip = "ready" /\ HXFRDNIRQ = FALSE /\ HRSL = hrSUCCESS
  /\ alive = TRUE /\ fresh = TRUE
  /\ launches = 0 /\ elapsed = 0 /\ age = 0

Call == Launch \/ DeadlinePasses \/ TransferDone \/ Judge

Next == Enter \/ Call \/ Complete \/ Die \/ Tick

Spec == Init /\ [][Next]_vars

(***************************************************************************)
(* The call runs without blocking, a live chip answers, and time passes.   *)
(* A turn of the polling loop takes microseconds, so a deadline that the   *)
(* clock reaches again and again is noticed.                               *)
(***************************************************************************)
FairSpec ==
  Spec /\ WF_vars(Call) /\ WF_vars(Complete) /\ WF_vars(Tick) /\ SF_vars(DeadlinePasses)

-----------------------------------------------------------------------------
TypeOK ==
  /\ pc \in {"idle", "launch", "wait", "judge"}
  /\ rcode \in Results \cup {TIMED_OUT}
  /\ timeout \in Nat
  /\ nak_count \in 0 .. USB_NAK_LIMIT
  /\ retry_count \in 0 .. USB_RETRY_LIMIT
  /\ ms \in 0 .. MaxMs
  /\ chip \in {"ready", "busy"} /\ HXFRDNIRQ \in BOOLEAN
  /\ HRSL \in Results /\ alive \in BOOLEAN /\ fresh \in BOOLEAN
  /\ launches \in Nat
  /\ elapsed \in 0 .. USB_XFER_TIMEOUT
  /\ age \in 0 .. TurnTime

(***************************************************************************)
(* Safety.                                                                 *)
(***************************************************************************)

\* The result XferDispatchPkt judges is that of the packet it launched last,
\* never one left over from an earlier launch or an earlier dispatch: no
\* answer comes late enough to leave HXFRDNIRQ set behind a timeout.
ResultIsOwn == pc = "judge" => fresh

\* NAKs and bus timeouts in any order, the packet is launched fewer times
\* than the two limits together.
LaunchesBounded == launches < USB_NAK_LIMIT + USB_RETRY_LIMIT

\* A chip that works is never reported as timed out, however many NAKs and
\* retries the dispatch goes through and wherever the clock wraps.
LiveChipAnswers == rcode = TIMED_OUT => ~alive

\* Timeout is reported only after USB_XFER_TIMEOUT, even if the clock wraps
\* during the dispatch.
NoEarlyTimeout ==
  [][pc = "wait" /\ pc' = "idle" => elapsed >= USB_XFER_TIMEOUT]_vars

(***************************************************************************)
(* The inductive invariant behind them.                                    *)
(***************************************************************************)
CountsBelowLimits ==
  pc # "idle" => nak_count < USB_NAK_LIMIT /\ retry_count < USB_RETRY_LIMIT

\* Every launch but the one under way was answered by a NAK or a timeout.
LaunchesCounted ==
  /\ pc = "launch" => launches = nak_count + retry_count
  /\ pc \in {"wait", "judge"} => launches = nak_count + retry_count + 1
  /\ pc = "idle" => launches < USB_NAK_LIMIT + USB_RETRY_LIMIT

\* The turns so far account for the time that has passed.
TurnsAccounted ==
  pc # "idle" /\ ~NoAnswerWillCome => elapsed <= launches * TurnTime + age

\* The clock can fall back, but it never runs ahead of the deadline.
DeadlineAhead ==
  pc # "idle" /\ elapsed < USB_XFER_TIMEOUT => timeout >= ms + (USB_XFER_TIMEOUT - elapsed)

\* The interrupt bit is set only between an answer and the poll that sees it.
InterruptIsFresh ==
  /\ HXFRDNIRQ => pc = "wait" /\ fresh /\ chip = "ready"
  /\ chip = "busy" => pc = "wait" \/ ~alive
  /\ pc = "judge" => fresh

IInv ==
  /\ TypeOK
  /\ CountsBelowLimits
  /\ LaunchesCounted
  /\ TurnsAccounted
  /\ DeadlineAhead
  /\ InterruptIsFresh
  /\ LiveChipAnswers

(***************************************************************************)
(* Liveness.                                                               *)
(***************************************************************************)

\* Every dispatch returns, as long as the chip works; with a dead chip it does
\* when its deadline is one that the clock reaches before it falls back.  (With
\* a later deadline the call polls a dead chip for ever.)
DispatchReturns == pc # "idle" ~> pc = "idle" \/ (~alive /\ timeout >= MaxMs)
=============================================================================
