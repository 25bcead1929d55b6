------------------------- MODULE XferDispatchProofs -------------------------
(***************************************************************************)
(* Proofs about XferDispatch, for every pair of limits, every deadline and *)
(* every range of the clock that keep BudgetAssumption.                    *)
(***************************************************************************)
EXTENDS XferDispatch, TLAPS

USE MaxMsAssumption, LimitAssumption

\* One more turn takes TurnTime more.
LEMMA OneMoreTurn ==
  ASSUME NEW n \in Nat, NEW t \in Nat
  PROVE  (n + 1) * t = n * t + t /\ n * t \in Nat
OBVIOUS

\* Fewer turns take no longer.
LEMMA FewerTurns ==
  ASSUME NEW a \in Nat, NEW b \in Nat, NEW t \in Nat, a <= b
  PROVE  a * t <= b * t
<1>1. PICK d \in Nat : b = a + d
  <2>1. b - a \in Nat /\ b = a + (b - a)
    OBVIOUS
  <2>2. QED
    BY <2>1
<1>2. b * t = a * t + d * t /\ d * t \in Nat /\ a * t \in Nat
  BY <1>1
<1>3. QED
  BY <1>2

\* The time a dispatch may have used in its last turn is within the deadline:
\* neither limit is reached, so at most all turns but the last are over.
LEMMA InTime ==
  ASSUME IInv, pc \in {"wait", "judge"}, ~NoAnswerWillCome
  PROVE  elapsed < USB_XFER_TIMEOUT
<1> DEFINE Limits == USB_NAK_LIMIT + USB_RETRY_LIMIT
<1>1. /\ launches \in Nat /\ launches + 1 <= Limits
      /\ age \in Nat /\ age <= TurnTime
      /\ elapsed \in Nat /\ elapsed <= launches * TurnTime + age
      /\ Limits \in Nat
  BY DEF IInv, TypeOK, CountsBelowLimits, LaunchesCounted, TurnsAccounted
<1>2. (launches + 1) * TurnTime = launches * TurnTime + TurnTime
      /\ launches * TurnTime \in Nat
  BY <1>1, OneMoreTurn
<1>3. (launches + 1) * TurnTime <= Limits * TurnTime
  BY <1>1, FewerTurns
<1>4. Limits * TurnTime < USB_XFER_TIMEOUT
  BY BudgetAssumption
<1>5. Limits * TurnTime \in Nat
  BY <1>1
<1> HIDE DEF Limits
<1>6. QED
  BY <1>1, <1>2, <1>3, <1>4, <1>5

\* Hence the deadline has not passed.
LEMMA NotPassed ==
  ASSUME IInv, pc \in {"wait", "judge"}, ~NoAnswerWillCome
  PROVE  ~(ms >= timeout)
<1>1. elapsed < USB_XFER_TIMEOUT
  BY InTime
<1>2. timeout >= ms + (USB_XFER_TIMEOUT - elapsed)
  BY <1>1 DEF IInv, DeadlineAhead
<1>3. QED
  BY <1>1, <1>2 DEF IInv, TypeOK

LEMMA InitIInv == Init => IInv
<1> SUFFICES ASSUME Init PROVE IInv
  OBVIOUS
<1> USE DEF Init
<1>1. TypeOK
  <2>1. HXFRDNIRQ \in BOOLEAN /\ alive \in BOOLEAN /\ fresh \in BOOLEAN
    BY Zenon
  <2>2. QED
    BY <2>1 DEF TypeOK, Results
<1>2. CountsBelowLimits /\ TurnsAccounted /\ DeadlineAhead
  BY DEF CountsBelowLimits, TurnsAccounted, DeadlineAhead
<1>3. LaunchesCounted
  BY DEF LaunchesCounted
<1>4. InterruptIsFresh /\ LiveChipAnswers
  BY DEF InterruptIsFresh, LiveChipAnswers, TIMED_OUT, hrSUCCESS
<1>5. QED
  BY <1>1, <1>2, <1>3, <1>4 DEF IInv

-----------------------------------------------------------------------------
(***************************************************************************)
(* One lemma for each step that IInv does not survive at a glance.         *)
(***************************************************************************)
LEMMA EnterIInv == IInv /\ Enter => IInv'
<1> SUFFICES ASSUME IInv, Enter PROVE IInv'
  OBVIOUS
<1> USE DEF IInv, Enter, chipVars
<1>1. TypeOK'
  BY DEF TypeOK
<1>2. CountsBelowLimits'
  BY DEF CountsBelowLimits
<1>3. LaunchesCounted'
  BY DEF LaunchesCounted
<1>4. TurnsAccounted'
  BY DEF TurnsAccounted
<1>5. DeadlineAhead'
  BY DEF DeadlineAhead, TypeOK
<1>6. InterruptIsFresh' /\ LiveChipAnswers'
  BY DEF InterruptIsFresh, LiveChipAnswers
<1>7. QED
  BY <1>1, <1>2, <1>3, <1>4, <1>5, <1>6

LEMMA LaunchIInv == IInv /\ Launch => IInv'
<1> SUFFICES ASSUME IInv, Launch PROVE IInv'
  OBVIOUS
<1> USE DEF IInv, Launch, callVars
<1>1. TypeOK'
  <2>1. fresh' \in BOOLEAN
    BY Zenon
  <2>2. launches' \in Nat /\ age' \in 0 .. TurnTime
    BY DEF TypeOK
  <2>3. QED
    BY <2>1, <2>2 DEF TypeOK
<1>2. CountsBelowLimits' /\ LaunchesCounted'
  BY DEF CountsBelowLimits, LaunchesCounted
<1>3. TurnsAccounted'
  <2>1. elapsed <= launches * TurnTime + age
    BY DEF TurnsAccounted, NoAnswerWillCome
  <2>2. launches \in Nat /\ age \in Nat /\ age <= TurnTime /\ elapsed \in Nat /\ TurnTime \in Nat
    BY DEF TypeOK
  <2>3. (launches + 1) * TurnTime = launches * TurnTime + TurnTime /\ launches * TurnTime \in Nat
    BY <2>2, OneMoreTurn
  <2>4. elapsed <= (launches + 1) * TurnTime
    BY <2>1, <2>2, <2>3
  <2>5. elapsed' = elapsed /\ launches' = launches + 1 /\ age' = 0
    OBVIOUS
  <2>6. elapsed' <= launches' * TurnTime + age'
    BY <2>2, <2>4, <2>5
  <2>7. QED
    BY <2>6 DEF TurnsAccounted
<1>4. DeadlineAhead'
  BY DEF DeadlineAhead
<1>5. InterruptIsFresh' /\ LiveChipAnswers'
  BY DEF InterruptIsFresh, LiveChipAnswers
<1>6. QED
  BY <1>1, <1>2, <1>3, <1>4, <1>5

LEMMA DeadlineIInv == IInv /\ DeadlinePasses => IInv'
<1> SUFFICES ASSUME IInv, DeadlinePasses PROVE IInv'
  OBVIOUS
<1> USE DEF DeadlinePasses, Return
<1>1. NoAnswerWillCome
  BY NotPassed
<1>2. TypeOK'
  BY DEF IInv, TypeOK, chipVars, timeVars
<1>3. CountsBelowLimits' /\ LaunchesCounted' /\ TurnsAccounted' /\ DeadlineAhead'
  BY DEF IInv, TypeOK, CountsBelowLimits, LaunchesCounted, TurnsAccounted, DeadlineAhead
<1>4. InterruptIsFresh' /\ LiveChipAnswers'
  BY <1>1 DEF IInv, InterruptIsFresh, LiveChipAnswers, NoAnswerWillCome, chipVars
<1>5. QED
  BY <1>2, <1>3, <1>4 DEF IInv

LEMMA TransferDoneIInv == IInv /\ TransferDone => IInv'
<1> SUFFICES ASSUME IInv, TransferDone PROVE IInv'
  OBVIOUS
<1> USE DEF IInv, TransferDone, callVars, timeVars
<1>1. TypeOK'
  BY DEF TypeOK
<1>2. CountsBelowLimits' /\ LaunchesCounted'
  BY DEF CountsBelowLimits, LaunchesCounted
<1>3. TurnsAccounted'
  BY DEF TurnsAccounted, NoAnswerWillCome
<1>4. DeadlineAhead'
  BY DEF DeadlineAhead
<1>5. InterruptIsFresh' /\ LiveChipAnswers'
  BY DEF InterruptIsFresh, LiveChipAnswers
<1>6. QED
  BY <1>1, <1>2, <1>3, <1>4, <1>5

LEMMA JudgeIInv == IInv /\ Judge => IInv'
<1> SUFFICES ASSUME IInv, Judge PROVE IInv'
  OBVIOUS
<1> USE DEF IInv, Judge, chipVars, timeVars
<1>1. (nak_count' = nak_count + 1 /\ retry_count' = retry_count)
      \/ (nak_count' = nak_count /\ retry_count' = retry_count + 1)
      \/ (nak_count' = nak_count /\ retry_count' = retry_count /\ pc' = "idle")
  BY DEF Count, Return
<1>2. \/ pc' = "idle" /\ rcode' \in Results
      \/ pc' = "launch" /\ rcode' = rcode
  BY DEF Count, Return, Relaunch, TypeOK, Results
<1>3. pc' = "launch" => nak_count' # USB_NAK_LIMIT /\ retry_count' # USB_RETRY_LIMIT
  BY DEF Count, Return, Relaunch, CountsBelowLimits
<1>4. nak_count < USB_NAK_LIMIT /\ retry_count < USB_RETRY_LIMIT
      /\ nak_count \in Nat /\ retry_count \in Nat
  BY DEF CountsBelowLimits, TypeOK
<1>5. TypeOK'
  <2>1. nak_count' \in 0 .. USB_NAK_LIMIT /\ retry_count' \in 0 .. USB_RETRY_LIMIT
    BY <1>1, <1>4
  <2>2. QED
    BY <1>2, <2>1 DEF TypeOK
<1>6. CountsBelowLimits'
  <2> SUFFICES ASSUME pc' = "launch"
               PROVE  nak_count' < USB_NAK_LIMIT /\ retry_count' < USB_RETRY_LIMIT
    BY <1>2 DEF CountsBelowLimits
  <2>1. CASE nak_count' = nak_count + 1 /\ retry_count' = retry_count
    BY <1>3, <1>4, <2>1
  <2>2. CASE nak_count' = nak_count /\ retry_count' = retry_count + 1
    BY <1>3, <1>4, <2>2
  <2>3. QED
    BY <1>1, <2>1, <2>2
<1>7. LaunchesCounted'
  BY <1>1, <1>2, <1>4 DEF LaunchesCounted
<1>8. TurnsAccounted'
  BY DEF TurnsAccounted, NoAnswerWillCome
<1>9. DeadlineAhead'
  BY DEF DeadlineAhead
<1>10. InterruptIsFresh' /\ LiveChipAnswers'
  BY <1>2 DEF InterruptIsFresh, LiveChipAnswers, Results, TIMED_OUT,
              hrSUCCESS, hrNAK, hrTIMEOUT, hrOther
<1>11. QED
  BY <1>5, <1>6, <1>7, <1>8, <1>9, <1>10

LEMMA TickIInv == IInv /\ Tick => IInv'
<1> SUFFICES ASSUME IInv, Tick PROVE IInv'
  OBVIOUS
<1> USE DEF IInv, Tick, callVars, chipVars
<1>1. ms' = ms + 1 \/ ms' = 0
  BY DEF NextMs
<1>2. TypeOK'
  BY DEF TypeOK, NextMs, Upto
<1>3. CountsBelowLimits' /\ LaunchesCounted'
  BY DEF CountsBelowLimits, LaunchesCounted
<1>4. TurnsAccounted'
  <2> SUFFICES ASSUME pc # "idle", ~NoAnswerWillCome
               PROVE  elapsed' <= launches' * TurnTime + age'
    BY DEF TurnsAccounted, NoAnswerWillCome
  <2>1. age' = age + 1 /\ launches' = launches
    BY DEF Upto
  <2>2. elapsed' = elapsed + 1 \/ elapsed' = elapsed
    BY DEF Upto
  <2>3. elapsed <= launches * TurnTime + age /\ launches * TurnTime \in Nat
    BY DEF TurnsAccounted, TypeOK
  <2>4. elapsed + 1 <= launches * TurnTime + (age + 1)
    BY <2>3 DEF TypeOK
  <2>5. elapsed <= launches * TurnTime + (age + 1)
    BY <2>3 DEF TypeOK
  <2>6. QED
    BY <2>1, <2>2, <2>4, <2>5
<1>5. DeadlineAhead'
  <2> SUFFICES ASSUME pc # "idle", elapsed' < USB_XFER_TIMEOUT
               PROVE  timeout' >= ms' + (USB_XFER_TIMEOUT - elapsed')
    BY DEF DeadlineAhead
  <2>1. elapsed' = elapsed + 1 /\ elapsed < USB_XFER_TIMEOUT
    BY DEF Upto, TypeOK
  <2>2. timeout >= ms + (USB_XFER_TIMEOUT - elapsed)
    BY <2>1 DEF DeadlineAhead
  <2>3. timeout >= (ms + 1) + (USB_XFER_TIMEOUT - (elapsed + 1))
        /\ timeout >= 0 + (USB_XFER_TIMEOUT - (elapsed + 1))
    BY <2>1, <2>2 DEF TypeOK
  <2>4. QED
    BY <1>1, <2>1, <2>3
<1>6. InterruptIsFresh' /\ LiveChipAnswers'
  BY DEF InterruptIsFresh, LiveChipAnswers
<1>7. QED
  BY <1>2, <1>3, <1>4, <1>5, <1>6

\* Completion and death of the chip.
LEMMA ChipIInv == IInv /\ (Complete \/ Die) => IInv'
<1> SUFFICES ASSUME IInv, Complete \/ Die PROVE IInv'
  OBVIOUS
<1> USE DEF IInv, Complete, Die, callVars, timeVars
<1>1. TypeOK'
  BY DEF TypeOK
<1>2. CountsBelowLimits' /\ LaunchesCounted'
  BY DEF CountsBelowLimits, LaunchesCounted
<1>3. TurnsAccounted'
  BY DEF TurnsAccounted, NoAnswerWillCome
<1>4. DeadlineAhead'
  BY DEF DeadlineAhead
<1>5. InterruptIsFresh' /\ LiveChipAnswers'
  BY DEF InterruptIsFresh, LiveChipAnswers
<1>6. QED
  BY <1>1, <1>2, <1>3, <1>4, <1>5

LEMMA NextIInv == IInv /\ [Next]_vars => IInv'
<1> SUFFICES ASSUME IInv, [Next]_vars PROVE IInv'
  OBVIOUS
<1>1. CASE Next
  BY <1>1, EnterIInv, LaunchIInv, DeadlineIInv, TransferDoneIInv, JudgeIInv, TickIInv, ChipIInv
     DEF Next, Call
<1>2. CASE UNCHANGED vars
  BY <1>2 DEF vars, callVars, chipVars, timeVars, IInv, TypeOK, CountsBelowLimits,
              LaunchesCounted, TurnsAccounted, DeadlineAhead, InterruptIsFresh,
              LiveChipAnswers, NoAnswerWillCome
<1>3. QED
  BY <1>1, <1>2

-----------------------------------------------------------------------------
\* The inductive invariant of XferDispatchPkt holds in every state.
THEOREM InductiveInvariant == Spec => []IInv
BY InitIInv, NextIInv, PTL DEF Spec

\* Every variable of XferDispatchPkt keeps its type: the two counters of the
\* C function stay within a BYTE and a char.
THEOREM TypeCorrect == Spec => []TypeOK
<1>1. IInv => TypeOK
  BY DEF IInv
<1>2. QED
  BY <1>1, InductiveInvariant, PTL

\* XferDispatchPkt never judges a result that is not of its last launch.
THEOREM ResultCorrect == Spec => []ResultIsOwn
<1>1. IInv => ResultIsOwn
  BY DEF IInv, InterruptIsFresh, ResultIsOwn
<1>2. QED
  BY <1>1, InductiveInvariant, PTL

\* XferDispatchPkt launches a packet fewer times than its two limits together.
THEOREM LaunchesCorrect == Spec => []LaunchesBounded
<1>1. IInv => LaunchesBounded
  BY DEF IInv, TypeOK, CountsBelowLimits, LaunchesCounted, LaunchesBounded
<1>2. QED
  BY <1>1, InductiveInvariant, PTL

\* XferDispatchPkt never returns 0xff while the chip works.
THEOREM LiveChipCorrect == Spec => []LiveChipAnswers
<1>1. IInv => LiveChipAnswers
  BY DEF IInv
<1>2. QED
  BY <1>1, InductiveInvariant, PTL

\* XferDispatchPkt never returns 0xff before USB_XFER_TIMEOUT has elapsed.
THEOREM TimeoutCorrect == Spec => NoEarlyTimeout
<1>1. IInv /\ [Next]_vars
        => [pc = "wait" /\ pc' = "idle" => elapsed >= USB_XFER_TIMEOUT]_vars
  <2> SUFFICES ASSUME IInv, Next, pc = "wait", pc' = "idle"
               PROVE  elapsed >= USB_XFER_TIMEOUT
    BY DEF vars
  <2>1. DeadlinePasses
    BY DEF Next, Call, Enter, Launch, TransferDone, Judge, Complete, Die, Tick
  <2>2. QED
    BY <2>1 DEF DeadlinePasses, IInv, TypeOK, DeadlineAhead
<1>2. QED
  BY <1>1, InductiveInvariant, PTL DEF Spec, NoEarlyTimeout

(***************************************************************************)
(* Why a dispatch returns: every step of the call and every answer of the  *)
(* chip takes away one of the steps that are left, and the call never      *)
(* waits for a live chip that owes it nothing.  (What is left to the run   *)
(* is that the steps are taken, and a chip that dies.)                     *)
(***************************************************************************)
TurnsLeft == USB_NAK_LIMIT + USB_RETRY_LIMIT - nak_count - retry_count

Step == CASE pc = "launch" -> 4 [] pc = "wait" /\ ~HXFRDNIRQ -> 3
          [] pc = "wait" /\ HXFRDNIRQ -> 2 [] pc = "judge" -> 1 [] OTHER -> 0

\* Steps that a dispatch under way has left at most: each turn takes 4.
StepsLeft == IF pc = "idle" THEN 0 ELSE 5 * TurnsLeft + Step

\* Every step of the call, and every answer of the chip, takes away one of the
\* steps that the dispatch has left.
DispatchShrinks ==
  [][Call \/ Complete => StepsLeft' < StepsLeft /\ 0 <= StepsLeft']_vars

LEMMA SumFalls ==
  ASSUME NEW t \in Int, NEW a \in Int, NEW b \in Int, a < b
  PROVE  5 * t + a < 5 * t + b
OBVIOUS

LEMMA StepsCounted ==
  ASSUME IInv
  PROVE  /\ TurnsLeft \in Int /\ Step \in Int
         /\ 0 <= Step
         /\ pc # "idle" => TurnsLeft >= 2 /\ 1 <= Step
         /\ StepsLeft \in Int /\ 0 <= StepsLeft
<1>1. nak_count \in Int /\ retry_count \in Int /\ USB_NAK_LIMIT \in Int /\ USB_RETRY_LIMIT \in Int
  BY LimitAssumption DEF IInv, TypeOK
<1>2. pc # "idle" => nak_count < USB_NAK_LIMIT /\ retry_count < USB_RETRY_LIMIT
  BY DEF IInv, CountsBelowLimits
<1>3. TurnsLeft \in Int /\ (pc # "idle" => TurnsLeft >= 2)
  BY <1>1, <1>2 DEF TurnsLeft
<1>4. Step \in Int /\ 0 <= Step /\ (pc # "idle" => 1 <= Step)
  BY DEF IInv, TypeOK, Step
<1> QED BY <1>3, <1>4 DEF StepsLeft

LEMMA StepsCountedNext == IInv' => StepsLeft' \in Int /\ 0 <= StepsLeft'
<1>1. IInv => StepsLeft \in Int /\ 0 <= StepsLeft
  BY StepsCounted
<1>2. (IInv => StepsLeft \in Int /\ 0 <= StepsLeft)'
  BY <1>1, PTL
<1> QED BY <1>2

\* A packet given up or answered leaves fewer steps; one launched again has used
\* up a turn of the NAKs or of the bus timeouts.
LEMMA StepsFall ==
  ASSUME IInv, Call \/ Complete
  PROVE  StepsLeft' < StepsLeft
<1>0. Complete => pc = "wait" /\ ~HXFRDNIRQ
  BY DEF Complete, IInv, InterruptIsFresh
<1>1. TurnsLeft \in Int /\ Step \in Int /\ (pc # "idle" => TurnsLeft >= 2 /\ 1 <= Step)
  BY StepsCounted
<1>2. CASE pc' = "idle"
  <2>1. pc # "idle" /\ StepsLeft' = 0
    BY <1>0, <1>2 DEF StepsLeft, Call, Launch, DeadlinePasses, TransferDone, Judge, Complete
  <2> QED BY <1>1, <2>1 DEF StepsLeft
<1>3. CASE Launch \/ TransferDone \/ Complete
  <2>1. TurnsLeft' = TurnsLeft
    BY <1>3 DEF Launch, TransferDone, Complete, callVars, TurnsLeft
  <2>2. Step' \in Int /\ Step' < Step
    <3>1. CASE Launch
      <4>1. Step = 4 /\ (Step' = 3 \/ Step' = 2)
        BY <3>1 DEF Launch, Step
      <4> QED BY <4>1
    <3>2. CASE TransferDone
      <4>1. Step = 2 /\ Step' = 1
        BY <3>2 DEF TransferDone, Step
      <4> QED BY <4>1
    <3>3. CASE Complete
      <4>1. Step = 3 /\ Step' = 2
        BY <1>0, <3>3 DEF Complete, Step
      <4> QED BY <4>1
    <3> QED BY <1>3, <3>1, <3>2, <3>3
  <2>3. pc # "idle" /\ pc' # "idle"
    BY <1>0, <1>3 DEF Launch, TransferDone, Complete
  <2>4. StepsLeft = 5 * TurnsLeft + Step /\ StepsLeft' = 5 * TurnsLeft + Step'
    BY <2>1, <2>3, Zenon DEF StepsLeft
  <2> QED BY <1>1, <2>2, <2>4, SumFalls, Zenon
<1>4. CASE Judge /\ pc' # "idle"
  <2>1. /\ pc = "judge" /\ pc' = "launch"
        /\ \/ nak_count' = nak_count + 1 /\ retry_count' = retry_count
           \/ retry_count' = retry_count + 1 /\ nak_count' = nak_count
    BY <1>4 DEF Judge, Count, Return, Relaunch
  <2>2. nak_count \in Int /\ retry_count \in Int /\ USB_NAK_LIMIT \in Int
        /\ USB_RETRY_LIMIT \in Int
    BY LimitAssumption DEF IInv, TypeOK
  <2>3. TurnsLeft' = TurnsLeft - 1
    BY <2>1, <2>2 DEF TurnsLeft
  <2>4. Step = 1 /\ Step' = 4
    BY <2>1 DEF Step
  <2> QED BY <1>1, <2>1, <2>3, <2>4 DEF StepsLeft
<1> QED BY <1>2, <1>3, <1>4 DEF Call, DeadlinePasses, Return

\* A dispatch takes a bounded number of steps, whatever the chip answers: no run
\* of NAKs and bus timeouts, mixed in any order, keeps it going.
THEOREM DispatchTerminates == Spec => DispatchShrinks
<1>1. IInv /\ IInv' /\ [Next]_vars
        => [Call \/ Complete => StepsLeft' < StepsLeft /\ 0 <= StepsLeft']_vars
  BY StepsFall, StepsCountedNext
<1> QED BY <1>1, InductiveInvariant, PTL DEF Spec, DispatchShrinks

\* The poll of a live chip sees the answer already, or the chip still owes it.
ChipOwes == pc = "wait" /\ alive => HXFRDNIRQ \/ chip = "busy"

THEOREM AnswerComes == Spec => []ChipOwes
<1>1. Init => ChipOwes
  BY DEF Init, ChipOwes
<1>2. ChipOwes /\ [Next]_vars => ChipOwes'
  <2> SUFFICES ASSUME ChipOwes, [Next]_vars PROVE ChipOwes'
    OBVIOUS
  <2>1. CASE Enter \/ Launch \/ DeadlinePasses \/ TransferDone
    BY <2>1 DEF Enter, Launch, DeadlinePasses, Return, TransferDone, ChipOwes
  <2>2. CASE Judge
    BY <2>2 DEF Judge, Count, Return, Relaunch, ChipOwes
  <2>3. CASE Complete \/ Die \/ Tick \/ UNCHANGED vars
    BY <2>3 DEF Complete, Die, Tick, vars, callVars, chipVars, ChipOwes
  <2> QED BY <2>1, <2>2, <2>3 DEF Next, Call
<1> QED BY <1>1, <1>2, PTL DEF Spec
=============================================================================
