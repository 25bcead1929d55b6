---------------------------- MODULE SystemTimer ----------------------------
(***************************************************************************)
(* The system clock of the board support package: the interval timer, its  *)
(* interrupt handler alt_avalon_timer_sc_irq, the tick counter and the     *)
(* alarms of alt_tick and alt_alarm_start; composed with the settle delay, *)
(* which reads the counter through the arithmetic of Clock.                *)
(*                                                                         *)
(* Interrupts may be held off for longer than a period of the timer: its   *)
(* flag holds one timeout, and the others are lost.                        *)
(***************************************************************************)
EXTENDS SettleTimer

CONSTANTS
  Word,         \* 2^32
  Scale,        \* 1000, both the factor and the ticks per second
  Alarms,       \* alarms: one, of the JTAG UART
  Periods       \* numbers of ticks they are started for or ask for

ASSUME WordAssumption == Word \in Nat /\ Scale \in Nat \ {0} /\ MaxMs = (Word - 1) \div Scale
ASSUME PeriodsAssumption == Periods \subseteq 1 .. Word - 2

VARIABLES
  TO,           \* status of the timer: a timeout not yet served
  nticks,       \* _alt_nticks
  alarm,        \* the alarms: in the list, time, rollover
  fired,        \* observer: the alarms called by the last tick
  real          \* observer: timeouts since the start of the delay, as elapsed

settleVars == <<usb_task_state, usb_delay, ms, elapsed>>
timerVars == <<TO, nticks, alarm, fired>>
allVars == <<settleVars, timerVars, real>>

AC == INSTANCE AlarmClock WITH
        left <- [a \in Alarms |-> IF alarm[a].on THEN (alarm[a].time - nticks) % Word ELSE 0]
-----------------------------------------------------------------------------
\* Fault: the overflow of the time is not noticed.
AlarmAtBlind(time, now) == [on |-> TRUE, time |-> time % Word, rollover |-> FALSE]

\* An alarm due at a time that may lie beyond the end of the counter.
AlarmAt(time, now) == [on |-> TRUE, time |-> time % Word, rollover |-> time % Word < now]

\* An alarm that is in the list must not be started again.
alt_alarm_start == \E a \in Alarms, n \in Periods :
  /\ ~alarm[a].on
  /\ alarm' = [alarm EXCEPT ![a] = AlarmAt(n + nticks + 1, nticks)]
  /\ UNCHANGED <<settleVars, TO, nticks, fired, real>>

alt_alarm_stop == \E a \in Alarms :
  /\ alarm' = [alarm EXCEPT ![a].on = FALSE]
  /\ UNCHANGED <<settleVars, TO, nticks, fired, real>>

\* An alarm waits for the counter to roll over before its time is compared.
Waits(a) == alarm[a].rollover /\ nticks' # 0

Due == {a \in Alarms : alarm[a].on /\ alarm[a].time <= nticks' /\ ~Waits(a)}

\* The callbacks of the alarms that are due answer with their next period.
CallAlarms(next) ==
  alarm' = [a \in Alarms |->
    IF ~alarm[a].on THEN alarm[a]
    ELSE IF a \notin Due THEN [alarm[a] EXCEPT !.rollover = Waits(a)]
    ELSE IF next[a] = 0 THEN [alarm[a] EXCEPT !.on = FALSE]
    ELSE AlarmAt(alarm[a].time + next[a], nticks')]

\* Fault: the counter is cleared one tick early.
NextTickShort == (nticks + 1) % (Word - 1)

NextTick == (nticks + 1) % Word

alt_tick ==
  /\ nticks' = NextTick
  /\ fired' = Due
  /\ \E next \in [Due -> Periods \cup {0}] : CallAlarms(next)

\* Fault: the flag of the timer is not cleared.
AcknowledgeNothing == UNCHANGED TO

\* The status of the timer is written.
Acknowledge == TO' = FALSE

\* alt_avalon_timer_sc_irq, with interrupts disabled.
Irq ==
  /\ TO
  /\ Acknowledge
  /\ alt_tick
  /\ ms' = Ms(nticks', Word, Scale)
  /\ elapsed' = IF elapsed <= SettleTime THEN elapsed + 1 ELSE elapsed
  /\ UNCHANGED <<usb_task_state, usb_delay, real>>

\* A period of the timer ends, whether or not the one before has been served.
Timeout ==
  /\ TO' = TRUE
  /\ real' = IF real <= SettleTime THEN real + 1 ELSE real
  /\ UNCHANGED <<settleVars, nticks, alarm, fired>>

Start == StartSettle /\ real' = 0 /\ UNCHANGED timerVars
End   == EndSettle /\ UNCHANGED <<timerVars, real>>
Again == Attach /\ UNCHANGED <<timerVars, real>>

SystemInit ==
  /\ TO = FALSE /\ nticks \in 0 .. Word - 1
  /\ alarm = [a \in Alarms |-> [on |-> FALSE, time |-> 0, rollover |-> FALSE]]
  /\ fired = {} /\ real = SettleTime + 1
  /\ usb_task_state = "ATTACHED" /\ usb_delay = 0 /\ elapsed = SettleTime + 1
  /\ ms = Ms(nticks, Word, Scale)

SystemNext == alt_alarm_start \/ alt_alarm_stop \/ Timeout \/ Irq \/ Start \/ End \/ Again

\* The timer runs and is served; the main loop as in FairSpec.
SystemSpec ==
  /\ SystemInit /\ [][SystemNext]_allVars
  /\ WF_allVars(Timeout) /\ WF_allVars(Irq) /\ WF_allVars(Start) /\ SF_allVars(End)
-----------------------------------------------------------------------------
\* Counter and alarms: an alarm in the list is still to come, and one whose time
\* the counter has passed waits for it to roll over.
AlarmInv ==
  /\ nticks \in 0 .. Word - 1
  /\ alarm \in [Alarms -> [on : BOOLEAN, time : 0 .. Word - 1, rollover : BOOLEAN]]
  /\ \A a \in Alarms : alarm[a].on =>
       /\ alarm[a].time # nticks
       /\ alarm[a].rollover <=> alarm[a].time < nticks

\* Ticks are counted when they are served, at most one more of them than periods
\* have ended, up to the caps of the observers.
CountedInv ==
  /\ ms = Ms(nticks, Word, Scale)
  /\ real \in 0 .. SettleTime + 1 /\ TO \in BOOLEAN
  /\ real > SettleTime \/ elapsed + (IF TO THEN 1 ELSE 0) <= real + 1

\* Seen through the product that overflows, the tick counter is the clock the
\* settle delay and the dispatches are specified with.
ImplementsClock == Spec

\* Every alarm is called at its tick and at no other, at whatever reading of the
\* counter it was started and whether or not its time lies beyond the end.
AlarmsOnTime == AC!Spec

\* From the start of a delay to a bus reset there are at least SettleTime periods
\* of the timer, although the tick counted first may have been waiting when the
\* delay was started, and later ones may be lost.
SettlesInRealTime ==
  [][usb_task_state = "SETTLE" /\ usb_task_state' = "RESET_DEVICE" => real >= SettleTime]_allVars
=============================================================================
