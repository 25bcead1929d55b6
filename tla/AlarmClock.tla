----------------------------- MODULE AlarmClock -----------------------------
(***************************************************************************)
(* What alt_alarm.h promises: an alarm started for n ticks is called when  *)
(* more than n have begun, and then again after as many ticks as its       *)
(* callback has asked for, until it asks for none or is stopped; whatever  *)
(* the tick counter reads.                                                 *)
(***************************************************************************)
EXTENDS Integers

CONSTANTS Alarms,    \* the alarms of the program
          Periods    \* numbers of ticks they ask for

VARIABLES left,      \* ticks to the next call of an alarm, 0 when it is off
          fired      \* the alarms called by the last tick

vars == <<left, fired>>

Init == left = [a \in Alarms |-> 0] /\ fired = {}

Start == \E a \in Alarms, n \in Periods :
  /\ left[a] = 0
  /\ left' = [left EXCEPT ![a] = n + 1]
  /\ UNCHANGED fired

Stop == \E a \in Alarms :
  /\ left' = [left EXCEPT ![a] = 0]
  /\ UNCHANGED fired

Tick ==
  /\ fired' = {a \in Alarms : left[a] = 1}
  /\ \E next \in [fired' -> Periods \cup {0}] :
       left' = [a \in Alarms |-> IF a \in fired' THEN next[a]
                                 ELSE IF left[a] > 0 THEN left[a] - 1 ELSE 0]

Next == Start \/ Stop \/ Tick

Spec == Init /\ [][Next]_vars
=============================================================================
