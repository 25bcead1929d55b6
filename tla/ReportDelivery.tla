--------------------------- MODULE ReportDelivery ---------------------------
(***************************************************************************)
(* What polling a keyboard promises to the main loop: of the reports the   *)
(* keyboard produces since it was configured, each is handed over exactly  *)
(* once, whole and in order.  A report is the sequence of its packets,     *)
(* numbered from 1 in the order in which they are produced.                *)
(***************************************************************************)
EXTENDS Integers

CONSTANT Packets       \* packets in a report

VARIABLES
  produced,    \* number of reports produced
  report       \* the last report handed over

vars == <<produced, report>>

\* The n-th report; the 0th stands for none.
Report(n) == [i \in 1 .. Packets |-> (n - 1) * Packets + i]

Init == produced = 0 /\ report = Report(0)

Produce ==
  /\ produced' = produced + 1
  /\ UNCHANGED report

Deliver ==
  /\ \E n \in 1 .. produced :
       /\ report = Report(n - 1)
       /\ report' = Report(n)
  /\ UNCHANGED produced

\* Another keyboard is configured; what the former one still had is gone.
Configure == produced' = 0 /\ report' = Report(0)

Next == Produce \/ Deliver \/ Configure

Spec == Init /\ [][Next]_vars
=============================================================================
