------------------------------- MODULE Clock -------------------------------
(***************************************************************************)
(* The millisecond clock of the firmware, the expression                   *)
(* (alt_nticks()*1000)/alt_ticks_per_second() of transfer.c in 32-bit      *)
(* unsigned arithmetic, with 1000 ticks in a second.  The product wraps,   *)
(* so the clock falls back to 0 long before the tick counter does: after   *)
(* 4294966 or 4294967 ms, which is 71.6 minutes.                           *)
(***************************************************************************)
EXTENDS Integers

CONSTANT MaxMs     \* the largest reading of the clock

ASSUME MaxMsAssumption == MaxMs \in Nat \ {0}

\* n ticks on a machine with w numbers in a word and s ticks per second.
Ms(n, w, s) == ((n * s) % w) \div s

(***************************************************************************)
(* What NextMs is the abstraction of, on small words: from one tick to the *)
(* next the expression grows by one, or falls to 0 from its largest value  *)
(* or the one before it.                                                   *)
(***************************************************************************)
ASSUME ClockAssumption ==
  \A w \in {64, 100, 127, 128}, s \in {3, 7, 10} : \A n \in 0 .. w :
    LET now == Ms(n, w, s)
        max == (w - 1) \div s
    IN  Ms(n + 1, w, s) = now + 1 \/ (now >= max - 1 /\ Ms(n + 1, w, s) = 0)

\* The possible readings one tick after the reading ms.
NextMs(ms) == (IF ms < MaxMs THEN {ms + 1} ELSE {}) \cup (IF ms >= MaxMs - 1 THEN {0} ELSE {})
=============================================================================
