--------------------------- MODULE FractalEngine ---------------------------
(***************************************************************************)
(* The hardware that draws the fractal: the state machine ISM.sv, the      *)
(* pixel counters of fractal_calc.sv, the step counter of                  *)
(* iteration_calc.sv and the bitmap side of vga_interface.sv.  It is       *)
(* driven by the registers that main.c writes one after the other while    *)
(* the hardware looks at them at every clock.                              *)
(*                                                                         *)
(* The firmware as it stands makes no selection (SelectionUnreachable of   *)
(* KeyboardApp) and writes no transition but 0 and 1; here main makes its  *)
(* selections, and the transitions it lacks are written as well.           *)
(***************************************************************************)
EXTENDS Raster, EscapeIntensity, Sequences

CONSTANTS
  Selections,          \* pairs of Julia constants main offers: 6
  Unset                \* 0xffffffff, no constant

ASSUME SelectionsAssumption == 0 \notin Selections /\ Unset \notin Selections \cup {0}

VARIABLES
  writes,                        \* main: register writes still to do
  transition, real_in, imag_in,  \* the registers
  state,                         \* ISM
  real_var, imag_var,            \* fractal_calc: the constants, 0 after reset
  x_draw, y_draw, once,          \* hc and vc, the pixel, and that all are done
  curr_state,                    \* iteration_calc: step, 101 when idle
  bitmap,                        \* SDRAM: the pixels ever written
  shown, SDRAM_GRAB              \* what the screen takes; read from the SDRAM

inputs == <<writes, transition, real_in, imag_in>>
engine == <<state, real_var, imag_var, x_draw, y_draw, once, curr_state, bitmap>>
engineVars == <<inputs, engine, shown, SDRAM_GRAB>>

LAST == 100
IDLE == 101

Constants == Selections \cup {0, Unset}
Writes == ({"transition"} \X (0 .. 3)) \cup ({"real", "imag"} \X Constants)

-----------------------------------------------------------------------------
(***************************************************************************)
(* main.c: the order of the writes.                                        *)
(***************************************************************************)
Startup == << <<"real", Unset>>, <<"imag", Unset>> >>

\* Fault: the transition is written before the second constant.
SelectEarly(p) == << <<"real", p>>, <<"transition", 1>>, <<"imag", p>> >>

\* A key of the table.
Select(p) == << <<"real", p>>, <<"imag", p>>, <<"transition", 1>> >>

\* A key; one that is not in the table writes the transition only.  main reads
\* the state long after its last write, when the hardware has followed.
Key ==
  /\ writes = <<>> /\ transition = 0 /\ state = 0
  /\ \/ \E p \in Selections : writes' = Select(p)
     \/ writes' = << <<"transition", 1>> >>
  /\ UNCHANGED <<transition, real_in, imag_in, engine, shown, SDRAM_GRAB>>

\* KEY[0] pressed and KEY[1] released, which main.c:194 asks for and main, held in
\* reset by KEY[0], never sees.
Button ==
  /\ writes = <<>>
  /\ writes' = << <<"transition", 0>> >> \o Startup
  /\ UNCHANGED <<transition, real_in, imag_in, engine, shown, SDRAM_GRAB>>

\* A colour key in state 1 writes transition 1 once more (main.c:297).  The steps
\* to the bitmap and beyond are those main never takes.
OtherTransition ==
  /\ writes = <<>>
  /\ \E t \in 1 .. 3 :
       /\ <<state, t>> \in {<<1, 1>>, <<1, 2>>, <<2, 3>>}
       /\ writes' = << <<"transition", t>> >>
  /\ UNCHANGED <<transition, real_in, imag_in, engine, shown, SDRAM_GRAB>>

\* At most one write reaches a register with a clock edge.
Bus ==
  \/ UNCHANGED inputs
  \/ /\ writes # <<>> /\ writes' = Tail(writes)
     /\ transition' = IF Head(writes)[1] = "transition" THEN Head(writes)[2] ELSE transition
     /\ real_in' = IF Head(writes)[1] = "real" THEN Head(writes)[2] ELSE real_in
     /\ imag_in' = IF Head(writes)[1] = "imag" THEN Head(writes)[2] ELSE imag_in
-----------------------------------------------------------------------------
(***************************************************************************)
(* The hardware.                                                           *)
(***************************************************************************)
calculating == state = 2 /\ ~once

\* Fault: it is what lines 86 to 89 ask for.
iteration_start_by_done == calculating /\ curr_state # LAST

\* Lines 86 to 89 set it by done, but lines 99 and 109 set it once more.
iteration_start == calculating

\* iteration_calc
NextStep ==
  IF iteration_start /\ curr_state = IDLE THEN 0
  ELSE IF curr_state \in {LAST, IDLE} THEN IDLE ELSE curr_state + 1

\* What is written to the SDRAM while calculating.  The z of a pixel is never
\* iterated; that of (0, 0) is far beyond the limit for every constant.
SDRAM_I == IF curr_state \in {LAST, IDLE} THEN 0 ELSE Intensity(curr_state)

\* ISM
NextState == IF transition = state + 1 THEN state + 1 ELSE state

\* The latch of the constants.
Latch ==
  IF state = 0 /\ real_in # Unset
  THEN real_var' = real_in /\ imag_var' = imag_in
  ELSE UNCHANGED <<real_var, imag_var>>

\* The pixel counters: on to the next pixel of the line, the next line, the end.
Advance ==
  /\ x_draw' = IF x_draw = hpixels THEN 0 ELSE x_draw + 1
  /\ y_draw' = IF x_draw # hpixels THEN y_draw ELSE IF y_draw = vlines THEN 0 ELSE y_draw + 1
  /\ once' = (once \/ (x_draw = hpixels /\ y_draw = vlines))

\* An edge of the 50 MHz clock.
Clock ==
  /\ Bus
  /\ state' = NextState
  /\ Latch
  /\ IF calculating /\ ~iteration_start THEN Advance ELSE UNCHANGED <<x_draw, y_draw, once>>
  /\ curr_state' = NextStep
  /\ bitmap' = IF calculating THEN bitmap \cup {<<x_draw, y_draw>>} ELSE bitmap
  /\ UNCHANGED <<shown, SDRAM_GRAB>>

\* An edge of the pixel clock: text in states 0 and 1; in state 2 black while
\* the engine writes and then the bitmap; in state 3 the register is left alone.
ScreenEdge ==
  /\ shown' = CASE state \in {0, 1}         -> "text"
                [] state = 2 /\ calculating -> "black"
                [] state = 2 /\ ~calculating -> "bitmap"
                [] OTHER                    -> shown
  /\ SDRAM_GRAB' = IF state = 2 THEN ~calculating ELSE SDRAM_GRAB
  /\ UNCHANGED <<inputs, engine>>

\* KEY[0], held for many clocks, resets the hardware and starts main anew.
EngineReset ==
  /\ writes' = Startup /\ transition' = 0 /\ real_in' = Unset /\ imag_in' = Unset
  /\ state' = 0 /\ real_var' = 0 /\ imag_var' = 0
  /\ x_draw' = 0 /\ y_draw' = 0 /\ once' = FALSE /\ curr_state' = IDLE
  /\ UNCHANGED <<bitmap, shown, SDRAM_GRAB>>

EngineInit ==
  /\ writes = Startup /\ transition = 0 /\ real_in = Unset /\ imag_in = Unset
  /\ state = 0 /\ real_var = 0 /\ imag_var = 0
  /\ x_draw = 0 /\ y_draw = 0 /\ once = FALSE /\ curr_state = IDLE
  /\ bitmap = {} /\ shown = "text" /\ SDRAM_GRAB = FALSE

EngineNext == Key \/ Button \/ OtherTransition \/ Clock \/ ScreenEdge \/ EngineReset

EngineSpec == EngineInit /\ [][EngineNext]_engineVars
-----------------------------------------------------------------------------
TypeOK ==
  /\ writes \in Seq(Writes)
  /\ transition \in 0 .. 3 /\ real_in \in Constants /\ imag_in \in Constants
  /\ state \in 0 .. 3 /\ real_var \in Constants /\ imag_var \in Constants
  /\ x_draw \in 0 .. hpixels /\ y_draw \in 0 .. vlines /\ once \in BOOLEAN
  /\ curr_state \in 0 .. IDLE /\ bitmap \subseteq (0 .. hpixels) \X (0 .. vlines)
  /\ shown \in {"text", "black", "bitmap"} /\ SDRAM_GRAB \in BOOLEAN

\* fractal_calc.sv:55: the engine, once it calculates, never comes past the first
\* pixel, never ends, and state 2 never shows the bitmap.
OnlyFirstPixel ==
  /\ x_draw = 0 /\ y_draw = 0 /\ ~once /\ bitmap \subseteq {<<0, 0>>}
  /\ shown # "bitmap" /\ ~SDRAM_GRAB

\* The engine works with both constants of the selection main made, although main
\* writes them one after the other and the latch takes whatever it finds at every
\* clock until the state changes; without a selection it keeps a former pair.
SelectionLatched ==
  state # 0 => real_var = imag_var /\ real_in \in {real_var, Unset}

\* Types, and the constants in every state of the drawing.
EngineInv == TypeOK /\ SelectionLatched

\* What main still has to write, against the registers and the latch: a second
\* constant may be missing only while the transition is still to be written, and
\* no constant but Unset is written any more when the hardware leaves state 0.
Restarting == {<< <<"transition", 0>> >> \o Startup, Startup, Tail(Startup), <<>>}

Selecting ==
  /\ state = 0 /\ transition = 0
  /\ \/ /\ writes \in Restarting \cup {Select(p) : p \in Selections} \cup {<< <<"transition", 1>> >>}
        /\ real_in = Unset /\ imag_in = Unset /\ real_var = imag_var
     \/ \E p \in Selections :
          /\ real_in = p
          /\ \/ writes = Tail(Select(p))
             \/ writes = Tail(Tail(Select(p))) /\ imag_in = p

Selected ==
  /\ state = 0 /\ transition = 1
  /\ writes \in {<< <<"transition", 0>> >> \o Startup, <<>>}
  /\ real_var = imag_var /\ real_in = imag_in /\ real_in \in {real_var, Unset}

Drawing ==
  /\ state # 0
  /\ writes \in Restarting \cup {<< <<"transition", t>> >> : t \in 0 .. 3}
  /\ real_var = imag_var /\ real_in \in {real_var, Unset}

PhaseInv == TypeOK /\ (Selecting \/ Selected \/ Drawing)

\* The logarithm that step n looks up is one: ln(a * b) = ln a + ln b for every
\* product in the table, up to the rounding of the three entries.
LnAdds ==
  LET a == curr_state + 1 IN
  curr_state < LAST =>
    \A b \in 1 .. 101 \div a : naturallog(a) + naturallog(b) - naturallog(a * b) \in -1 .. 1

\* The brightness of a pixel never falls from one step to the next, up to the
\* last one: neither the table nor the byte that is cut out of the product turns
\* over.
IntensityGrows ==
  [][ calculating /\ curr_state' = curr_state + 1 /\ curr_state' < LAST
        => (SDRAM_I' >= SDRAM_I) ]_engineVars

=============================================================================
