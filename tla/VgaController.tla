--------------------------- MODULE VgaController ---------------------------
(***************************************************************************)
(* VGA_controller.sv: the counters that scan the raster and the sync       *)
(* pulses.  A step is an edge of the 50 MHz clock; every second one is an  *)
(* edge of the pixel clock clkdiv, at which the counters and the sync      *)
(* registers change together, the registers by the counters' old values.   *)
(***************************************************************************)
EXTENDS Raster

CONSTANTS
  HVISIBLE, VVISIBLE,       \* size of the picture: 640 and 480
  HSYNC_START, HSYNC_END,   \* compared with hc + 1: 656 and 752
  VSYNC                     \* compared with vc + 1, as is the next line: 490

ASSUME HorizontalAssumption ==
  /\ hpixels \in Nat /\ HVISIBLE \in Nat /\ HSYNC_START \in Nat /\ HSYNC_END \in Nat
  /\ 0 < HVISIBLE /\ HVISIBLE <= HSYNC_START
  /\ HSYNC_START < HSYNC_END /\ HSYNC_END <= hpixels
ASSUME VerticalAssumption ==
  /\ vlines \in Nat /\ VVISIBLE \in Nat /\ VSYNC \in Nat
  /\ 0 < VVISIBLE /\ VVISIBLE < VSYNC /\ VSYNC < vlines

VARIABLES clkdiv, hc, vc, hs, vs

timingVars == <<clkdiv, hc, vc, hs, vs>>

-----------------------------------------------------------------------------
\* The registers start as a reset leaves them.
InitTiming == clkdiv = 0 /\ hc = 0 /\ vc = 0 /\ hs = 0 /\ vs = 0

ResetTiming == clkdiv' = 0 /\ hc' = 0 /\ vc' = 0 /\ hs' = 0 /\ vs' = 0

NextHc == IF hc = hpixels THEN 0 ELSE hc + 1
NextVc == IF hc < hpixels THEN vc ELSE IF vc = vlines THEN 0 ELSE vc + 1

\* Fault: compared with hc.
NextHsLate == IF hc >= HSYNC_START /\ hc < HSYNC_END THEN 0 ELSE 1

NextHs == IF hc + 1 >= HSYNC_START /\ hc + 1 < HSYNC_END THEN 0 ELSE 1
NextVs == IF vc + 1 \in {VSYNC, VSYNC + 1} THEN 0 ELSE 1

\* Rising edge of clkdiv.
PixelEdge ==
  /\ clkdiv = 0
  /\ clkdiv' = 1
  /\ hc' = NextHc /\ vc' = NextVc
  /\ hs' = NextHs /\ vs' = NextVs

OtherEdge ==
  /\ clkdiv = 1
  /\ clkdiv' = 0
  /\ UNCHANGED <<hc, vc, hs, vs>>

display == hc < HVISIBLE /\ vc < VVISIBLE

-----------------------------------------------------------------------------
TimingTypeOK ==
  /\ clkdiv \in {0, 1} /\ hs \in {0, 1} /\ vs \in {0, 1}
  /\ hc \in 0 .. hpixels /\ vc \in 0 .. vlines

PixelClock == clkdiv = 0 /\ clkdiv' = 1

\* The pulse of a line covers the pixels from HSYNC_START to HSYNC_END - 1
\* although its register compares with the next pixel, and lies beside the
\* picture.  The pulse of a frame lies below the picture, and begins and ends
\* at the same place of a line, so that it is whole lines long.
SyncPulses ==
  [][ PixelClock =>
        /\ hs' = 0 <=> hc' \in HSYNC_START .. HSYNC_END - 1
        /\ hs' = 0 => hc' >= HVISIBLE
        /\ vs' = 0 => vc' >= VVISIBLE
        /\ vs' # vs => hc = 0 ]_timingVars

\* VGA_controller.sv:101 "vertical sync pulse is 2 lines(800 pixels) long at line
\* 490-491".  The register is compared with the line after at every pixel, not
\* only at the last one of a line, so the pulse comes a line early but a pixel.
VerticalAsDocumented ==
  [][PixelClock => (vs' = 0 <=> vc' \in VSYNC .. VSYNC + 1)]_timingVars
=============================================================================
