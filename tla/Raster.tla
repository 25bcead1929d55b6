------------------------------- MODULE Raster -------------------------------
(***************************************************************************)
(* The limits of the pixel and line counts, the same in VGA_controller.sv  *)
(* and in fractal_calc.sv, which draws the pixels of the borders too.      *)
(***************************************************************************)
EXTENDS Integers

CONSTANTS hpixels, vlines      \* largest counts: 799 and 524

ASSUME CountsAssumption == hpixels \in Nat /\ vlines \in Nat
=============================================================================
