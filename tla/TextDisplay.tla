---------------------------- MODULE TextDisplay ----------------------------
(***************************************************************************)
(* The text path of vga_interface.sv: while the raster of VgaController is *)
(* scanned, the word of the video memory with the character cell under the *)
(* beam is fetched, and the pixel register takes a bit of its glyph.       *)
(*                                                                         *)
(* What the memory holds does not matter here: a word is known by its      *)
(* address, and a pixel by the cell, the glyph line and the glyph column   *)
(* it is taken from.  The memory samples its address at every edge of the  *)
(* 50 MHz clock and delivers the word after it.  The pixel register is     *)
(* clocked by clkdiv, which changes after that edge: whether it sees the   *)
(* word before or after the edge is left open.                             *)
(***************************************************************************)
EXTENDS VgaController

CONSTANTS
  COLUMNS,        \* cells in a text row: 80
  ADDRESSES       \* range of the 10 bits of f_addr: 1024

ASSUME ColumnsAssumption == COLUMNS \in Nat /\ HVISIBLE <= 8 * COLUMNS
ASSUME AddressesAssumption == ADDRESSES \in Nat \ {0}
ASSUME SdramAssumption == hpixels * VVISIBLE + vlines < 8388608     \* 23 bits

VARIABLES
  sprites,        \* address of the word the memory delivers
  pixel           \* what red, green and blue have been taken from

vars == <<timingVars, sprites, pixel>>

Black == "black"

\* The cell of a position of the raster.
Cell(x, y) == (y \div 16) * COLUMNS + x \div 8

f_addr == Cell(hc, vc) % ADDRESSES
char_addr == f_addr \div 4
f_spec == f_addr % 4

\* Fault: columns and lines are swapped.
BitmapAddressByLine(x, y) == y * VVISIBLE + x

\* The address of a pixel in the SDRAM, for the beam and for the engine alike.
BitmapAddress(x, y) == x * VVISIBLE + y

SDRAM_ADDR == BitmapAddress(hc, vc)

Glyph(cell, x, y) == [cell |-> cell, line |-> y % 16, column |-> x % 8]

\* Fault: the memory is clocked by the pixel clock.
FetchByPixelClock == IF clkdiv = 0 THEN sprites' = char_addr ELSE UNCHANGED sprites

\* The memory, at every edge.
Fetch == sprites' = char_addr

\* The pixel register, at an edge of the pixel clock.
Draw ==
  \E word \in {sprites, sprites'} :
    pixel' = IF display THEN Glyph(4 * word + f_spec, hc, vc) ELSE Black

Scan == PixelEdge /\ Fetch /\ Draw

HalfPixel == OtherEdge /\ Fetch /\ UNCHANGED pixel

\* A reset lasts for many edges.
Reset == ResetTiming /\ sprites' = 0 /\ UNCHANGED pixel

Init == InitTiming /\ sprites = 0 /\ pixel = Black

Next == Scan \/ HalfPixel \/ Reset

Spec == Init /\ [][Next]_vars
-----------------------------------------------------------------------------
\* When the pixel register is clocked, the memory has caught up with the beam.
Fetched == clkdiv = 0 => sprites = char_addr

IInv == TimingTypeOK /\ Fetched

Drawn(x, y) ==
  IF x < HVISIBLE /\ y < VVISIBLE THEN Glyph(Cell(x, y), x, y) ELSE Black

\* Whenever a pixel is clocked it is that of the position the beam leaves:
\* fetching the word takes no part of it from a neighbouring word, not even
\* at the borders of words, lines and frames or after a reset.  f_addr keeps 10
\* bits of row*80 + col (vga_interface.sv:86), so the cells it can name are those
\* of rows 0 to 11 and a part of row 12 of 30; the others are CellsAreOwn.
AddressedCellsAreOwn ==
  [][PixelClock /\ Cell(hc, vc) < ADDRESSES => pixel' = Drawn(hc, vc)]_vars

\* vga_interface.sv:5 "VRAM, 80x30 (2400 byte, 600 word)": each of the 30 rows
\* shows cells of its own.
CellsAreOwn == [][PixelClock => pixel' = Drawn(hc, vc)]_vars

\* While the beam is on the picture, the address in the SDRAM is that of its pixel
\* and of no other, within the 23 bits; below the picture it is that of a pixel
\* of the next column, which the engine, counting to the same limits, overwrites.
BitmapAddressed ==
  /\ hc < HVISIBLE /\ vc < VVISIBLE =>
       SDRAM_ADDR \div VVISIBLE = hc /\ SDRAM_ADDR % VVISIBLE = vc
  /\ vc >= VVISIBLE => SDRAM_ADDR = BitmapAddress(hc + 1, vc - VVISIBLE)
  /\ SDRAM_ADDR < 8388608
=============================================================================
