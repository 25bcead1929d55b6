-------------------------- MODULE EscapeIntensity --------------------------
(***************************************************************************)
(* The brightness of a pixel that escapes at step n: iteration_calc.sv     *)
(* with the logarithms of naturallog.sv, in fixed point with 16 binary     *)
(* places.  The product is taken of 64 bits in the code; here the common   *)
(* factor 8 of 11672 and 65536 is cancelled, so that it stays below 2^31.  *)
(***************************************************************************)
EXTENDS Integers

ONE == 65536
ln_1y_fractional == 11672       \* 1 / (ln 101 + 1)

table == <<
    0, 45426, 71998, 90852, 105476, 117424, 127527, 136278, 143997, 150902,
    157148, 162850, 168096, 172953, 177474, 181704, 185677, 189423, 192966,
    196328, 199525, 202574, 205487, 208276, 210952, 213522, 215995, 218379,
    220679, 222900, 225049, 227130, 229147, 231103, 233003, 234849, 236645,
    238392, 240095, 241754, 243372, 244951, 246494, 248000, 249473, 250913,
    252323, 253703, 255054, 256378, 257676, 258948, 260197, 261422, 262624,
    263805, 264965, 266105, 267225, 268326, 269410, 270475, 271524, 272556,
    273572, 274573, 275558, 276529, 277486, 278429, 279358, 280275, 281179,
    282071, 282950, 283818, 284675, 285521, 286356, 287180, 287994, 288798,
    289593, 290378, 291153, 291920, 292677, 293426, 294167, 294899, 295623,
    296339, 297048, 297749, 298442, 299129, 299808, 300480, 301145, 301804,
    302456>>

\* Fault: bit 8 of one entry.
naturallogMistyped(x) == IF x = 34 THEN table[x] - 256 ELSE IF x \in 1 .. 101 THEN table[x] ELSE 0

naturallog(x) == IF x \in 1 .. 101 THEN table[x] ELSE 0

\* Bits 47 to 16 of the signed product, doubled.
Scaled(n) == 2 * (((naturallog(n + 1) - ONE) * (ln_1y_fractional \div 8)) \div (ONE \div 8))

\* Fault: the bit beyond the byte is not looked at.
IntensityWraps(n) ==
  IF Scaled(n) < 0 THEN 0 ELSE (Scaled(n) \div 256) % 256

\* Below 0 it is black, from 1 on it is white; in between a byte is cut out.
Intensity(n) ==
  IF Scaled(n) < 0 THEN 0
  ELSE IF (Scaled(n) \div ONE) % 2 = 1 THEN 255 ELSE (Scaled(n) \div 256) % 256
=============================================================================
