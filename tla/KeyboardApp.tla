---------------------------- MODULE KeyboardApp ----------------------------
(***************************************************************************)
(* The part of main.c that serves a running keyboard, and the state        *)
(* machine ISM.sv that the registers it writes are meant to drive: text    *)
(* with a prompt in states 0 and 1, the fractal in state 2.                *)
(*                                                                         *)
(* A poll of the keyboard is one step: between the read of the state and   *)
(* its use nothing but main itself could change it.  Output registers are  *)
(* sets of bit numbers.  KEY[0] resets the whole system as long as it is   *)
(* pressed; the enumeration that follows (module UsbHost) is one step.     *)
(***************************************************************************)
EXTENDS Integers, TLAPS

CONSTANTS
  Keycodes,       \* codes a keyboard sends, 0 for "no key"
  Garbage         \* values of a stack word that has not been written

WORD == 0 .. 65535

ASSUME KeycodesAssumption == Keycodes \subseteq 0 .. 255 /\ 0 \in Keycodes
ASSUME GarbageAssumption == Garbage \subseteq WORD

VARIABLES
  key,            \* KEY PIO: bit i is KEY[i], 1 when released
  polling,        \* main is in the branch of a running keyboard
  prev_keycode,   \* local variable of main, not initialised
  reported,       \* the report processed last, <<>> for none
  regs,           \* output PIOs TRANSITION, REAL_VAL and IMAG_VAL, COLOR
  ismState,       \* the state of ISM, as main reads it from its PIO
  prompt,         \* what main has written to the VRAM last
  hex, leds       \* output PIOs: bits that are set

appVars ==
  <<key, polling, prev_keycode, reported, regs, ismState, prompt, hex, leds>>

KEY_0 == 39
KEY_1 == 30

\* The constants of the fractal are named by their key; NoJulia is 0xFFFFFFFF.
NoJulia == -1
ResetRegs == [transition |-> 0, julia |-> NoJulia, color |-> 0]

-----------------------------------------------------------------------------
(***************************************************************************)
(* Digits and sign of the first two key codes.                             *)
(***************************************************************************)
BYTE(n) == n % 256
SChar(n) == IF BYTE(n) < 128 THEN BYTE(n) ELSE BYTE(n) - 256
Quotient(a, b) == IF a < 0 THEN -((-a) \div b) ELSE a \div b
Remainder(a, b) == a - b * Quotient(a, b)

\* The bits of byte n, shifted to the left.
Weights == <<1, 2, 4, 8, 16, 32, 64, 128>>
Bits(n, shift) == {b + shift : b \in {i \in 0 .. 7 : (n \div Weights[i + 1]) % 2 = 1}}

\* Fault: the sign is not taken off.
MagnitudeSigned(v) == SChar(v)

\* value = -value in a signed char, so -128 is its own opposite.
Magnitude(v) == IF SChar(v) < 0 THEN SChar(-SChar(v)) ELSE SChar(v)

Digits(v, tensAt, onesAt) ==
  LET rest == Remainder(Magnitude(v), 100)
  IN  Bits(BYTE(Quotient(rest, 10)), tensAt) \cup Bits(BYTE(Remainder(rest, 10)), onesAt)

\* A 16-bit register: the kept bits of the old word and the new digits.
WithDigits(word, kept, digits) == ((word \cap kept) \cup digits) \cap (0 .. 15)

printSignedHex0(word, v) == WithDigits(word, 0 .. 7, Digits(v, 12, 8))
printSignedHex1(word, v) == WithDigits(word, 8 .. 15, Digits(v, 4, 0))

SignLeds(lit, v, sign, hundreds) ==
  (lit \ {sign, hundreds})
    \cup {l \in {sign} : SChar(v) < 0}
    \cup {l \in {hundreds} : Quotient(Magnitude(v), 100) # 0}

-----------------------------------------------------------------------------
(***************************************************************************)
(* Selection.                                                              *)
(***************************************************************************)
SelectFractal(r, k) ==
  [r EXCEPT !.transition = 1,
            !.julia = IF k = KEY_0 \/ k \in KEY_1 .. KEY_1 + 4 THEN k ELSE @]

SelectColor(r, k) ==
  [r EXCEPT !.transition = 1,
            !.color = IF k = KEY_0 THEN 0
                      ELSE IF k \in KEY_1 .. KEY_1 + 6 THEN k - KEY_1 + 1 ELSE @]

\* KEY[1] released and KEY[0] pressed: back to the selection.
AfterButton == IF key = 2 THEN [regs EXCEPT !.transition = 0, !.julia = NoJulia] ELSE regs

\* Fault: the key is not remembered before the edge is looked for.
RememberedAfterwards(k) == prev_keycode

\* prev_keycode as it is when the edge is looked for.
Remembered(k) == IF prev_keycode = 0 THEN k ELSE prev_keycode

Pressed(k) == Remembered(k) = 0 /\ k # 0

NextRegs(k) ==
  CASE ismState = 0 /\ Pressed(k) -> SelectFractal(AfterButton, k)
    [] ismState = 1 /\ Pressed(k) -> SelectColor(AfterButton, k)
    [] OTHER -> AfterButton

NextPrompt ==
  CASE ismState = 0 -> "fractal"
    [] ismState = 1 -> "color"
    [] OTHER -> prompt

\* kbdPoll delivers a report.
Report(k0, k1) ==
  /\ polling
  /\ regs' = NextRegs(k0)
  /\ prompt' = NextPrompt
  /\ prev_keycode' = IF ismState \in {0, 1} THEN k0 ELSE Remembered(k0)
  /\ reported' = <<k0, k1>>
  /\ hex' = printSignedHex1(printSignedHex0(hex, k0), k1)
  /\ leds' = SignLeds(SignLeds(leds, k0, 11, 13), k1, 10, 12)
  /\ UNCHANGED <<key, polling, ismState>>

\* kbdPoll returns NAK or an error.
NoReport ==
  /\ polling
  /\ regs' = AfterButton
  /\ UNCHANGED <<key, polling, prev_keycode, reported, ismState, prompt, hex, leds>>

\* ISM, at every clock.
ISM ==
  /\ ismState' = IF regs.transition = ismState + 1 THEN ismState + 1 ELSE ismState
  /\ UNCHANGED <<key, polling, prev_keycode, reported, regs, prompt, hex, leds>>

-----------------------------------------------------------------------------
\* KEY[0] is pressed: everything but the memories is reset.
ResetSystem ==
  /\ key % 2 = 1
  /\ key' = key - 1
  /\ polling' = FALSE
  /\ regs' = ResetRegs /\ ismState' = 0 /\ hex' = {} /\ leds' = {}
  /\ reported' = <<>>
  /\ UNCHANGED <<prev_keycode, prompt>>

ReleaseReset ==
  /\ key % 2 = 0
  /\ key' = key + 1
  /\ UNCHANGED <<polling, prev_keycode, reported, regs, ismState, prompt, hex, leds>>

\* KEY[1].
ToggleButton ==
  /\ key' = IF key \in {0, 1} THEN key + 2 ELSE key - 2
  /\ UNCHANGED <<polling, prev_keycode, reported, regs, ismState, prompt, hex, leds>>

\* main starts and a keyboard is reported.
Start ==
  /\ key % 2 = 1
  /\ ~polling
  /\ polling' = TRUE
  /\ regs' = [regs EXCEPT !.julia = NoJulia]
  /\ leds' = leds \cup {9}
  /\ prev_keycode' \in Garbage
  /\ UNCHANGED <<key, reported, ismState, prompt, hex>>

AppInit ==
  /\ key = 3 /\ polling = FALSE
  /\ prev_keycode \in Garbage
  /\ reported = <<>> /\ regs = ResetRegs /\ ismState = 0 /\ prompt = "none"
  /\ hex = {} /\ leds = {}

Main == Start \/ NoReport \/ \E k0, k1 \in Keycodes : Report(k0, k1)

AppNext == Main \/ ISM \/ ResetSystem \/ ReleaseReset \/ ToggleButton

AppSpec == AppInit /\ [][AppNext]_appVars

-----------------------------------------------------------------------------
AppTypeOK ==
  /\ key \in 0 .. 3 /\ polling \in BOOLEAN
  /\ prev_keycode \in WORD
  /\ reported = <<>> \/ reported \in Keycodes \X Keycodes
  /\ regs \in [transition : 0 .. 3, julia : {NoJulia, KEY_0} \cup KEY_1 .. KEY_1 + 4, color : 0 .. 7]
  /\ ismState \in 0 .. 3
  /\ prompt \in {"none", "fractal", "color"}
  /\ hex \subseteq 0 .. 15 /\ leds \subseteq 0 .. 13

\* main.c:215 remembers the key of a report before main.c:223 looks whether it
\* has just been pressed: whatever keys are pressed, whatever word
\* prev_keycode starts with and however often the system is reset, nothing
\* is ever selected and the display stays in the text state.
SelectionUnreachable == ismState = 0 /\ regs = ResetRegs /\ prompt # "color"

\* KEY[0] pressed holds main in reset, so the button branch of main.c:194,
\* for which it must be pressed, is never taken.
ButtonUnseen == polling => key % 2 = 1

AppInv == AppTypeOK /\ SelectionUnreachable /\ ButtonUnseen

Abs(n) == IF n < 0 THEN -n ELSE n

Shows(v, tensAt, onesAt, sign, hundreds) ==
  LET magnitude == Abs(SChar(v))
  IN  /\ hex \cap (onesAt .. onesAt + 3) = Bits(magnitude % 10, onesAt)
      /\ hex \cap (tensAt .. tensAt + 3) = Bits((magnitude \div 10) % 10, tensAt)
      /\ sign \in leds <=> SChar(v) < 0
      /\ hundreds \in leds <=> magnitude >= 100

\* The digits and the LEDs show both key codes of the last report in decimal,
\* as signed characters, neither pair of digits spilling into the other.
\* Code 0x80 is the exception: -128 has no opposite in a
\* signed char, and its digits spill.
DisplayShowsReport ==
  reported # <<>> /\ 128 \notin {reported[1], reported[2]} =>
    /\ Shows(reported[1], 12, 8, 11, 13)
    /\ Shows(reported[2], 4, 0, 10, 12)

\* main.c:219 "ASSIGN FRACTAL CONSTANTS", main.c:175 "Enter fractal selection.":
\* a key pressed after a report without one selects a fractal.
PressSelects ==
  [][ ismState = 0 /\ reported # <<>> /\ reported' # <<>> /\ reported[1] = 0 /\ reported'[1] # 0
        => regs'.transition = 1 ]_appVars
-----------------------------------------------------------------------------
(***************************************************************************)
(* SelectionUnreachable by induction: no step looks for an edge with       *)
(* prev_keycode = 0 and a key, and without an edge no register changes.    *)
(***************************************************************************)
\* A key is never taken for newly pressed, whatever main remembers.
LEMMA NeverPressed == ASSUME NEW k PROVE ~Pressed(k)
  BY DEF Pressed, Remembered

\* Neither the button nor a report changes the registers.
LEMMA RegsStay ==
  ASSUME NEW k, AppInv, polling
  PROVE  AfterButton = regs /\ NextRegs(k) = regs
<1>1. AfterButton = regs
  BY DEF AfterButton, AppInv, ButtonUnseen
<1>2. NextRegs(k) = AfterButton
  BY NeverPressed DEF NextRegs
<1> QED BY <1>1, <1>2

\* LEDs stay within their register.
LEMMA LedsInRange ==
  ASSUME NEW lit \in SUBSET (0 .. 13), NEW v, NEW sign \in 0 .. 13, NEW hundreds \in 0 .. 13
  PROVE  SignLeds(lit, v, sign, hundreds) \in SUBSET (0 .. 13)
  BY Zenon DEF SignLeds

\* The registers after a reset are of their type.
LEMMA ResetRegsType ==
  ResetRegs \in [transition : 0 .. 3, julia : {NoJulia, KEY_0} \cup KEY_1 .. KEY_1 + 4, color : 0 .. 7]
  BY DEF ResetRegs

\* The type of every variable is kept by every step in which nothing is
\* selected.
LEMMA TypeKept ==
  ASSUME AppTypeOK, SelectionUnreachable, ButtonUnseen, [AppNext]_appVars
  PROVE  AppTypeOK'
<1>1. ASSUME NEW k0 \in Keycodes, NEW k1 \in Keycodes, Report(k0, k1) PROVE AppTypeOK'
  <2>1. regs' = regs /\ prompt' = "fractal" /\ prev_keycode' = k0
    BY <1>1, RegsStay DEF Report, NextPrompt, AppInv, SelectionUnreachable
  <2>2. hex' \subseteq 0 .. 15
    BY <1>1 DEF Report, printSignedHex1, WithDigits
  <2>3. leds' \subseteq 0 .. 13
    <3>1. leds \in SUBSET (0 .. 13)
      BY DEF AppTypeOK
    <3>2. 10 \in 0 .. 13 /\ 11 \in 0 .. 13 /\ 12 \in 0 .. 13 /\ 13 \in 0 .. 13
      OBVIOUS
    <3>3. SignLeds(leds, k0, 11, 13) \in SUBSET (0 .. 13)
      BY <3>1, <3>2, LedsInRange, Zenon
    <3>4. SignLeds(SignLeds(leds, k0, 11, 13), k1, 10, 12) \in SUBSET (0 .. 13)
      BY <3>2, <3>3, LedsInRange, Zenon
    <3> QED BY <1>1, <3>4 DEF Report
  <2>4. k0 \in WORD
    BY KeycodesAssumption DEF WORD
  <2>5. reported' \in Keycodes \X Keycodes
    BY <1>1 DEF Report
  <2> QED BY <1>1, <2>1, <2>2, <2>3, <2>4, <2>5 DEF Report, AppTypeOK
<1>2. CASE NoReport
  BY <1>2, RegsStay DEF NoReport, AppTypeOK, AppInv
<1>3. CASE Start
  <2>1. regs' = ResetRegs
    BY <1>3 DEF Start, SelectionUnreachable, ResetRegs
  <2>2. leds' \subseteq 0 .. 13
    BY <1>3 DEF Start, AppTypeOK
  <2> QED BY <1>3, <2>1, <2>2, ResetRegsType, GarbageAssumption DEF Start, AppTypeOK
<1>4. CASE ISM
  BY <1>4 DEF ISM, AppTypeOK, SelectionUnreachable, ResetRegs
<1>5. CASE ResetSystem
  <2>1. key' \in 0 .. 3
    BY <1>5 DEF ResetSystem, AppTypeOK
  <2>2. regs' \in [transition : 0 .. 3, julia : {NoJulia, KEY_0} \cup KEY_1 .. KEY_1 + 4, color : 0 .. 7]
    BY <1>5, ResetRegsType DEF ResetSystem
  <2>3. prompt' = prompt /\ prev_keycode' = prev_keycode /\ reported' = <<>>
    BY <1>5 DEF ResetSystem
  <2>4. polling' \in BOOLEAN
    BY <1>5, Zenon DEF ResetSystem
  <2>5. ismState' = 0 /\ hex' = {} /\ leds' = {}
    BY <1>5 DEF ResetSystem
  <2> QED BY <2>1, <2>2, <2>3, <2>4, <2>5 DEF AppTypeOK
<1>6. CASE ReleaseReset
  BY <1>6 DEF ReleaseReset, AppTypeOK
<1>7. CASE ToggleButton
  BY <1>7 DEF ToggleButton, AppTypeOK
<1>8. CASE UNCHANGED appVars
  BY <1>8 DEF appVars, AppTypeOK
<1> QED BY <1>1, <1>2, <1>3, <1>4, <1>5, <1>6, <1>7, <1>8 DEF AppNext, Main

\* The invariant holds of every reachable state, for all key codes and all
\* values of the uninitialised word.
THEOREM SelectionCorrect == AppSpec => []AppInv
<1>1. AppInit => AppInv
  <2> SUFFICES ASSUME AppInit PROVE AppInv
    OBVIOUS
  <2>1. polling \in BOOLEAN
    BY Zenon DEF AppInit
  <2>2. AppTypeOK
    BY <2>1, GarbageAssumption, ResetRegsType DEF AppInit, AppTypeOK
  <2>3. SelectionUnreachable /\ ButtonUnseen
    BY DEF AppInit, SelectionUnreachable, ButtonUnseen
  <2> QED BY <2>2, <2>3 DEF AppInv
<1>2. AppInv /\ [AppNext]_appVars => AppInv'
  <2> SUFFICES ASSUME AppInv, [AppNext]_appVars PROVE AppInv'
    OBVIOUS
  <2>1. AppTypeOK'
    BY TypeKept DEF AppInv
  <2>2. SelectionUnreachable' /\ ButtonUnseen'
    <3> USE DEF AppInv, SelectionUnreachable, ButtonUnseen
    <3>1. ASSUME NEW k0, NEW k1, Report(k0, k1) PROVE SelectionUnreachable' /\ ButtonUnseen'
      BY <3>1, RegsStay DEF Report, NextPrompt
    <3>2. CASE NoReport
      BY <3>2, RegsStay DEF NoReport
    <3>3. CASE Start
      BY <3>3 DEF Start, ResetRegs
    <3>4. CASE ISM
      BY <3>4 DEF ISM, ResetRegs
    <3>5. CASE ResetSystem
      BY <3>5 DEF ResetSystem, AppTypeOK
    <3>6. CASE ReleaseReset
      BY <3>6 DEF ReleaseReset
    <3>7. CASE ToggleButton
      BY <3>7 DEF ToggleButton, AppTypeOK
    <3>8. CASE UNCHANGED appVars
      BY <3>8 DEF appVars
    <3> QED BY <3>1, <3>2, <3>3, <3>4, <3>5, <3>6, <3>7, <3>8 DEF AppNext, Main
  <2> QED BY <2>1, <2>2 DEF AppInv
<1> QED BY <1>1, <1>2, PTL DEF AppSpec

\* Nothing is ever selected, for all key codes and all values of the
\* uninitialised word.
THEOREM NothingSelected == AppSpec => []SelectionUnreachable
<1>1. AppInv => SelectionUnreachable
  BY DEF AppInv
<1> QED BY <1>1, SelectionCorrect, PTL

-----------------------------------------------------------------------------
(***************************************************************************)
(* DisplayShowsReport: a decimal digit fills four bits, so the four digits *)
(* of two codes lie side by side in the register, and printSignedHex1      *)
(* keeps the half that printSignedHex0 has written.                        *)
(***************************************************************************)
\* A decimal digit has no bit above the third.
LEMMA DigitFitsNibble ==
  ASSUME NEW n \in 0 .. 9, NEW shift \in Nat
  PROVE  Bits(n, shift) \subseteq shift .. shift + 3
<1>1. ASSUME NEW b \in 0 .. 7, (n \div Weights[b + 1]) % 2 = 1 PROVE b \in 0 .. 3
  <2>1. CASE b = 4
    <3>1. Weights[b + 1] = 16
      BY <2>1 DEF Weights
    <3> QED BY <1>1, <3>1
  <2>2. CASE b = 5
    <3>1. Weights[b + 1] = 32
      BY <2>2 DEF Weights
    <3> QED BY <1>1, <3>1
  <2>3. CASE b = 6
    <3>1. Weights[b + 1] = 64
      BY <2>3 DEF Weights
    <3> QED BY <1>1, <3>1
  <2>4. CASE b = 7
    <3>1. Weights[b + 1] = 128
      BY <2>4 DEF Weights
    <3> QED BY <1>1, <3>1
  <2> QED BY <2>1, <2>2, <2>3, <2>4
<1>2. ASSUME NEW e \in Bits(n, shift) PROVE e \in shift .. shift + 3
  <2>1. PICK b \in {i \in 0 .. 7 : (n \div Weights[i + 1]) % 2 = 1} : e = b + shift
    BY <1>2, Zenon DEF Bits
  <2>2. b \in 0 .. 3
    BY <1>1, <2>1
  <2> QED BY <2>1, <2>2
<1> QED BY <1>2

\* But for 0x80 the sign is taken off as it should be.
LEMMA MagnitudeIsAbs ==
  ASSUME NEW v \in 0 .. 255, v # 128
  PROVE  Magnitude(v) = Abs(SChar(v)) /\ Magnitude(v) \in 0 .. 127
  BY DEF Magnitude, Abs, SChar, BYTE

\* Tens and ones are those of the magnitude, the hundreds aside.
LEMMA DigitsOfMagnitude ==
  ASSUME NEW v \in 0 .. 255, v # 128, NEW tensAt, NEW onesAt
  PROVE  LET magnitude == Abs(SChar(v))
         IN  /\ Digits(v, tensAt, onesAt)
                  = Bits((magnitude \div 10) % 10, tensAt) \cup Bits(magnitude % 10, onesAt)
             /\ (magnitude \div 10) % 10 \in 0 .. 9
             /\ magnitude % 10 \in 0 .. 9
             /\ Quotient(Magnitude(v), 100) # 0 <=> magnitude >= 100
<1> DEFINE m == Abs(SChar(v))
           rest == Remainder(m, 100)
<1>1. Magnitude(v) = m /\ m \in 0 .. 127
  <2>1. Magnitude(v) = Abs(SChar(v)) /\ Magnitude(v) \in 0 .. 127
    BY MagnitudeIsAbs
  <2> QED BY <2>1
<1> HIDE DEF m
<1>2. rest = m % 100 /\ rest \in 0 .. 99
  BY <1>1 DEF Remainder, Quotient
<1>3. m % 100 = IF m < 100 THEN m ELSE m - 100
  BY <1>1
<1>4. (m % 100) \div 10 = (m \div 10) % 10 /\ (m % 100) % 10 = m % 10
  BY <1>1, <1>3
<1>5. (m \div 10) % 10 \in 0 .. 9 /\ m % 10 \in 0 .. 9
  BY <1>1
<1>6. BYTE(Quotient(rest, 10)) = (m \div 10) % 10
  BY <1>2, <1>4, <1>5 DEF Quotient, BYTE
<1>7. BYTE(Remainder(rest, 10)) = m % 10
  BY <1>2, <1>4, <1>5 DEF Quotient, Remainder, BYTE
<1>8. Digits(v, tensAt, onesAt) = Bits((m \div 10) % 10, tensAt) \cup Bits(m % 10, onesAt)
  BY <1>1, <1>6, <1>7 DEF Digits
<1>9. Quotient(m, 100) # 0 <=> m >= 100
  BY <1>1 DEF Quotient
<1> QED BY <1>1, <1>5, <1>8, <1>9 DEF m

\* printSignedHex0 writes the upper half of the register, printSignedHex1 the
\* lower half; each keeps the other half.
LEMMA HalvesShown ==
  ASSUME NEW word \in SUBSET (0 .. 15), NEW v \in 0 .. 255, v # 128
  PROVE  LET magnitude == Abs(SChar(v))
             upper == printSignedHex0(word, v)
             lower == printSignedHex1(word, v)
         IN  /\ upper \in SUBSET (0 .. 15) /\ lower \in SUBSET (0 .. 15)
             /\ upper \cap (12 .. 15) = Bits((magnitude \div 10) % 10, 12)
             /\ upper \cap (8 .. 11) = Bits(magnitude % 10, 8)
             /\ lower \cap (4 .. 7) = Bits((magnitude \div 10) % 10, 4)
             /\ lower \cap (0 .. 3) = Bits(magnitude % 10, 0)
             /\ lower \cap (8 .. 15) = word \cap (8 .. 15)
<1> DEFINE tens == (Abs(SChar(v)) \div 10) % 10
           ones == Abs(SChar(v)) % 10
<1>1. /\ tens \in 0 .. 9 /\ ones \in 0 .. 9
      /\ Digits(v, 12, 8) = Bits(tens, 12) \cup Bits(ones, 8)
      /\ Digits(v, 4, 0) = Bits(tens, 4) \cup Bits(ones, 0)
  BY DigitsOfMagnitude, Zenon
<1> HIDE DEF tens, ones
<1>2. /\ Bits(tens, 12) \subseteq 12 .. 15 /\ Bits(ones, 8) \subseteq 8 .. 11
      /\ Bits(tens, 4) \subseteq 4 .. 7 /\ Bits(ones, 0) \subseteq 0 .. 3
  <2>1. /\ Bits(tens, 12) \subseteq 12 .. 12 + 3 /\ Bits(ones, 8) \subseteq 8 .. 8 + 3
        /\ Bits(tens, 4) \subseteq 4 .. 4 + 3 /\ Bits(ones, 0) \subseteq 0 .. 0 + 3
    BY <1>1, DigitFitsNibble
  <2> QED BY <2>1
<1>3. printSignedHex0(word, v) = ((word \cap (0 .. 7)) \cup Bits(tens, 12) \cup Bits(ones, 8)) \cap (0 .. 15)
  BY <1>1 DEF printSignedHex0, WithDigits
<1>4. printSignedHex1(word, v) = ((word \cap (8 .. 15)) \cup Bits(tens, 4) \cup Bits(ones, 0)) \cap (0 .. 15)
  BY <1>1 DEF printSignedHex1, WithDigits
<1>5. /\ printSignedHex0(word, v) \cap (12 .. 15) = Bits(tens, 12)
      /\ printSignedHex0(word, v) \cap (8 .. 11) = Bits(ones, 8)
  BY <1>2, <1>3
<1>6. /\ printSignedHex1(word, v) \cap (4 .. 7) = Bits(tens, 4)
      /\ printSignedHex1(word, v) \cap (0 .. 3) = Bits(ones, 0)
      /\ printSignedHex1(word, v) \cap (8 .. 15) = word \cap (8 .. 15)
  BY <1>2, <1>4
<1> QED BY <1>3, <1>4, <1>5, <1>6 DEF tens, ones

\* The LEDs of a code show its sign and its hundreds.
LEMMA LedsShown ==
  ASSUME NEW v \in 0 .. 255, v # 128
  PROVE  \A lit, sign, hundreds : sign # hundreds =>
           /\ sign \in SignLeds(lit, v, sign, hundreds) <=> SChar(v) < 0
           /\ hundreds \in SignLeds(lit, v, sign, hundreds) <=> Abs(SChar(v)) >= 100
<1>1. Quotient(Magnitude(v), 100) # 0 <=> Abs(SChar(v)) >= 100
  BY DigitsOfMagnitude, Zenon
<1> QED BY <1>1, Zenon DEF SignLeds

\* A report leaves its two codes on the display.
LEMMA ReportShown ==
  ASSUME AppTypeOK, NEW k0 \in Keycodes, NEW k1 \in Keycodes, Report(k0, k1)
  PROVE  DisplayShowsReport'
<1> SUFFICES ASSUME k0 # 128, k1 # 128
             PROVE  Shows(k0, 12, 8, 11, 13)' /\ Shows(k1, 4, 0, 10, 12)'
  <2>1. reported' = <<k0, k1>> /\ reported'[1] = k0 /\ reported'[2] = k1
    BY DEF Report
  <2> QED BY <2>1 DEF DisplayShowsReport
<1> DEFINE upper == printSignedHex0(hex, k0)
           first == SignLeds(leds, k0, 11, 13)
<1>1. k0 \in 0 .. 255 /\ k1 \in 0 .. 255
  BY KeycodesAssumption
<1>2. hex' = printSignedHex1(upper, k1) /\ leds' = SignLeds(first, k1, 10, 12)
  BY DEF Report
<1>3. /\ upper \in SUBSET (0 .. 15)
      /\ upper \cap (12 .. 15) = Bits((Abs(SChar(k0)) \div 10) % 10, 12)
      /\ upper \cap (8 .. 11) = Bits(Abs(SChar(k0)) % 10, 8)
  <2>1. hex \in SUBSET (0 .. 15)
    BY DEF AppTypeOK
  <2> QED BY <1>1, <2>1, HalvesShown, Zenon
<1>4. /\ 11 \in first <=> SChar(k0) < 0
      /\ 13 \in first <=> Abs(SChar(k0)) >= 100
  <2>1. k0 \in 0 .. 255 /\ k0 # 128 /\ 11 # 13
    BY <1>1
  <2> QED BY <2>1, LedsShown, Zenon
<1> HIDE DEF upper, first
<1>5. /\ hex' \cap (4 .. 7) = Bits((Abs(SChar(k1)) \div 10) % 10, 4)
      /\ hex' \cap (0 .. 3) = Bits(Abs(SChar(k1)) % 10, 0)
      /\ hex' \cap (8 .. 15) = upper \cap (8 .. 15)
  BY <1>1, <1>2, <1>3, HalvesShown, Zenon
<1>6. hex' \cap (12 .. 15) = upper \cap (12 .. 15) /\ hex' \cap (8 .. 11) = upper \cap (8 .. 11)
  BY <1>5
<1>7. /\ 10 \in leds' <=> SChar(k1) < 0
      /\ 12 \in leds' <=> Abs(SChar(k1)) >= 100
      /\ 11 \in leds' <=> 11 \in first
      /\ 13 \in leds' <=> 13 \in first
  <2>1. k1 \in 0 .. 255 /\ k1 # 128 /\ 10 # 12
    BY <1>1
  <2>2. /\ 10 \in SignLeds(first, k1, 10, 12) <=> SChar(k1) < 0
        /\ 12 \in SignLeds(first, k1, 10, 12) <=> Abs(SChar(k1)) >= 100
    BY <2>1, LedsShown, Zenon
  <2>3. 11 \in SignLeds(first, k1, 10, 12) <=> 11 \in first
    <3>1. 11 # 10 /\ 11 # 12
      OBVIOUS
    <3> QED BY <3>1, Zenon DEF SignLeds
  <2>4. 13 \in SignLeds(first, k1, 10, 12) <=> 13 \in first
    <3>1. 13 # 10 /\ 13 # 12
      OBVIOUS
    <3> QED BY <3>1, Zenon DEF SignLeds
  <2> QED BY <1>2, <2>2, <2>3, <2>4, Zenon
<1>8. 12 + 3 = 15 /\ 8 + 3 = 11 /\ 4 + 3 = 7 /\ 0 + 3 = 3
  OBVIOUS
<1>9. Shows(k0, 12, 8, 11, 13)'
  BY <1>3, <1>4, <1>6, <1>7, <1>8, Zenon DEF Shows
<1>10. Shows(k1, 4, 0, 10, 12)'
  BY <1>5, <1>7, <1>8, Zenon DEF Shows
<1> QED BY <1>9, <1>10

\* Digits and LEDs show the last report, for all key codes but 0x80 and
\* however often the system is reset in between.
THEOREM DisplayCorrect == AppSpec => []DisplayShowsReport
<1>1. AppInit => DisplayShowsReport
  BY DEF AppInit, DisplayShowsReport
<1>2. AppInv /\ DisplayShowsReport /\ [AppNext]_appVars => DisplayShowsReport'
  <2> SUFFICES ASSUME AppInv, DisplayShowsReport, [AppNext]_appVars PROVE DisplayShowsReport'
    OBVIOUS
  <2>1. ASSUME NEW k0 \in Keycodes, NEW k1 \in Keycodes, Report(k0, k1)
        PROVE  DisplayShowsReport'
    BY <2>1, ReportShown DEF AppInv
  <2>2. CASE ResetSystem
    BY <2>2 DEF ResetSystem, DisplayShowsReport
  <2>3. CASE Start
    <3>1. reported' = reported /\ hex' = hex
      BY <2>3 DEF Start
    <3>2. 10 \in leds' <=> 10 \in leds
      BY <2>3 DEF Start
    <3>3. 11 \in leds' <=> 11 \in leds
      BY <2>3 DEF Start
    <3>4. 12 \in leds' <=> 12 \in leds
      BY <2>3 DEF Start
    <3>5. 13 \in leds' <=> 13 \in leds
      BY <2>3 DEF Start
    <3> QED BY <3>1, <3>2, <3>3, <3>4, <3>5, Zenon DEF DisplayShowsReport, Shows
  <2>4. ASSUME UNCHANGED <<reported, hex, leds>> PROVE DisplayShowsReport'
    BY <2>4 DEF DisplayShowsReport, Shows
  <2>5. CASE NoReport \/ ISM \/ ReleaseReset \/ ToggleButton \/ UNCHANGED appVars
    BY <2>4, <2>5 DEF NoReport, ISM, ReleaseReset, ToggleButton, appVars
  <2> QED BY <2>1, <2>2, <2>3, <2>5 DEF AppNext, Main
<1> QED BY <1>1, <1>2, SelectionCorrect, PTL DEF AppSpec
=============================================================================
