---------------------------- MODULE VideoProofs ----------------------------
(***************************************************************************)
(* Proofs about the hardware that makes the picture: the raster, the text  *)
(* path and the addresses of TextDisplay, for every size of the raster,    *)
(* the picture and the address; and beside it the engine of FractalEngine, *)
(* which counts to the same limits, for every set of selections.           *)
(***************************************************************************)
EXTENDS TextDisplay, FractalEngine, SequenceTheorems, TLAPS

-----------------------------------------------------------------------------
(***************************************************************************)
(* The raster and the text.                                                *)
(***************************************************************************)
\* The counters and sync registers keep their types.
LEMMA TimingTypeKept ==
  ASSUME TimingTypeOK, PixelEdge \/ OtherEdge \/ ResetTiming \/ UNCHANGED timingVars
  PROVE  TimingTypeOK'
<1> USE HorizontalAssumption, VerticalAssumption DEF TimingTypeOK
<1>1. CASE PixelEdge
  <2>1. NextHc \in 0 .. hpixels /\ NextVc \in 0 .. vlines
    BY DEF NextHc, NextVc
  <2>2. NextHs \in {0, 1} /\ NextVs \in {0, 1}
    BY DEF NextHs, NextVs
  <2> QED BY <1>1, <2>1, <2>2 DEF PixelEdge
<1>2. CASE OtherEdge
  BY <1>2 DEF OtherEdge
<1>3. CASE ResetTiming
  BY <1>3 DEF ResetTiming
<1>4. CASE UNCHANGED timingVars
  BY <1>4 DEF timingVars
<1> QED BY <1>1, <1>2, <1>3, <1>4

\* The cell under the beam after a reset is in word 0.
LEMMA FirstWord == ASSUME hc = 0, vc = 0 PROVE char_addr = 0
<1>1. Cell(hc, vc) = 0
  BY ColumnsAssumption DEF Cell
<1>2. 0 % ADDRESSES = 0
  BY AddressesAssumption
<1> QED BY <1>1, <1>2 DEF char_addr, f_addr

\* The invariant holds of every reachable state.
THEOREM FetchCorrect == Spec => []IInv
<1>1. Init => IInv
  BY FirstWord, HorizontalAssumption, VerticalAssumption
  DEF Init, InitTiming, IInv, TimingTypeOK, Fetched
<1>2. IInv /\ [Next]_vars => IInv'
  <2> SUFFICES ASSUME IInv, [Next]_vars PROVE IInv'
    OBVIOUS
  <2>1. TimingTypeOK'
    BY TimingTypeKept DEF IInv, Next, Scan, HalfPixel, Reset, vars
  <2>2. Fetched'
    <3>1. CASE Scan
      <4>1. clkdiv' = 1
        BY <3>1 DEF Scan, PixelEdge
      <4> QED BY <4>1 DEF Fetched
    <3>2. CASE HalfPixel
      <4>1. char_addr' = char_addr
        BY <3>2 DEF HalfPixel, OtherEdge, char_addr, f_addr, Cell
      <4>2. sprites' = char_addr
        BY <3>2 DEF HalfPixel, Fetch
      <4> QED BY <4>1, <4>2 DEF Fetched
    <3>3. CASE Reset
      <4>1. hc' = 0 /\ vc' = 0 /\ sprites' = 0
        BY <3>3 DEF Reset, ResetTiming
      <4>2. (char_addr = 0)'
        BY <4>1, FirstWord, ColumnsAssumption, AddressesAssumption DEF char_addr, f_addr, Cell
      <4> QED BY <4>1, <4>2 DEF Fetched
    <3>4. CASE UNCHANGED vars
      BY <3>4 DEF vars, timingVars, IInv, Fetched, char_addr, f_addr, Cell
    <3> QED BY <3>1, <3>2, <3>3, <3>4 DEF Next
  <2> QED BY <2>1, <2>2 DEF IInv
<1> QED BY <1>1, <1>2, PTL DEF Spec

\* Within a line the vertical pulse is that of the line.
VerticalInv == hc # 0 => vs = NextVs

LEMMA VerticalCorrect == Spec => []VerticalInv
<1>1. Init => VerticalInv
  BY DEF Init, InitTiming, VerticalInv
<1>2. IInv /\ VerticalInv /\ [Next]_vars => VerticalInv'
  <2> SUFFICES ASSUME IInv, VerticalInv, [Next]_vars PROVE VerticalInv'
    OBVIOUS
  <2>1. CASE PixelEdge
    <3> SUFFICES ASSUME NextHc # 0 PROVE NextVs = NextVs'
      BY <2>1 DEF PixelEdge, VerticalInv
    <3>1. vc' = vc
      BY <2>1, HorizontalAssumption DEF PixelEdge, NextHc, NextVc, IInv, TimingTypeOK
    <3> QED BY <3>1 DEF NextVs
  <2>2. CASE ResetTiming
    BY <2>2 DEF ResetTiming, VerticalInv
  <2>3. CASE UNCHANGED <<hc, vc, hs, vs>>
    BY <2>3 DEF VerticalInv, NextVs
  <2> QED BY <2>1, <2>2, <2>3
        DEF Next, Scan, HalfPixel, OtherEdge, Reset, vars, timingVars
<1> QED BY <1>1, <1>2, FetchCorrect, PTL DEF Spec

\* The pulses have their place and begin and end with a line, for every raster in
\* which the picture, the pulses and the borders follow each other.
THEOREM PulsesCorrect == Spec => SyncPulses
<1>1. IInv /\ VerticalInv /\ [Next]_vars
        => [ PixelClock =>
              /\ hs' = 0 <=> hc' \in HSYNC_START .. HSYNC_END - 1
              /\ hs' = 0 => hc' >= HVISIBLE
              /\ vs' = 0 => vc' >= VVISIBLE
              /\ vs' # vs => hc = 0 ]_timingVars
  <2> SUFFICES ASSUME IInv, VerticalInv, Next, PixelClock
               PROVE  /\ hs' = 0 <=> hc' \in HSYNC_START .. HSYNC_END - 1
                      /\ hs' = 0 => hc' >= HVISIBLE
                      /\ vs' = 0 => vc' >= VVISIBLE
                      /\ vs' # vs => hc = 0
    BY DEF vars, timingVars
  <2> USE HorizontalAssumption, VerticalAssumption DEF IInv, TimingTypeOK
  <2>1. PixelEdge
    BY DEF PixelClock, Next, Scan, HalfPixel, OtherEdge, Reset, ResetTiming
  <2>2. hs' = 0 <=> NextHc \in HSYNC_START .. HSYNC_END - 1
    BY <2>1 DEF PixelEdge, NextHs, NextHc
  <2>3. hs' = 0 => NextHc >= HVISIBLE
    BY <2>1 DEF PixelEdge, NextHs, NextHc
  <2>4. vs' = 0 => NextVc >= VVISIBLE
    BY <2>1 DEF PixelEdge, NextVs, NextVc
  <2>5. vs' # vs => hc = 0
    BY <2>1 DEF PixelEdge, VerticalInv
  <2> QED BY <2>1, <2>2, <2>3, <2>4, <2>5 DEF PixelEdge
<1> QED BY <1>1, FetchCorrect, VerticalCorrect, PTL DEF Spec, SyncPulses

\* A cell the address can name is fetched whole.
LEMMA AddressedCell ==
  ASSUME IInv, Cell(hc, vc) < ADDRESSES
  PROVE  4 * char_addr + f_spec = Cell(hc, vc)
<1>1. Cell(hc, vc) \in Nat
  <2>1. hc \div 8 \in Nat /\ vc \div 16 \in Nat
    BY HorizontalAssumption, VerticalAssumption DEF IInv, TimingTypeOK
  <2>2. \A a, b \in Nat : a * b \in Nat
    OBVIOUS
  <2> QED BY <2>1, <2>2, ColumnsAssumption DEF Cell
<1>2. f_addr = Cell(hc, vc)
  BY <1>1, AddressesAssumption DEF f_addr
<1> QED BY <1>1, <1>2 DEF char_addr, f_spec

\* Every pixel of an addressed cell is its own, whether the pixel register
\* sees the word before or after the edge.
THEOREM CellsCorrect == Spec => AddressedCellsAreOwn
<1>1. IInv /\ [Next]_vars
        => [PixelClock /\ Cell(hc, vc) < ADDRESSES => pixel' = Drawn(hc, vc)]_vars
  <2> SUFFICES ASSUME IInv, Next, PixelClock, Cell(hc, vc) < ADDRESSES
               PROVE  pixel' = Drawn(hc, vc)
    OBVIOUS
  <2>1. Scan
    BY DEF PixelClock, Next, HalfPixel, OtherEdge, Reset, ResetTiming
  <2>2. sprites = char_addr /\ sprites' = char_addr
    BY <2>1 DEF Scan, Fetch, PixelEdge, IInv, Fetched
  <2>3. pixel' = IF display THEN Glyph(4 * char_addr + f_spec, hc, vc) ELSE Black
    BY <2>1, <2>2 DEF Scan, Draw
  <2> QED BY <2>3, AddressedCell DEF display, Drawn
<1> QED BY <1>1, FetchCorrect, PTL DEF Spec, AddressedCellsAreOwn

\* Lines are shorter than columns of the bitmap: the line is the remainder.
LEMMA AddressSplit ==
  ASSUME NEW x \in Nat, NEW y \in 0 .. VVISIBLE - 1
  PROVE  BitmapAddress(x, y) \div VVISIBLE = x /\ BitmapAddress(x, y) % VVISIBLE = y
<1>1. ASSUME NEW a \in Int, NEW d \in Nat \ {0}, NEW q \in Int, NEW r \in 0 .. d - 1,
             a = q * d + r
      PROVE  (a \div d) = q /\ (a % d) = r
  BY <1>1
<1>2. VVISIBLE \in Nat \ {0} /\ x * VVISIBLE \in Int
  BY VerticalAssumption
<1>3. x * VVISIBLE + y \in Int
  BY <1>2
<1> QED BY <1>1, <1>2, <1>3 DEF BitmapAddress

\* The addresses of the beam are those of its pixels on the picture, those of the
\* next column below it, and fit the address lines.
THEOREM AddressesCorrect == Spec => []BitmapAddressed
<1>1. TimingTypeOK => BitmapAddressed
  <2> SUFFICES ASSUME TimingTypeOK PROVE BitmapAddressed
    OBVIOUS
  <2>1. /\ hc \in Nat /\ hc <= hpixels /\ vc \in Nat /\ vc <= vlines
        /\ hpixels \in Nat /\ vlines \in Nat /\ VVISIBLE \in Nat \ {0}
    BY HorizontalAssumption, VerticalAssumption DEF TimingTypeOK
  <2>2. vc < VVISIBLE => SDRAM_ADDR \div VVISIBLE = hc /\ SDRAM_ADDR % VVISIBLE = vc
    <3>1. vc < VVISIBLE => vc \in 0 .. VVISIBLE - 1
      BY <2>1
    <3> QED BY <2>1, <3>1, AddressSplit, Zenon DEF SDRAM_ADDR
  <2>3. SDRAM_ADDR = BitmapAddress(hc + 1, vc - VVISIBLE)
    <3>1. (hc + 1) * VVISIBLE = hc * VVISIBLE + VVISIBLE /\ hc * VVISIBLE \in Nat
      BY <2>1
    <3> QED BY <2>1, <3>1 DEF SDRAM_ADDR, BitmapAddress
  <2>4. SDRAM_ADDR < 8388608
    <3>1. \A a, b, c \in Nat : a <= b => a * c <= b * c /\ a * c \in Nat /\ b * c \in Nat
      OBVIOUS
    <3>2. /\ hc * VVISIBLE <= hpixels * VVISIBLE
          /\ hc * VVISIBLE \in Nat /\ hpixels * VVISIBLE \in Nat
      BY <2>1, <3>1
    <3> QED BY <2>1, <3>2, SdramAssumption DEF SDRAM_ADDR, BitmapAddress
  <2> QED BY <2>2, <2>3, <2>4 DEF BitmapAddressed
<1>2. IInv => TimingTypeOK
  BY DEF IInv
<1> QED BY <1>1, <1>2, FetchCorrect, PTL

-----------------------------------------------------------------------------
(***************************************************************************)
(* The engine.                                                             *)
(***************************************************************************)
To(t) == << <<"transition", t>> >>

Back == << <<"transition", 0>>, <<"real", Unset>>, <<"imag", Unset>> >>

\* What main writes, and what is left of it after every write.
LEMMA StartupWrites ==
  /\ Startup \in Seq(Writes) /\ Startup # <<>>
  /\ Head(Startup) = <<"real", Unset>>
  /\ Tail(Startup) = << <<"imag", Unset>> >> /\ Tail(Startup) \in Seq(Writes)
BY DEF Startup, Writes, Constants

LEMMA BackWrites ==
  /\ To(0) \o Startup = Back /\ Back \in Seq(Writes) /\ Back # <<>>
  /\ Head(Back) = <<"transition", 0>> /\ Tail(Back) = Startup
<1>2. Back \in Seq(Writes) /\ Back # <<>>
  BY DEF Writes, Constants, Back
<1>1. To(0) \o Startup = Back
  <2> DEFINE s == To(0)
             t == Startup
  <2>1. s \in Seq(Writes) /\ Len(s) = 1 /\ s[1] = Back[1]
    BY DEF To, Back, Writes, Constants
  <2>2. t \in Seq(Writes) /\ Len(t) = 2 /\ t[1] = Back[2] /\ t[2] = Back[3] /\ Len(Back) = 3
    BY StartupWrites DEF Startup, Back
  <2> HIDE DEF s, t
  <2>3. /\ s \o t \in Seq(Writes) /\ Len(s \o t) = 1 + 2
        /\ \A i \in 1 .. 1 + 2 : (s \o t)[i] = IF i <= 1 THEN s[i] ELSE t[i - 1]
    <3>1. /\ s \o t \in Seq(Writes) /\ Len(s \o t) = Len(s) + Len(t)
          /\ \A i \in 1 .. Len(s) + Len(t) : (s \o t)[i] = IF i <= Len(s) THEN s[i] ELSE t[i - Len(s)]
      BY <2>1, <2>2, ConcatProperties
    <3> QED BY <2>1, <2>2, <3>1, Zenon
  <2>4. Len(s \o t) = Len(Back) /\ \A i \in 1 .. Len(s \o t) : (s \o t)[i] = Back[i]
    BY <2>1, <2>2, <2>3
  <2>5. s \o t = Back
    BY <1>2, <2>3, <2>4, SeqEqual, Zenon
  <2> QED BY <2>5 DEF s, t
<1>3. Head(Back) = <<"transition", 0>> /\ Tail(Back) = Startup
  BY DEF Startup, Back
<1> QED BY <1>1, <1>2, <1>3

LEMMA SelectWrites ==
  ASSUME NEW p \in Selections
  PROVE  /\ Select(p) \in Seq(Writes) /\ Select(p) # <<>>
         /\ Head(Select(p)) = <<"real", p>>
         /\ Tail(Select(p)) = << <<"imag", p>>, <<"transition", 1>> >>
         /\ Tail(Tail(Select(p))) = << <<"transition", 1>> >>
         /\ Tail(Select(p)) \in Seq(Writes)
         /\ Tail(Select(p)) # <<>> /\ Tail(Tail(Select(p))) # <<>>
<1>1. /\ Select(p) \in Seq(Writes) /\ Select(p) # <<>>
      /\ Head(Select(p)) = <<"real", p>>
      /\ Tail(Select(p)) = << <<"imag", p>>, <<"transition", 1>> >>
      /\ Tail(Tail(Select(p))) = << <<"transition", 1>> >>
      /\ Tail(Select(p)) \in Seq(Writes)
  BY DEF Select, Writes, Constants
<1>2. << <<"imag", p>>, <<"transition", 1>> >> # <<>> /\ << <<"transition", 1>> >> # <<>>
  OBVIOUS
<1> QED BY <1>1, <1>2, Zenon

LEMMA OtherWrites ==
  ASSUME NEW r, NEW v
  PROVE  /\ << <<r, v>> >> # <<>> /\ Head(<< <<r, v>> >>) = <<r, v>> /\ Tail(<< <<r, v>> >>) = <<>>
         /\ <<r, v>> \in Writes => << <<r, v>> >> \in Seq(Writes)
OBVIOUS

Phases == Selecting \/ Selected \/ Drawing

\* What main has to write in any phase is a sequence of writes.
LEMMA WritesTyped == Phases => writes \in Seq(Writes)
<1> SUFFICES ASSUME Phases PROVE writes \in Seq(Writes)
  OBVIOUS
<1>1. \A t \in 0 .. 3 : To(t) \in Seq(Writes)
  BY OtherWrites DEF To, Writes
<1>2. <<>> \in Seq(Writes) /\ 1 \in 0 .. 3
  OBVIOUS
<1>3. Restarting \subseteq Seq(Writes)
  BY <1>2, StartupWrites, BackWrites DEF Restarting, To
<1>4. CASE Selecting
  BY <1>1, <1>2, <1>3, <1>4, SelectWrites, Zenon DEF Selecting, To
<1>5. CASE Selected
  BY <1>2, <1>3, <1>5, Zenon DEF Selected, Restarting
<1>6. CASE Drawing
  BY <1>1, <1>3, <1>6, Zenon DEF Drawing, To
<1> QED BY <1>4, <1>5, <1>6 DEF Phases

LEMMA WritesTypedNext == Phases' => writes' \in Seq(Writes)
<1>1. (Phases => writes \in Seq(Writes))'
  BY WritesTyped, PTL
<1>2. Seq(Writes)' = Seq(Writes)
  BY DEF Writes, Constants
<1> QED BY <1>1, <1>2, Zenon

\* One write reaches its register.
Put(r, v, rest) ==
  /\ writes' = rest
  /\ transition' = IF r = "transition" THEN v ELSE transition
  /\ real_in' = IF r = "real" THEN v ELSE real_in
  /\ imag_in' = IF r = "imag" THEN v ELSE imag_in

LEMMA BusStep ==
  ASSUME Bus
  PROVE  /\ writes = <<>> => UNCHANGED inputs
         /\ \A r, v, rest : Head(writes) = <<r, v>> /\ Tail(writes) = rest =>
              UNCHANGED inputs \/ Put(r, v, rest)
BY DEF Bus, Put

\* What main writes on the way back to the start, in any phase.
LEMMA RestartStep ==
  ASSUME Bus, writes \in Restarting
  PROVE  /\ writes' \in Restarting
         /\ transition' \in {transition, 0}
         /\ real_in' \in {real_in, Unset} /\ imag_in' \in {imag_in, Unset}
<1>1. writes \in {Back, Startup, Tail(Startup), <<>>}
  BY BackWrites, Zenon DEF Restarting, To
<1>2. CASE UNCHANGED inputs
  BY <1>2, Zenon DEF inputs
<1>3. CASE Put("transition", 0, Startup)
  BY <1>3 DEF Put, Restarting
<1>4. CASE Put("real", Unset, Tail(Startup))
  BY <1>4 DEF Put, Restarting
<1>5. CASE Put("imag", Unset, <<>>)
  BY <1>5 DEF Put, Restarting
<1>6. /\ Head(Tail(Startup)) = <<"imag", Unset>>
      /\ Tail(Tail(Startup)) = <<>>
  BY StartupWrites, OtherWrites, Zenon
<1> QED BY <1>1, <1>2, <1>3, <1>4, <1>5, <1>6, StartupWrites, BackWrites, BusStep, Zenon

\* A clock while main may select: the latch follows the constants one by one,
\* and has both when the transition is written.
LEMMA SelectingStep ==
  ASSUME Selecting, Clock
  PROVE  Selecting' \/ Selected'
<1>1. Bus /\ state = 0 /\ transition = 0
  BY Zenon DEF Clock, Selecting
<1>2. state' = 0
  BY <1>1 DEF Clock, NextState
<1>3. IF real_in # Unset THEN real_var' = real_in /\ imag_var' = imag_in
                         ELSE UNCHANGED <<real_var, imag_var>>
  BY <1>1 DEF Clock, Latch
<1>4. ASSUME real_in = Unset, imag_in = Unset, real_var = imag_var
      PROVE  real_var' = real_var /\ imag_var' = real_var
  BY <1>3, <1>4
<1>5. CASE /\ writes \in Restarting
           /\ real_in = Unset /\ imag_in = Unset /\ real_var = imag_var
  <2>1. writes' \in Restarting /\ transition' = 0 /\ real_in' = Unset /\ imag_in' = Unset
    BY <1>1, <1>5, RestartStep
  <2>2. writes' \in Restarting'
    BY <2>1, Zenon DEF Restarting, Startup
  <2> QED BY <1>2, <1>4, <1>5, <2>1, <2>2, Zenon DEF Selecting
<1>6. CASE /\ writes \in {Select(p) : p \in Selections}
           /\ real_in = Unset /\ imag_in = Unset /\ real_var = imag_var
  <2>1. PICK p \in Selections : writes = Select(p)
    BY <1>6
  <2>2. UNCHANGED inputs \/ Put("real", p, Tail(Select(p)))
    BY <1>1, <2>1, SelectWrites, BusStep, Zenon
  <2>3. CASE UNCHANGED inputs
    <3>1. UNCHANGED <<writes, transition, real_in, imag_in>>
      BY <2>3 DEF inputs
    <3> QED BY <1>1, <1>2, <1>4, <1>6, <3>1 DEF Selecting, Select
  <2>4. CASE Put("real", p, Tail(Select(p)))
    <3>1. writes' = Tail(Select(p)) /\ transition' = 0 /\ real_in' = p
      BY <1>1, <2>4 DEF Put
    <3> QED BY <1>2, <3>1, Zenon DEF Selecting, Select
  <2> QED BY <2>2, <2>3, <2>4
<1>7. CASE /\ writes = To(1)
           /\ real_in = Unset /\ imag_in = Unset /\ real_var = imag_var
  <2>1. UNCHANGED inputs \/ Put("transition", 1, <<>>)
    BY <1>1, <1>7, OtherWrites, BusStep, Zenon DEF To
  <2>2. CASE UNCHANGED inputs
    <3>1. UNCHANGED <<writes, transition, real_in, imag_in>>
      BY <2>2 DEF inputs
    <3> QED BY <1>1, <1>2, <1>4, <1>7, <3>1 DEF Selecting, To
  <2>3. CASE Put("transition", 1, <<>>)
    <3>1. writes' = <<>> /\ transition' = 1 /\ real_in' = Unset /\ imag_in' = Unset
      BY <1>7, <2>3 DEF Put
    <3> QED BY <1>2, <1>4, <1>7, <3>1 DEF Selected
  <2> QED BY <2>1, <2>2, <2>3
<1>8. ASSUME NEW p \in Selections, real_in = p, writes = Tail(Select(p))
      PROVE  Selecting'
  <2>1. Head(writes) = <<"imag", p>> /\ Tail(writes) = Tail(Tail(Select(p)))
    <3>1. Head(<< <<"imag", p>>, <<"transition", 1>> >>) = <<"imag", p>>
      OBVIOUS
    <3> QED BY <1>8, <3>1, SelectWrites, Zenon
  <2>2. UNCHANGED inputs \/ Put("imag", p, Tail(Tail(Select(p))))
    BY <1>1, <2>1, BusStep, Zenon
  <2>3. CASE UNCHANGED inputs
    <3>1. UNCHANGED <<writes, transition, real_in, imag_in>>
      BY <2>3 DEF inputs
    <3> QED BY <1>1, <1>2, <1>8, <3>1, Zenon DEF Selecting, Select
  <2>4. CASE Put("imag", p, Tail(Tail(Select(p))))
    <3>1. /\ writes' = Tail(Tail(Select(p))) /\ transition' = 0
          /\ real_in' = p /\ imag_in' = p
      BY <1>1, <1>8, <2>4 DEF Put
    <3> QED BY <1>2, <3>1, Zenon DEF Selecting, Select
  <2> QED BY <2>2, <2>3, <2>4
<1>9. ASSUME NEW p \in Selections, real_in = p, imag_in = p,
             writes = Tail(Tail(Select(p)))
      PROVE  Selecting' \/ Selected'
  <2>1. writes = To(1)
    BY <1>9, SelectWrites, Zenon DEF To
  <2>2. UNCHANGED inputs \/ Put("transition", 1, <<>>)
    BY <1>1, <2>1, OtherWrites, BusStep, Zenon DEF To
  <2>3. real_var' = p /\ imag_var' = p
    BY <1>3, <1>9, SelectionsAssumption
  <2>4. CASE UNCHANGED inputs
    <3>1. UNCHANGED <<writes, transition, real_in, imag_in>>
      BY <2>4 DEF inputs
    <3> QED BY <1>1, <1>2, <1>9, <3>1, Zenon DEF Selecting, Select
  <2>5. CASE Put("transition", 1, <<>>)
    <3>1. writes' = <<>> /\ transition' = 1 /\ real_in' = p /\ imag_in' = p
      BY <1>9, <2>5 DEF Put
    <3> QED BY <1>2, <2>3, <3>1 DEF Selected
  <2> QED BY <2>2, <2>4, <2>5
<1> QED BY <1>5, <1>6, <1>7, <1>8, <1>9, Zenon DEF Selecting, To

\* The clock that follows takes the constants for the last time.
LEMMA SelectedStep ==
  ASSUME Selected, Clock
  PROVE  Drawing'
<1>1. /\ Bus /\ state' = 1 /\ writes \in Restarting
      /\ real_var = imag_var /\ real_in = imag_in /\ real_in \in {real_var, Unset}
  BY DEF Clock, Selected, NextState, Restarting
<1>2. real_var' = imag_var' /\ real_in \in {real_var', Unset}
  BY <1>1 DEF Clock, Latch
<1>3. writes' \in Restarting /\ real_in' \in {real_in, Unset}
  BY <1>1, RestartStep
<1>4. writes' \in Restarting'
  BY <1>3, Zenon DEF Restarting, Startup
<1> QED BY <1>1, <1>2, <1>3, <1>4 DEF Drawing

\* From then on the latch is closed, and main writes no constant of a selection.
LEMMA DrawingStep ==
  ASSUME Drawing, Clock, state \in 0 .. 3
  PROVE  Drawing'
<1>1. Bus /\ state # 0 /\ real_var = imag_var /\ real_in \in {real_var, Unset}
  BY Zenon DEF Clock, Drawing
<1>2. state' # 0
  BY <1>1 DEF Clock, NextState
<1>3. real_var' = real_var /\ imag_var' = imag_var
  BY <1>1 DEF Clock, Latch
<1>4. CASE writes \in Restarting
  <2>1. writes' \in Restarting /\ real_in' \in {real_in, Unset}
    BY <1>1, <1>4, RestartStep
  <2>2. writes' \in Restarting'
    BY <2>1, Zenon DEF Restarting, Startup
  <2> QED BY <1>1, <1>2, <1>3, <2>1, <2>2 DEF Drawing
<1>5. ASSUME NEW t \in 0 .. 3, writes = To(t) PROVE Drawing'
  <2>1. UNCHANGED inputs \/ Put("transition", t, <<>>)
    BY <1>1, <1>5, OtherWrites, BusStep, Zenon DEF To
  <2>2. real_in' = real_in
    BY <2>1 DEF inputs, Put
  <2>3. writes' = To(t) \/ writes' = <<>>
    BY <1>5, <2>1, Zenon DEF inputs, Put
  <2>4. writes' \in (Restarting \cup {<< <<"transition", u>> >> : u \in 0 .. 3})'
    BY <2>3, Zenon DEF Restarting, To
  <2> QED BY <1>1, <1>2, <1>3, <2>2, <2>4, Zenon DEF Drawing
<1> QED BY <1>4, <1>5, Zenon DEF Drawing, To

\* The counters never move: a calculation is started at every clock it lasts.
LEMMA CountersStay ==
  ASSUME Clock
  PROVE  /\ UNCHANGED <<x_draw, y_draw, once, shown, SDRAM_GRAB>>
         /\ bitmap' \in {bitmap, bitmap \cup {<<x_draw, y_draw>>}}
BY DEF Clock, iteration_start, calculating

LEMMA RegistersTyped ==
  ASSUME TypeOK, Clock
  PROVE  /\ transition' \in 0 .. 3 /\ real_in' \in Constants /\ imag_in' \in Constants
         /\ state' \in 0 .. 3 /\ real_var' \in Constants /\ imag_var' \in Constants
         /\ curr_state' \in 0 .. IDLE
<1>1. /\ transition' \in 0 .. 3 /\ real_in' \in Constants /\ imag_in' \in Constants
  <2>1. CASE writes = <<>> \/ UNCHANGED inputs
    BY <2>1, BusStep DEF Clock, TypeOK, inputs
  <2>2. CASE writes # <<>> /\ ~UNCHANGED inputs
    <3>1. Head(writes) \in Writes
      BY <2>2, HeadTailProperties DEF TypeOK
    <3>2. PICK r, v : Head(writes) = <<r, v>> /\ \/ r = "transition" /\ v \in 0 .. 3
                                                 \/ r \in {"real", "imag"} /\ v \in Constants
      BY <3>1 DEF Writes
    <3>3. Put(r, v, Tail(writes))
      BY <2>2, <3>2, BusStep, Zenon DEF Clock
    <3> QED BY <3>2, <3>3, Zenon DEF Put, TypeOK
  <2> QED BY <2>1, <2>2
<1>2. state' \in 0 .. 3
  BY DEF TypeOK, Clock, NextState
<1>3. real_var' \in Constants /\ imag_var' \in Constants
  BY DEF TypeOK, Clock, Latch
<1>4. curr_state' \in 0 .. IDLE
  BY DEF TypeOK, Clock, NextStep, LAST, IDLE
<1> QED BY <1>1, <1>2, <1>3, <1>4

LEMMA EngineClock ==
  ASSUME PhaseInv, Clock
  PROVE  PhaseInv'
<1>1. (Selecting \/ Selected \/ Drawing)'
  BY SelectingStep, SelectedStep, DrawingStep DEF PhaseInv, TypeOK
<1>2. writes' \in Seq(Writes)
  BY <1>1, WritesTypedNext DEF Phases
<1>3. TypeOK'
  BY <1>2, RegistersTyped, CountersStay DEF PhaseInv, TypeOK
<1> QED BY <1>1, <1>3 DEF PhaseInv

LEMMA ResetTyped ==
  /\ 0 \in 0 .. 3 /\ 0 \in Constants /\ Unset \in Constants
  /\ 0 \in 0 .. hpixels /\ 0 \in 0 .. vlines /\ FALSE \in BOOLEAN
  /\ IDLE \in 0 .. IDLE
BY HorizontalAssumption, VerticalAssumption DEF Constants, IDLE

\* What main decides to write, and the other edges.
LEMMA EngineOther ==
  ASSUME PhaseInv,
         \/ Key \/ Button \/ OtherTransition
         \/ ScreenEdge \/ EngineReset \/ UNCHANGED engineVars
  PROVE  PhaseInv'
<1>1. TypeOK /\ Phases
  BY Zenon DEF PhaseInv, Phases
<1>2. Phases'
  <2> USE DEF Phases
  <2>1. CASE Key
    <3>1. /\ writes = <<>> /\ transition' = 0 /\ state' = 0
          /\ UNCHANGED <<real_in, imag_in, real_var, imag_var>>
      BY <2>1, Zenon DEF Key, engine
    <3>2. real_in = Unset /\ imag_in = Unset /\ real_var = imag_var
      <4>1. Selecting
        BY <1>1, <2>1 DEF Key, Selected, Drawing
      <4>2. \A p \in Selections :
              writes # Tail(Select(p)) /\ writes # Tail(Tail(Select(p)))
        BY <3>1, SelectWrites, Zenon
      <4> QED BY <4>1, <4>2, Zenon DEF Selecting
    <3>3. writes' \in {Select(p) : p \in Selections} \cup {<< <<"transition", 1>> >>}
      BY <2>1 DEF Key
    <3> QED BY <3>1, <3>2, <3>3 DEF Selecting, Select
  <2>2. CASE Button
    <3>1. /\ writes = <<>> /\ writes' = << <<"transition", 0>> >> \o Startup
          /\ UNCHANGED <<transition, state, real_in, imag_in, real_var, imag_var>>
      BY <2>2, Zenon DEF Button, engine
    <3>2. writes' \in Restarting'
      BY <3>1, Zenon DEF Restarting, Startup
    <3>3. \A p \in Selections :
            writes # Tail(Select(p)) /\ writes # Tail(Tail(Select(p)))
      BY <3>1, SelectWrites, Zenon
    <3>4. CASE Selecting
      <4>1. real_in = Unset /\ imag_in = Unset /\ real_var = imag_var
        BY <3>3, <3>4, Zenon DEF Selecting
      <4> QED BY <3>1, <3>2, <3>4, <4>1, Zenon DEF Selecting
    <3>5. CASE Selected
      BY <3>1, <3>5, Zenon DEF Selected, Startup
    <3>6. CASE Drawing
      BY <3>1, <3>2, <3>6, Zenon DEF Drawing
    <3> QED BY <1>1, <3>4, <3>5, <3>6
  <2>3. CASE OtherTransition
    <3>1. PICK t \in 1 .. 3 : /\ <<state, t>> \in {<<1, 1>>, <<1, 2>>, <<2, 3>>}
                              /\ writes' = << <<"transition", t>> >>
      BY <2>3, Zenon DEF OtherTransition
    <3>2. UNCHANGED <<state, real_in, real_var, imag_var>>
      BY <2>3, Zenon DEF OtherTransition, engine
    <3>3. state # 0 /\ t \in 0 .. 3
      BY <3>1
    <3>4. Drawing
      BY <1>1, <3>3 DEF Selecting, Selected
    <3> QED BY <3>1, <3>2, <3>3, <3>4, Zenon DEF Drawing
  <2>4. CASE ScreenEdge \/ UNCHANGED engineVars
    <3>1. UNCHANGED <<writes, transition, real_in, imag_in, state, real_var, imag_var>>
      BY <2>4, Zenon DEF ScreenEdge, engineVars, inputs, engine
    <3> QED BY <1>1, <3>1, Zenon DEF Selecting, Selected, Drawing,
            Restarting, Startup, Select
  <2>5. CASE EngineReset
    <3>1. /\ writes' = Startup /\ transition' = 0 /\ state' = 0
          /\ real_in' = Unset /\ imag_in' = Unset /\ real_var' = imag_var'
      BY <2>5, Zenon DEF EngineReset
    <3>2. writes' \in Restarting'
      BY <3>1, Zenon DEF Restarting, Startup
    <3> QED BY <3>1, <3>2, Zenon DEF Selecting
  <2> QED BY <2>1, <2>2, <2>3, <2>4, <2>5
<1>3. writes' \in Seq(Writes)
  BY <1>2, WritesTypedNext
<1>4. TypeOK'
  <2>1. CASE Key \/ Button \/ OtherTransition \/ UNCHANGED engineVars
    <3>1. /\ UNCHANGED <<transition, real_in, imag_in>>
          /\ UNCHANGED engine /\ UNCHANGED <<shown, SDRAM_GRAB>>
      BY <2>1, Zenon DEF Key, Button, OtherTransition, engineVars,
         inputs
    <3> QED BY <1>1, <1>3, <3>1, Zenon DEF engine, TypeOK
  <2>2. CASE ScreenEdge
    <3>1. shown' \in {"text", "black", "bitmap", shown}
      BY <2>2 DEF ScreenEdge
    <3>2. shown' \in {"text", "black", "bitmap"}
      BY <1>1, <3>1 DEF TypeOK
    <3>3. SDRAM_GRAB' \in BOOLEAN
      BY <1>1, <2>2, Zenon DEF ScreenEdge, TypeOK
    <3>4. UNCHANGED <<transition, real_in, imag_in>> /\ UNCHANGED engine
      BY <2>2, Zenon DEF ScreenEdge, inputs
    <3> QED BY <1>1, <1>3, <3>2, <3>3, <3>4, Zenon DEF TypeOK, engine
  <2>3. CASE EngineReset
    BY <1>1, <1>3, <2>3, ResetTyped, Zenon DEF EngineReset, TypeOK
  <2> QED BY <2>1, <2>2, <2>3
<1> QED BY <1>2, <1>4, Zenon DEF PhaseInv, Phases

LEMMA PhasesStart == EngineInit => PhaseInv
<1> SUFFICES ASSUME EngineInit PROVE PhaseInv
  OBVIOUS
<1>1. Selecting
  <2>1. Startup \in Restarting
    BY Zenon DEF Restarting
  <2> QED BY <2>1, Zenon DEF EngineInit, Selecting
<1>2. TypeOK
  <2>1. {} \subseteq (0 .. hpixels) \X (0 .. vlines) /\ "text" \in {"text", "black", "bitmap"}
    OBVIOUS
  <2> QED BY <2>1, StartupWrites, ResetTyped, Zenon DEF EngineInit, TypeOK
<1> QED BY <1>1, <1>2, Zenon DEF PhaseInv

\* Whatever main offers and however its writes fall between the clocks, the engine
\* works with both constants of one selection.
THEOREM EngineCorrect == EngineSpec => []EngineInv
<1>1. EngineInit => PhaseInv
  BY PhasesStart
<1>2. PhaseInv /\ [EngineNext]_engineVars => PhaseInv'
  BY EngineClock, EngineOther DEF EngineNext
<1>3. PhaseInv => EngineInv
  BY Zenon DEF PhaseInv, EngineInv, SelectionLatched, Selecting,
     Selected, Drawing
<1> QED BY <1>1, <1>2, <1>3, PTL DEF EngineSpec

\* The engine, once it calculates, never comes past the first pixel, never ends,
\* and state 2 never shows the bitmap.
THEOREM FirstPixelCorrect == EngineSpec => []OnlyFirstPixel
<1>1. EngineInit => OnlyFirstPixel
  BY DEF EngineInit, OnlyFirstPixel
<1>2. OnlyFirstPixel /\ [EngineNext]_engineVars => OnlyFirstPixel'
  <2> SUFFICES ASSUME OnlyFirstPixel, [EngineNext]_engineVars
               PROVE  OnlyFirstPixel'
    OBVIOUS
  <2>1. CASE Clock
    BY <2>1, CountersStay DEF OnlyFirstPixel
  <2>2. CASE ScreenEdge
    BY <2>2 DEF ScreenEdge, OnlyFirstPixel, engine, calculating
  <2>3. CASE EngineReset
    BY <2>3 DEF EngineReset, OnlyFirstPixel
  <2>4. CASE Key \/ Button \/ OtherTransition \/ UNCHANGED engineVars
    <3>1. /\ x_draw' = x_draw /\ y_draw' = y_draw /\ once' = once /\ bitmap' = bitmap
          /\ shown' = shown /\ SDRAM_GRAB' = SDRAM_GRAB
      BY <2>4, Zenon DEF Key, Button, OtherTransition, engineVars,
         engine
    <3> QED BY <3>1, Zenon DEF OnlyFirstPixel
  <2> QED BY <2>1, <2>2, <2>3, <2>4 DEF EngineNext
<1> QED BY <1>1, <1>2, PTL DEF EngineSpec
-----------------------------------------------------------------------------
(***************************************************************************)
(* EscapeIntensity: the table of logarithms and the byte that is cut out   *)
(* of the product, and what FractalEngine makes of them.                   *)
(***************************************************************************)
LEMMA LogarithmsRise ==
  ASSUME NEW n \in 1 .. 101
  PROVE  /\ naturallog(n) \in Int /\ 0 <= naturallog(n) /\ naturallog(n) <= 302456
         /\ n < 101 => naturallog(n) <= naturallog(n + 1)
<1>1. naturallog(n) \in Int
  BY SMT DEF naturallog, table
<1>2. 0 <= naturallog(n) /\ naturallog(n) <= 302456
  BY SMT DEF naturallog, table
<1>3. n < 101 => naturallog(n) <= naturallog(n + 1)
  BY SMT DEF naturallog, table
<1> QED BY <1>1, <1>2, <1>3

\* No product of the table is beyond the rounding, whoever looks it up.
LEMMA LogarithmsAdd ==
  ASSUME NEW a \in 1 .. 101, NEW b \in 1 .. 101, a * b \in 1 .. 101
  PROVE  naturallog(a) + naturallog(b) - naturallog(a * b) \in -1 .. 1
BY SMT DEF naturallog, table

LEMMA QuotientFits ==
  ASSUME NEW a \in 1 .. 101, NEW b \in 1 .. 101 \div a
  PROVE  b \in 1 .. 101 /\ a * b \in 1 .. 101
<1>1. 101 = a * (101 \div a) + (101 % a) /\ 101 \div a \in Int /\ (101 % a) >= 0
  OBVIOUS
<1>2. PICK q \in Int : q = 101 \div a
  BY <1>1
<1>3. a * b <= a * q
  BY <1>2
<1>4. a * b >= a /\ a * b >= b
  BY <1>2
<1> QED BY <1>1, <1>2, <1>3, <1>4

\* The product rises with the logarithm and never reaches 2.
LEMMA ScaledRises ==
  ASSUME NEW n \in 0 .. 99
  PROVE  /\ Scaled(n) \in Int /\ Scaled(n) < 2 * ONE
         /\ Scaled(n + 1) \in Int /\ Scaled(n) <= Scaled(n + 1)
<1>1. PICK x \in Int : x = naturallog(n + 1) /\ 0 <= x /\ x <= 302456
  BY LogarithmsRise
<1>2. PICK y \in Int : y = naturallog(n + 1 + 1) /\ x <= y
  BY <1>1, LogarithmsRise
<1> QED BY <1>1, <1>2 DEF Scaled, ONE, ln_1y_fractional

LEMMA IntensityRises ==
  ASSUME NEW n \in 0 .. 98
  PROVE  Intensity(n + 1) >= Intensity(n)
<1>1. PICK s \in Int : s = Scaled(n) /\ s < 131072
  BY ScaledRises DEF ONE
<1>2. PICK t \in Int : t = Scaled(n + 1) /\ s <= t /\ t < 131072
  BY <1>1, ScaledRises DEF ONE
<1> QED BY <1>1, <1>2 DEF Intensity, ONE

\* The entry that a step looks up behaves as its logarithm: with those of every
\* product in the table it agrees up to the rounding of the three entries.
THEOREM LogarithmCorrect == EngineSpec => []LnAdds
<1>1. TypeOK => LnAdds
  <2> SUFFICES ASSUME TypeOK, curr_state < LAST, NEW b \in 1 .. 101 \div (curr_state + 1)
               PROVE  naturallog(curr_state + 1) + naturallog(b)
                        - naturallog((curr_state + 1) * b) \in -1 .. 1
    BY Zenon DEF LnAdds
  <2>1. PICK a \in 1 .. 101 : a = curr_state + 1
    BY DEF TypeOK, LAST, IDLE
  <2> QED BY <2>1, QuotientFits, LogarithmsAdd, Zenon
<1>2. EngineInv => TypeOK
  BY Zenon DEF EngineInv
<1> QED BY <1>1, <1>2, EngineCorrect, PTL

\* Whatever the engine is driven with, a pixel that escapes later is never darker.
THEOREM BrightnessCorrect == EngineSpec => IntensityGrows
<1>1. TypeOK /\ [EngineNext]_engineVars
        => [ calculating /\ curr_state' = curr_state + 1 /\ curr_state' < LAST
               => (SDRAM_I' >= SDRAM_I) ]_engineVars
  <2> SUFFICES ASSUME TypeOK, curr_state' = curr_state + 1, curr_state' < LAST
               PROVE  SDRAM_I' >= SDRAM_I
    OBVIOUS
  <2>1. PICK n \in 0 .. 98 : n = curr_state
    BY DEF TypeOK, LAST, IDLE
  <2>2. SDRAM_I = Intensity(n) /\ SDRAM_I' = Intensity(n + 1)
    BY <2>1 DEF SDRAM_I, LAST, IDLE
  <2> QED BY <2>2, IntensityRises
<1>2. EngineInv => TypeOK
  BY Zenon DEF EngineInv
<1> QED BY <1>1, <1>2, EngineCorrect, PTL DEF EngineSpec, IntensityGrows
=============================================================================
