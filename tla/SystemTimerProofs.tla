------------------------- MODULE SystemTimerProofs -------------------------
(***************************************************************************)
(* Proofs about the clock of the board support package, for words, rates   *)
(* and delays of every size: the millisecond clock that is computed with a *)
(* product that wraps is the clock of SettleTimer; the settle delay is     *)
(* never cut short, neither by the wrap nor by lost ticks; and the alarms  *)
(* of alt_tick are called at their ticks.                                  *)
(***************************************************************************)
EXTENDS SystemTimer, TLAPS

-----------------------------------------------------------------------------
(***************************************************************************)
(* The wrap of the clock never shortens the delay (SettleTimer).           *)
(***************************************************************************)
USE MaxMsAssumption, SettleTimeAssumption

LEMMA InitIInv == Init => IInv
BY DEF Init, IInv, TypeOK, ExpiryAhead

LEMMA NextIInv == IInv /\ [Next]_vars => IInv'
<1> SUFFICES ASSUME IInv, [Next]_vars PROVE IInv'
  OBVIOUS
<1> USE DEF IInv, TypeOK, ExpiryAhead
<1>1. CASE StartSettle
  BY <1>1 DEF StartSettle
<1>2. CASE EndSettle
  BY <1>2 DEF EndSettle
<1>3. CASE Attach
  BY <1>3 DEF Attach
<1>4. CASE Tick
  <2>1. ms' = ms + 1 \/ ms' = 0
    BY <1>4 DEF Tick, NextMs
  <2>2. usb_task_state' = usb_task_state /\ usb_delay' = usb_delay
    BY <1>4 DEF Tick
  <2>3. elapsed' = IF elapsed <= SettleTime THEN elapsed + 1 ELSE elapsed
    BY <1>4 DEF Tick
  <2>4. TypeOK'
    BY <1>4 DEF Tick, NextMs
  <2>5. ExpiryAhead'
    BY <2>1, <2>2, <2>3
  <2>6. QED
    BY <2>4, <2>5
<1>5. CASE UNCHANGED vars
  BY <1>5 DEF vars
<1>6. QED
  BY <1>1, <1>2, <1>3, <1>4, <1>5 DEF Next

\* While a delay lasts its expiry lies ahead of the clock, whatever state of the
\* host it has been started for.
THEOREM ExpiryCorrect == Spec => []IInv
BY InitIInv, NextIInv, PTL DEF Spec

\* Whatever the length of the delay and the range of the clock, USB_Task resets
\* the bus only when more than the settle time has passed since it started a
\* delay, even if a left-over bus event has taken it past the start of one.
THEOREM SettleCorrect == Spec => SettlesLongEnough
<1>1. Spec => []IInv
  BY ExpiryCorrect
<1>2. IInv /\ [Next]_vars
        => [usb_task_state = "SETTLE" /\ usb_task_state' = "RESET_DEVICE"
              => elapsed > SettleTime]_vars
  <2> SUFFICES ASSUME IInv, Next, usb_task_state = "SETTLE", usb_task_state' = "RESET_DEVICE"
               PROVE  elapsed > SettleTime
    BY DEF vars
  <2>1. EndSettle
    BY DEF Next, StartSettle, Attach, Tick
  <2>2. QED
    BY <2>1 DEF EndSettle, IInv, TypeOK, ExpiryAhead
<1>3. QED
  BY <1>1, <1>2, PTL DEF Spec, SettlesLongEnough
-----------------------------------------------------------------------------
(***************************************************************************)
(* Division with remainder.                                                *)
(***************************************************************************)
LEMMA DivMod ==
  ASSUME NEW a \in Int, NEW d \in Nat \ {0}
  PROVE  /\ a = (a \div d) * d + (a % d)
         /\ a \div d \in Int /\ (a % d) \in 0 .. d - 1
OBVIOUS

LEMMA DivUnique ==
  ASSUME NEW a \in Int, NEW d \in Nat \ {0}, NEW q \in Int, NEW r \in 0 .. d - 1, a = q * d + r
  PROVE  (a \div d) = q /\ (a % d) = r
OBVIOUS

\* Only the remainder of a summand matters for that of the sum.
LEMMA ModAdd ==
  ASSUME NEW d \in Nat \ {0}, NEW a \in Int, NEW b \in Int
  PROVE  (a + b) % d = ((a % d) + b) % d
<1>1. PICK q \in Int, r \in 0 .. d - 1 : a = q * d + r
  BY DivMod, Zenon
<1>2. r + b \in Int /\ a + b \in Int
  OBVIOUS
<1>3. PICK p \in Int, s \in 0 .. d - 1 : r + b = p * d + s
  BY <1>2, DivMod, Zenon
<1>4. (a % d) = r
  BY <1>1, DivUnique, Zenon
<1>5. ((r + b) % d) = s
  BY <1>2, <1>3, DivUnique, Zenon
<1>6. a + b = (q + p) * d + s /\ q + p \in Int
  <2>1. (q + p) * d = q * d + p * d /\ q * d \in Int /\ p * d \in Int
    OBVIOUS
  <2> QED BY <1>1, <1>3, <2>1
<1>7. ((a + b) % d) = s
  BY <1>2, <1>6, DivUnique, Zenon
<1> QED BY <1>4, <1>5, <1>7, Zenon

LEMMA DivSteps ==
  ASSUME NEW d \in Nat \ {0}, NEW a \in Int
  PROVE  /\ ((a + d) \div d) = (a \div d) + 1
         /\ \A b \in Int : a <= b => (a \div d) <= (b \div d)
         /\ a \in 0 .. d - 1 => (a \div d) = 0
         /\ a >= 0 => (a \div d) \in Nat
OBVIOUS

-----------------------------------------------------------------------------
(***************************************************************************)
(* The clock.                                                              *)
(***************************************************************************)
LEMMA WordIsLarge == Word \in Nat \ {0} /\ Scale \in 1 .. Word - 1
<1>1. Word \in Nat /\ Scale \in Nat \ {0} /\ MaxMs \in Nat \ {0} /\ MaxMs = (Word - 1) \div Scale
  BY WordAssumption, MaxMsAssumption
<1>2. ~(Word - 1 < 0)
  <2>1. ASSUME Word = 0 PROVE ((-1) \div Scale) = -1
    BY <1>1
  <2> QED BY <1>1, <2>1
<1>3. ASSUME Word - 1 < Scale PROVE FALSE
  <2>1. Word - 1 \in 0 .. Scale - 1
    BY <1>1, <1>2, <1>3
  <2>2. ((Word - 1) \div Scale) = 0
    BY <1>1, <2>1
  <2> QED BY <1>1, <2>2
<1> QED BY <1>1, <1>2, <1>3

\* From one tick to the next the product grows by Scale, up to the wrap.
LEMMA ReadingStep ==
  ASSUME NEW r \in 0 .. Word - 1
  PROVE  ((r + Scale) % Word) \div Scale \in NextMs(r \div Scale)
<1> DEFINE max == (Word - 1) \div Scale
<1>1. Word \in Nat \ {0} /\ Scale \in 1 .. Word - 1 /\ MaxMs = max
  BY WordIsLarge, WordAssumption
<1>2. r \in Int /\ r >= 0 /\ Scale \in Nat \ {0} /\ Word - 1 \in Int /\ r + Scale \in Int
  BY <1>1
<1>3. ((r + Scale) \div Scale) = (r \div Scale) + 1 /\ (r \div Scale) \in Nat
  BY <1>2, DivSteps
<1>4. max \in Int
  BY <1>2, DivMod
<1>5. CASE r + Scale < Word
  <2>1. ((r + Scale) % Word) = r + Scale
    BY <1>1, <1>5
  <2>2. r + Scale <= Word - 1
    BY <1>1, <1>5
  <2>3. ((r + Scale) \div Scale) <= max
    BY <1>2, <2>2, DivSteps, Zenon
  <2>4. ((r + Scale) % Word) \div Scale = (r \div Scale) + 1 /\ (r \div Scale) < max
    <3> HIDE DEF max
    <3> QED BY <1>3, <1>4, <2>1, <2>3
  <2> HIDE DEF max
  <2> QED BY <1>1, <2>4 DEF NextMs
<1>6. CASE ~(r + Scale < Word)
  <2>1. ((r + Scale) % Word) = r + Scale - Word /\ r + Scale - Word \in 0 .. Scale - 1
    BY <1>1, <1>6
  <2>2. (((r + Scale) % Word) \div Scale) = 0
    BY <1>2, <2>1, DivSteps
  <2>3. Word - 1 <= r + Scale
    BY <1>1, <1>6
  <2>4. max <= ((r + Scale) \div Scale)
    BY <1>2, <2>3, DivSteps, Zenon
  <2>5. (r \div Scale) >= max - 1
    <3> HIDE DEF max
    <3> QED BY <1>3, <1>4, <2>4
  <2> HIDE DEF max
  <2> QED BY <1>1, <2>2, <2>5 DEF NextMs
<1> QED BY <1>5, <1>6

LEMMA MsNext ==
  ASSUME NEW now \in 0 .. Word - 1
  PROVE  /\ Ms(now, Word, Scale) \in 0 .. MaxMs
         /\ (now + 1) % Word \in 0 .. Word - 1
         /\ Ms((now + 1) % Word, Word, Scale) \in NextMs(Ms(now, Word, Scale))
<1> DEFINE r == (now * Scale) % Word
<1>1. Word \in Nat \ {0} /\ Scale \in Nat \ {0} /\ now \in Nat
  BY WordIsLarge
<1>2. now * Scale \in Int /\ (now + 1) * Scale = now * Scale + Scale
  BY <1>1
<1>3. r \in 0 .. Word - 1
  BY <1>1, <1>2, DivMod
<1>4. Ms(now, Word, Scale) = r \div Scale
  BY DEF Ms
<1>5. r \div Scale \in 0 .. MaxMs
  <2>1. r \in Int /\ Word - 1 \in Int /\ r <= Word - 1 /\ r >= 0
    BY <1>1, <1>3
  <2>2. (r \div Scale) <= ((Word - 1) \div Scale) /\ (r \div Scale) \in Nat
    <3> HIDE DEF r
    <3> QED BY <1>1, <2>1, DivSteps
  <2> HIDE DEF r
  <2> QED BY <2>2, WordAssumption, MaxMsAssumption
<1>6. ((now * Scale + Scale) % Word) = (r + Scale) % Word
  <2>1. Scale \in Int
    BY <1>1
  <2> QED BY <1>1, <1>2, <2>1, ModAdd, Zenon
<1>7. Ms((now + 1) % Word, Word, Scale) = ((now * Scale + Scale) % Word) \div Scale
  <2>1. CASE now + 1 < Word
    <3>1. ((now + 1) % Word) = now + 1
      BY <1>1, <2>1
    <3> QED BY <1>2, <3>1 DEF Ms
  <2>2. CASE now + 1 = Word
    <3>1. ((now + 1) % Word) = 0
      BY <1>1, <2>2
    <3>2. (Word * Scale) % Word = 0 /\ (0 * Scale) % Word = 0
      <4>1. Word * Scale = Scale * Word + 0 /\ 0 * Scale = 0 * Word + 0
        BY <1>1
      <4>2. Word * Scale \in Int /\ 0 * Scale \in Int /\ 0 \in 0 .. Word - 1
        BY <1>1
      <4> QED BY <1>1, <4>1, <4>2, DivUnique
    <3>3. now * Scale + Scale = Word * Scale
      BY <1>2, <2>2
    <3> QED BY <3>1, <3>2, <3>3 DEF Ms
  <2> QED BY <1>1, <2>1, <2>2
<1>8. (now + 1) % Word \in 0 .. Word - 1
  BY <1>1, DivMod
<1> HIDE DEF r
<1> QED BY <1>3, <1>4, <1>5, <1>6, <1>7, <1>8, ReadingStep

Counter == nticks \in 0 .. Word - 1 /\ ms = Ms(nticks, Word, Scale)

LEMMA CounterStep == Counter /\ [SystemNext]_allVars => Counter'
<1> SUFFICES ASSUME Counter, [SystemNext]_allVars PROVE Counter'
  OBVIOUS
<1>1. CASE Irq
  <2>1. nticks' = (nticks + 1) % Word /\ ms' = Ms(nticks', Word, Scale)
    BY <1>1 DEF Irq, alt_tick, NextTick
  <2> QED BY <2>1, MsNext DEF Counter
<1>2. CASE ~Irq
  <2>1. UNCHANGED <<nticks, ms>>
    BY <1>2 DEF SystemNext, alt_alarm_start, alt_alarm_stop, Timeout, Start, StartSettle, End,
       EndSettle, Again, Attach, settleVars, timerVars, allVars
  <2> QED BY <2>1 DEF Counter
<1> QED BY <1>1, <1>2

\* Every served tick is one of the clock of SettleTimer, everything else leaves it.
LEMMA ClockStep == Counter /\ [SystemNext]_allVars => [Next]_vars
<1> SUFFICES ASSUME Counter, [SystemNext]_allVars PROVE [Next]_vars
  OBVIOUS
<1>1. CASE Irq
  <2>1. /\ ms' = Ms((nticks + 1) % Word, Word, Scale)
        /\ elapsed' = IF elapsed <= SettleTime THEN elapsed + 1 ELSE elapsed
        /\ UNCHANGED <<usb_task_state, usb_delay>>
    BY <1>1 DEF Irq, alt_tick, NextTick
  <2>2. ms' \in NextMs(ms)
    BY <2>1, MsNext DEF Counter
  <2> QED BY <2>1, <2>2 DEF Next, Tick
<1>2. CASE alt_alarm_start \/ alt_alarm_stop \/ Timeout
  BY <1>2 DEF alt_alarm_start, alt_alarm_stop, Timeout, settleVars, vars
<1>3. CASE Start \/ End \/ Again
  BY <1>3 DEF Start, End, Again, Next
<1>4. CASE UNCHANGED allVars
  BY <1>4 DEF allVars, settleVars, vars
<1> QED BY <1>1, <1>2, <1>3, <1>4 DEF SystemNext

LEMMA SystemInitClock == SystemInit => Counter /\ Init
<1> SUFFICES ASSUME SystemInit PROVE Counter /\ Init
  OBVIOUS
<1>1. nticks \in 0 .. Word - 1 /\ ms = Ms(nticks, Word, Scale)
  BY DEF SystemInit
<1>2. ms \in 0 .. MaxMs
  BY <1>1, MsNext
<1> QED BY <1>1, <1>2 DEF SystemInit, Init, Counter

\* (alt_nticks()*1000)/alt_ticks_per_second(), whose product wraps, is the clock
\* that the settle delay is specified with: from tick to tick it goes on by one,
\* or falls to 0 from one of its last two readings.
THEOREM ClockCorrect == SystemSpec => ImplementsClock
<1>1. SystemInit => Counter /\ Init
  BY SystemInitClock
<1>2. Counter /\ [SystemNext]_allVars => Counter'
  BY CounterStep
<1>3. Counter /\ [SystemNext]_allVars => [Next]_vars
  BY ClockStep
<1> QED BY <1>1, <1>2, <1>3, PTL DEF SystemSpec, ImplementsClock, Spec

-----------------------------------------------------------------------------
(***************************************************************************)
(* Lost ticks.                                                             *)
(***************************************************************************)
Pending == IF TO THEN 1 ELSE 0

LEMMA CountedStep ==
  ASSUME IInv, Counter, CountedInv, [SystemNext]_allVars
  PROVE  CountedInv'
<1>0. /\ elapsed \in 0 .. SettleTime + 1 /\ real \in 0 .. SettleTime + 1 /\ SettleTime \in Nat
      /\ real > SettleTime \/ elapsed + Pending <= real + 1
  BY DEF IInv, TypeOK, CountedInv, Pending
<1>1. ms' = Ms(nticks, Word, Scale)'
  BY CounterStep DEF Counter
<1>2. TO' \in BOOLEAN
  BY Zenon DEF CountedInv, SystemNext, alt_alarm_start, alt_alarm_stop, Timeout, Irq,
     Acknowledge, Start, End, Again, timerVars, allVars
<1>3. CASE Irq
  <2>1. TO /\ TO' = FALSE /\ real' = real
    BY <1>3, Zenon DEF Irq, Acknowledge
  <2>2. elapsed' = IF elapsed <= SettleTime THEN elapsed + 1 ELSE elapsed
    BY <1>3 DEF Irq
  <2>3. Pending = 1 /\ Pending' = 0
    BY <2>1 DEF Pending
  <2>4. real' > SettleTime \/ elapsed' + Pending' <= real' + 1
    BY <1>0, <2>1, <2>2, <2>3
  <2> QED BY <1>0, <1>1, <1>2, <2>1, <2>4 DEF CountedInv, Pending
<1>4. CASE Timeout
  <2>1. TO' = TRUE /\ elapsed' = elapsed /\ real' = IF real <= SettleTime THEN real + 1 ELSE real
    BY <1>4, Zenon DEF Timeout, settleVars
  <2>2. Pending' = 1 /\ Pending \in {0, 1}
    BY <2>1 DEF Pending
  <2>3. real' > SettleTime \/ elapsed' + Pending' <= real' + 1
    BY <1>0, <2>1, <2>2
  <2> QED BY <1>0, <1>1, <1>2, <2>1, <2>3 DEF CountedInv, Pending
<1>5. CASE Start
  <2>1. TO' = TO /\ elapsed' = 0 /\ real' = 0
    BY <1>5, Zenon DEF Start, StartSettle, timerVars
  <2>2. Pending' \in {0, 1}
    BY DEF Pending
  <2>3. elapsed' + Pending' <= real' + 1
    <3>1. \A p \in {0, 1} : 0 + p <= 0 + 1
      OBVIOUS
    <3>2. 0 + Pending' <= 0 + 1
      BY <2>2, <3>1, Zenon
    <3> QED BY <2>1, <3>2, Zenon
  <2> QED BY <1>0, <1>1, <1>2, <2>1, <2>3 DEF CountedInv, Pending
<1>6. CASE alt_alarm_start \/ alt_alarm_stop \/ End \/ Again \/ UNCHANGED allVars
  <2>1. UNCHANGED <<TO, elapsed, real>>
    BY <1>6 DEF alt_alarm_start, alt_alarm_stop, End, EndSettle, Again, Attach, settleVars,
       timerVars, allVars
  <2> QED BY <1>1, <1>2, <2>1 DEF CountedInv
<1> QED BY <1>3, <1>4, <1>5, <1>6 DEF SystemNext

\* From the start of a delay to a reset there are SettleTime periods of the timer
\* at least, although a tick may be waiting when it starts and interrupts held off
\* lose others.
THEOREM RealTimeCorrect == SystemSpec => SettlesInRealTime
<1>1. SystemSpec => []IInv
  <2>1. SystemSpec => Spec
    BY ClockCorrect DEF ImplementsClock
  <2> QED BY <2>1, ExpiryCorrect, PTL
<1>2. SystemInit => Counter /\ CountedInv
  <2> SUFFICES ASSUME SystemInit PROVE Counter /\ CountedInv
    OBVIOUS
  <2>1. Counter
    BY SystemInitClock
  <2>2. real = SettleTime + 1 /\ TO = FALSE
    BY Zenon DEF SystemInit
  <2>3. real > SettleTime /\ real \in 0 .. SettleTime + 1
    <3>1. \A n \in Nat : n + 1 > n /\ n + 1 \in 0 .. n + 1
      OBVIOUS
    <3> QED BY <2>2, <3>1, SettleTimeAssumption, Zenon
  <2>4. TO \in BOOLEAN
    BY <2>2, Zenon
  <2> QED BY <2>1, <2>3, <2>4, Zenon DEF Counter, CountedInv
<1>3. IInv /\ Counter /\ CountedInv /\ [SystemNext]_allVars => Counter' /\ CountedInv'
  BY CounterStep, CountedStep
<1>4. IInv /\ CountedInv /\ [SystemNext]_allVars
        => [usb_task_state = "SETTLE" /\ usb_task_state' = "RESET_DEVICE"
              => real >= SettleTime]_allVars
  <2> SUFFICES ASSUME IInv, CountedInv, SystemNext, usb_task_state = "SETTLE",
                      usb_task_state' = "RESET_DEVICE"
               PROVE  real >= SettleTime
    OBVIOUS
  <2>1. EndSettle
    BY DEF SystemNext, alt_alarm_start, alt_alarm_stop, Timeout, Irq, Start, StartSettle, End,
       Again, Attach, settleVars
  <2>2. elapsed > SettleTime
    BY <2>1 DEF EndSettle, IInv, TypeOK, ExpiryAhead
  <2>3. Pending \in {0, 1}
    BY DEF Pending
  <2>4. /\ elapsed \in 0 .. SettleTime + 1 /\ real \in 0 .. SettleTime + 1
        /\ real > SettleTime \/ elapsed + Pending <= real + 1
    BY DEF IInv, TypeOK, CountedInv, Pending
  <2> QED BY <2>2, <2>3, <2>4
<1> QED BY <1>1, <1>2, <1>3, <1>4, PTL DEF SystemSpec, SettlesInRealTime

-----------------------------------------------------------------------------
(***************************************************************************)
(* One alarm, seen at a reading of the counter: how many ticks are left.   *)
(***************************************************************************)
Reading == 0 .. Word - 1
Entry == [on : BOOLEAN, time : Reading, rollover : BOOLEAN]

\* The entry of an alarm that is still to come.
Fits(r, now) == r.on => r.time # now /\ (r.rollover <=> r.time < now)

Left(r, now) == IF r.on THEN (r.time - now) % Word ELSE 0

LEMMA ModNear ==
  ASSUME NEW d \in Nat \ {0}, NEW a \in Int
  PROVE  /\ a \in 0 .. d - 1 => (a % d) = a
         /\ a \in d .. d + d - 1 => (a % d) = a - d
         /\ a \in -d .. -1 => (a % d) = a + d
<1>1. ASSUME a \in 0 .. d - 1 PROVE (a % d) = a
  <2>1. a = 0 * d + a
    BY <1>1
  <2> QED BY <1>1, <2>1, DivUnique
<1>2. ASSUME a \in d .. d + d - 1 PROVE (a % d) = a - d
  <2>1. a = 1 * d + (a - d) /\ a - d \in 0 .. d - 1
    BY <1>2
  <2> QED BY <2>1, DivUnique
<1>3. ASSUME a \in -d .. -1 PROVE (a % d) = a + d
  <2>1. a = (-1) * d + (a + d) /\ a + d \in 0 .. d - 1 /\ -1 \in Int
    BY <1>3
  <2> QED BY <2>1, DivUnique
<1> QED BY <1>1, <1>2, <1>3

\* The ticks left to an entry that fits, whichever side of the counter it is on.
LEMMA LeftValue ==
  ASSUME NEW now \in Reading, NEW r \in Entry, Fits(r, now), r.on
  PROVE  /\ r.time > now => Left(r, now) = r.time - now
         /\ r.time < now => Left(r, now) = r.time - now + Word
         /\ r.time > now \/ r.time < now
         /\ Left(r, now) \in 1 .. Word - 1
<1>1. Word \in Nat \ {0} /\ r.time \in Reading /\ r.time # now
  BY WordIsLarge, Zenon DEF Entry, Fits
<1>2. Left(r, now) = (r.time - now) % Word
  BY Zenon DEF Left
<1>3. \A t \in Reading : t # now =>
        /\ t > now => t - now \in 1 .. Word - 1
        /\ t < now => t - now \in -Word .. -1 /\ t - now + Word \in 1 .. Word - 1
        /\ t > now \/ t < now
        /\ t - now \in Int
  BY <1>1 DEF Reading
<1>4. \A x \in Int : /\ x \in 1 .. Word - 1 => (x % Word) = x
                     /\ x \in -Word .. -1 => (x % Word) = x + Word
  <2> TAKE x \in Int
  <2>1. x \in 1 .. Word - 1 => x \in 0 .. Word - 1
    BY <1>1
  <2> QED BY <1>1, <2>1, ModNear, Zenon
<1>5. r.time - now \in Int
  BY <1>1, <1>3, Zenon
<1> QED BY <1>1, <1>2, <1>3, <1>4, <1>5, Zenon

\* An alarm started for the future fits, whether or not its time wraps.
LEMMA AlarmAtFits ==
  ASSUME NEW now \in Reading, NEW n \in 1 .. Word - 1
  PROVE  /\ AlarmAt(now + n, now) \in Entry /\ AlarmAt(now + n, now).on
         /\ Fits(AlarmAt(now + n, now), now)
         /\ Left(AlarmAt(now + n, now), now) = n
<1> DEFINE t == (now + n) % Word
           r == AlarmAt(now + n, now)
<1>1. Word \in Nat \ {0} /\ now + n \in Int
  BY WordIsLarge DEF Reading
<1>2. \/ now + n \in 0 .. Word - 1 /\ t = now + n
      \/ now + n \in Word .. Word + Word - 1 /\ t = (now + n) - Word
  <2>1. now + n \in 0 .. Word - 1 \/ now + n \in Word .. Word + Word - 1
    BY <1>1 DEF Reading
  <2>2. /\ now + n \in 0 .. Word - 1 => t = now + n
        /\ now + n \in Word .. Word + Word - 1 => t = (now + n) - Word
    BY <1>1, ModNear, Zenon
  <2> QED BY <2>1, <2>2, Zenon
<1>3. t \in Reading /\ t # now /\ (t > now => t - now = n) /\ (t < now => t - now + Word = n)
  <2> HIDE DEF t
  <2> QED BY <1>1, <1>2 DEF Reading
<1>4. r.on = TRUE /\ r.time = t /\ r.rollover = (t < now) /\ r \in [on : {TRUE}, time : {t}, rollover : {t < now}]
  BY DEF AlarmAt
<1>5. r \in Entry
  BY <1>3 DEF AlarmAt, Entry
<1>6. Fits(r, now)
  BY <1>3, <1>4, Zenon DEF Fits
<1>7. Left(r, now) = n
  <2> HIDE DEF r, t
  <2> QED BY <1>3, <1>4, <1>5, <1>6, LeftValue, Zenon
<1> QED BY <1>4, <1>5, <1>6, <1>7, Zenon

\* One tick of the counter: it is the time of an entry when one tick was left,
\* and any other entry still fits, with one tick less.
LEMMA Turn ==
  ASSUME NEW now \in Reading, NEW r \in Entry, Fits(r, now), r.on,
         NEW next, next = (now + 1) % Word,
         NEW waits \in BOOLEAN, waits <=> r.rollover /\ next # 0
  PROVE  LET q == [r EXCEPT !.rollover = waits]
         IN  /\ r.time <= next /\ ~waits <=> Left(r, now) = 1
             /\ r.time <= next /\ ~waits => r.time = next
             /\ ~(r.time <= next /\ ~waits) =>
                  q \in Entry /\ q.on /\ Fits(q, next) /\ Left(q, next) = Left(r, now) - 1
<1> DEFINE q == [r EXCEPT !.rollover = waits]
           t == r.time
<1>1. Word \in Nat \ {0} /\ t \in Reading /\ t # now /\ (r.rollover <=> t < now)
  BY WordIsLarge, Zenon DEF Entry, Fits
<1>2. next \in Reading /\ (next = now + 1 \/ (next = 0 /\ now = Word - 1))
  <2>1. now + 1 \in 0 .. Word - 1 \/ now + 1 = Word
    BY <1>1 DEF Reading
  <2>2. CASE now + 1 \in 0 .. Word - 1
    <3>1. ((now + 1) % Word) = now + 1
      BY <1>1, <2>2, ModNear
    <3> QED BY <2>2, <3>1 DEF Reading
  <2>3. CASE now + 1 = Word
    <3>1. now + 1 \in Word .. Word + Word - 1 /\ now + 1 \in Int
      BY <1>1, <2>3
    <3>2. ((now + 1) % Word) = (now + 1) - Word
      BY <1>1, <3>1, ModNear, Zenon
    <3> QED BY <1>1, <2>3, <3>2 DEF Reading
  <2> QED BY <2>1, <2>2, <2>3
<1>3. \/ t > now /\ Left(r, now) = t - now
      \/ t < now /\ Left(r, now) = t - now + Word
  BY LeftValue, Zenon
<1>4. waits <=> t < now /\ next # 0
  BY <1>1
<1> DEFINE due == t <= next /\ ~waits
<1>5. (due <=> Left(r, now) = 1) /\ (due => t = next)
  <2>1. ASSUME NEW l, (t > now /\ l = t - now) \/ (t < now /\ l = t - now + Word)
        PROVE  (due <=> l = 1) /\ (due => t = next)
    <3> HIDE DEF t
    <3> QED BY <1>1, <1>2, <1>4, <2>1 DEF Reading
  <2> HIDE DEF t, due
  <2> QED BY <1>3, <2>1, Zenon
<1>6. q \in Entry /\ q.on /\ q.time = t /\ (q.rollover <=> waits)
  BY DEF Entry
<1>7. ASSUME ~due
      PROVE  t # next /\ (waits <=> t < next)
             /\ (t > next => Left(r, now) - 1 = t - next)
             /\ (t < next => Left(r, now) - 1 = t - next + Word)
  <2>1. ASSUME NEW l, (t > now /\ l = t - now) \/ (t < now /\ l = t - now + Word)
        PROVE  t # next /\ (waits <=> t < next)
               /\ (t > next => l - 1 = t - next) /\ (t < next => l - 1 = t - next + Word)
    <3> HIDE DEF t
    <3> QED BY <1>1, <1>2, <1>4, <1>7, <2>1 DEF Reading
  <2> HIDE DEF t, due
  <2> QED BY <1>3, <2>1, Zenon
<1>8. ASSUME ~due PROVE Fits(q, next) /\ Left(q, next) = Left(r, now) - 1
  <2> HIDE DEF q, t, due
  <2>1. Fits(q, next)
    BY <1>6, <1>7, <1>8, Zenon DEF Fits
  <2>2. /\ t > next => Left(q, next) = t - next
        /\ t < next => Left(q, next) = t - next + Word
        /\ t > next \/ t < next
    BY <1>2, <1>6, <2>1, LeftValue, Zenon
  <2> QED BY <1>7, <1>8, <2>1, <2>2, Zenon
<1> HIDE DEF q
<1>9. /\ due <=> Left(r, now) = 1
      /\ due => t = next
      /\ ~due => q \in Entry /\ q.on /\ Fits(q, next) /\ Left(q, next) = Left(r, now) - 1
  <2> HIDE DEF due
  <2> QED BY <1>5, <1>6, <1>8, Zenon
<1> QED BY <1>9, Zenon DEF q

-----------------------------------------------------------------------------
(***************************************************************************)
(* The alarms.                                                             *)
(***************************************************************************)
Lefts == [a \in Alarms |-> Left(alarm[a], nticks)]

LEMMA AlarmInvEntry ==
  AlarmInv <=> /\ nticks \in Reading /\ alarm \in [Alarms -> Entry]
               /\ \A a \in Alarms : Fits(alarm[a], nticks)
BY Zenon DEF AlarmInv, Reading, Entry, Fits

\* An alarm is off exactly when no tick is left to it.
LEMMA OffLeft ==
  ASSUME AlarmInv, NEW a \in Alarms
  PROVE  /\ ~alarm[a].on <=> Left(alarm[a], nticks) = 0
         /\ Left(alarm[a], nticks) \in Reading
<1>1. nticks \in Reading /\ alarm[a] \in Entry /\ Fits(alarm[a], nticks)
  BY AlarmInvEntry
<1>2. 0 \in Reading /\ \A l \in 1 .. Word - 1 : l # 0 /\ l \in Reading
  BY WordIsLarge DEF Reading
<1>3. CASE alarm[a].on
  BY <1>1, <1>2, <1>3, LeftValue, Zenon
<1>4. CASE ~alarm[a].on
  BY <1>2, <1>4, Zenon DEF Left
<1> QED BY <1>3, <1>4

LEMMA StartAlarm ==
  ASSUME AlarmInv, alt_alarm_start
  PROVE  AlarmInv' /\ AC!Start
<1>1. PICK a \in Alarms, n \in Periods :
        /\ ~alarm[a].on
        /\ alarm' = [alarm EXCEPT ![a] = AlarmAt(n + nticks + 1, nticks)]
        /\ nticks' = nticks /\ fired' = fired
  BY DEF alt_alarm_start
<1>2. /\ nticks \in Reading /\ alarm \in [Alarms -> Entry]
      /\ \A b \in Alarms : Fits(alarm[b], nticks)
  BY AlarmInvEntry, Zenon
<1>3. n + 1 \in 1 .. Word - 1 /\ n + nticks + 1 = nticks + (n + 1)
  BY <1>2, WordIsLarge, PeriodsAssumption DEF Reading
<1> DEFINE e == AlarmAt(nticks + (n + 1), nticks)
<1>4. e \in Entry /\ Fits(e, nticks) /\ Left(e, nticks) = n + 1
  BY <1>2, <1>3, AlarmAtFits, Zenon
<1>5. alarm' = [alarm EXCEPT ![a] = e]
  BY <1>1, <1>3, Zenon
<1> HIDE DEF e
<1>6. AlarmInv'
  <2>1. alarm' \in [Alarms -> Entry] /\ \A b \in Alarms : Fits(alarm'[b], nticks')
    <3>1. \A b \in Alarms : alarm'[b] = IF b = a THEN e ELSE alarm[b]
      BY <1>2, <1>5, Zenon
    <3>2. alarm' \in [Alarms -> Entry]
      BY <1>2, <1>4, <1>5
    <3> QED BY <1>1, <1>2, <1>4, <3>1, <3>2, Zenon
  <2>2. nticks' \in 0 .. Word - 1
    BY <1>1, <1>2, Zenon DEF Reading
  <2> QED BY <2>1, <2>2, Zenon DEF AlarmInv, Entry, Fits, Reading
<1>7. Lefts[a] = 0
  BY <1>1, <1>2, Zenon DEF Lefts, Left
<1>8. Lefts' = [Lefts EXCEPT ![a] = n + 1]
  <2>1. \A b \in Alarms : Left(alarm'[b], nticks') = IF b = a THEN n + 1 ELSE Lefts[b]
    BY <1>1, <1>2, <1>4, <1>5, Zenon DEF Lefts
  <2>2. Lefts' = [b \in Alarms |-> IF b = a THEN n + 1 ELSE Lefts[b]]
    BY <2>1, Zenon DEF Lefts
  <2>3. Lefts = [b \in Alarms |-> Lefts[b]]
    BY Zenon DEF Lefts
  <2> QED BY <2>2, <2>3
<1>9. AC!Start
  BY <1>1, <1>7, <1>8, Zenon DEF AC!Start, Lefts, Left
<1> QED BY <1>6, <1>9

LEMMA StopAlarm ==
  ASSUME AlarmInv, alt_alarm_stop
  PROVE  AlarmInv' /\ AC!Stop
<1>1. PICK a \in Alarms :
        /\ alarm' = [alarm EXCEPT ![a].on = FALSE]
        /\ nticks' = nticks /\ fired' = fired
  BY DEF alt_alarm_stop
<1>2. /\ nticks \in Reading /\ alarm \in [Alarms -> Entry]
      /\ \A b \in Alarms : Fits(alarm[b], nticks)
  BY AlarmInvEntry, Zenon
<1> DEFINE e == [alarm[a] EXCEPT !.on = FALSE]
<1>3. e \in Entry /\ ~e.on
  BY <1>2 DEF Entry
<1>4. alarm' = [alarm EXCEPT ![a] = e]
  BY <1>1
<1> HIDE DEF e
<1>5. Fits(e, nticks) /\ Left(e, nticks) = 0
  BY <1>3, Zenon DEF Fits, Left
<1>6. \A b \in Alarms : alarm'[b] = IF b = a THEN e ELSE alarm[b]
  BY <1>2, <1>4, Zenon
<1>7. AlarmInv'
  <2>1. alarm' \in [Alarms -> Entry]
    BY <1>2, <1>3, <1>4
  <2>2. \A b \in Alarms : Fits(alarm'[b], nticks')
    BY <1>1, <1>2, <1>5, <1>6, Zenon
  <2>3. nticks' \in 0 .. Word - 1
    BY <1>1, <1>2, Zenon DEF Reading
  <2> QED BY <2>1, <2>2, <2>3, Zenon DEF AlarmInv, Entry, Fits, Reading
<1>8. Lefts' = [Lefts EXCEPT ![a] = 0]
  <2>1. \A b \in Alarms : Left(alarm'[b], nticks') = IF b = a THEN 0 ELSE Lefts[b]
    <3> TAKE b \in Alarms
    <3>1. nticks' = nticks /\ alarm'[b] = IF b = a THEN e ELSE alarm[b]
      BY <1>1, <1>6, Zenon
    <3> QED BY <1>5, <3>1, Zenon DEF Lefts
  <2>2. Lefts' = [b \in Alarms |-> IF b = a THEN 0 ELSE Lefts[b]]
    BY <2>1, Zenon DEF Lefts
  <2>3. Lefts = [b \in Alarms |-> Lefts[b]]
    BY Zenon DEF Lefts
  <2> QED BY <2>2, <2>3
<1>9. AC!Stop
  BY <1>1, <1>8, Zenon DEF AC!Stop, Lefts, Left
<1> QED BY <1>7, <1>9

\* What a tick does to one alarm, and how many ticks it leaves to it.
LEMMA CallAlarm ==
  ASSUME AlarmInv, nticks' = NextTick,
         NEW next \in [Due -> Periods \cup {0}], CallAlarms(next), NEW a \in Alarms
  PROVE  LET l == Left(alarm[a], nticks)
         IN  /\ nticks' \in Reading /\ alarm'[a] \in Entry /\ Fits(alarm'[a], nticks')
             /\ a \in Due <=> l = 1
             /\ Left(alarm'[a], nticks') = IF a \in Due THEN next[a]
                                           ELSE IF l > 0 THEN l - 1 ELSE 0
<1> DEFINE l == Left(alarm[a], nticks)
           r == alarm[a]
           w == Waits(a)
<1>1. nticks \in Reading /\ r \in Entry /\ Fits(r, nticks)
  BY AlarmInvEntry
<1>2. nticks' = (nticks + 1) % Word /\ nticks' \in Reading
  <2>1. nticks + 1 \in Int /\ Word \in Nat \ {0}
    BY <1>1, WordIsLarge DEF Reading
  <2> QED BY <2>1, DivMod, Zenon DEF NextTick, Reading
<1>3. w \in BOOLEAN /\ (w <=> r.rollover /\ nticks' # 0)
  BY <1>1, Zenon DEF Waits, Entry
<1>4. a \in Due <=> r.on /\ r.time <= nticks' /\ ~w
  BY DEF Due
<1>5. alarm'[a] = IF ~r.on THEN r
                  ELSE IF a \notin Due THEN [r EXCEPT !.rollover = w]
                  ELSE IF next[a] = 0 THEN [r EXCEPT !.on = FALSE]
                  ELSE AlarmAt(r.time + next[a], nticks')
  BY Zenon DEF CallAlarms
<1>6. ASSUME r.on
      PROVE  /\ a \in Due <=> l = 1
             /\ a \in Due => r.time = nticks'
             /\ a \notin Due => LET q == [r EXCEPT !.rollover = w]
                                IN  q \in Entry /\ Fits(q, nticks') /\ Left(q, nticks') = l - 1
  <2> DEFINE q == [r EXCEPT !.rollover = w]
  <2>1. /\ r.time <= nticks' /\ ~w <=> Left(r, nticks) = 1
        /\ r.time <= nticks' /\ ~w => r.time = nticks'
        /\ ~(r.time <= nticks' /\ ~w) =>
             q \in Entry /\ q.on /\ Fits(q, nticks') /\ Left(q, nticks') = Left(r, nticks) - 1
    <3>1. PICK v \in BOOLEAN : v = w
      BY <1>3, Zenon
    <3>2. v <=> r.rollover /\ nticks' # 0
      BY <1>3, <3>1, Zenon
    <3>3. LET qv == [r EXCEPT !.rollover = v]
          IN  /\ r.time <= nticks' /\ ~v <=> Left(r, nticks) = 1
              /\ r.time <= nticks' /\ ~v => r.time = nticks'
              /\ ~(r.time <= nticks' /\ ~v) =>
                   qv \in Entry /\ qv.on /\ Fits(qv, nticks') /\ Left(qv, nticks') = Left(r, nticks) - 1
      <4> HIDE DEF r, w
      <4> QED BY <1>1, <1>2, <1>6, <3>2, Turn, Zenon
    <3> HIDE DEF r, w
    <3> QED BY <3>1, <3>3, Zenon
  <2> HIDE DEF r, w, q
  <2>2. a \in Due <=> r.time <= nticks' /\ ~w
    BY <1>4, <1>6, Zenon
  <2>3. l = Left(r, nticks)
    BY Zenon DEF r
  <2> HIDE DEF l
  <2> QED BY <2>1, <2>2, <2>3, Zenon DEF q
<1>7. CASE ~r.on
  <2>1. a \notin Due /\ alarm'[a] = r /\ l = 0
    BY <1>4, <1>5, <1>7, Zenon DEF Left
  <2>2. Fits(r, nticks') /\ Left(r, nticks') = 0
    BY <1>7, Zenon DEF Fits, Left
  <2>3. l # 1 /\ ~(l > 0)
    BY <2>1
  <2> QED BY <1>1, <1>2, <2>1, <2>2, <2>3, Zenon
<1>8. CASE r.on /\ a \notin Due
  <2>1. alarm'[a] = [r EXCEPT !.rollover = w]
    BY <1>5, <1>8, Zenon
  <2>2. l \in 1 .. Word - 1
    BY <1>1, <1>8, LeftValue, Zenon
  <2>3. l > 0
    BY <2>2, WordIsLarge
  <2> QED BY <1>2, <1>6, <1>8, <2>1, <2>3, Zenon
<1>9. CASE r.on /\ a \in Due /\ next[a] = 0
  <2> DEFINE q == [r EXCEPT !.on = FALSE]
  <2>1. alarm'[a] = q
    <3> HIDE DEF r
    <3> QED BY <1>5, <1>9, Zenon
  <2>2. q \in Entry /\ ~q.on
    BY <1>1 DEF Entry
  <2> HIDE DEF q
  <2>3. Fits(q, nticks') /\ Left(q, nticks') = 0
    BY <2>2, Zenon DEF Fits, Left
  <2> QED BY <1>2, <1>6, <1>9, <2>1, <2>2, <2>3, Zenon
<1>10. CASE r.on /\ a \in Due /\ next[a] # 0
  <2>1. next[a] \in Periods
    BY <1>10
  <2>2. next[a] \in 1 .. Word - 1
    <3>1. \A n \in 1 .. Word - 2 : n \in 1 .. Word - 1
      BY WordIsLarge
    <3> QED BY <2>1, <3>1, PeriodsAssumption, Zenon
  <2>3. alarm'[a] = AlarmAt(nticks' + next[a], nticks')
    <3>1. r.time = nticks'
      BY <1>6, <1>10, Zenon
    <3>2. alarm'[a] = AlarmAt(r.time + next[a], nticks')
      <4> HIDE DEF r
      <4> QED BY <1>5, <1>10, Zenon
    <3> QED BY <3>1, <3>2, Zenon
  <2>4. /\ alarm'[a] \in Entry /\ Fits(alarm'[a], nticks')
        /\ Left(alarm'[a], nticks') = next[a]
    BY <1>2, <2>2, <2>3, AlarmAtFits, Zenon
  <2> QED BY <1>2, <1>6, <1>10, <2>4, Zenon
<1> QED BY <1>7, <1>8, <1>9, <1>10

LEMMA TickAlarms ==
  ASSUME AlarmInv, Irq
  PROVE  AlarmInv' /\ AC!Tick
<1>1. /\ nticks' = NextTick /\ fired' = Due
      /\ \E next \in [Due -> Periods \cup {0}] : CallAlarms(next)
  BY Zenon DEF Irq, alt_tick
<1>2. PICK next \in [Due -> Periods \cup {0}] : CallAlarms(next)
  BY <1>1, Zenon
<1>3. ASSUME NEW a \in Alarms
      PROVE  /\ nticks' \in Reading /\ alarm'[a] \in Entry /\ Fits(alarm'[a], nticks')
             /\ a \in Due <=> Lefts[a] = 1
             /\ Left(alarm'[a], nticks') = IF a \in Due THEN next[a]
                                           ELSE IF Lefts[a] > 0 THEN Lefts[a] - 1 ELSE 0
  <2>1. Lefts[a] = Left(alarm[a], nticks)
    BY Zenon DEF Lefts
  <2> QED BY <1>1, <1>2, <2>1, CallAlarm, Zenon
<1>4. AlarmInv'
  <2>1. DOMAIN alarm' = Alarms /\ alarm' = [a \in Alarms |-> alarm'[a]]
    BY <1>2, Zenon DEF CallAlarms
  <2>2. alarm' \in [Alarms -> Entry]
    BY <1>3, <2>1, Zenon
  <2>3. nticks' \in Reading
    <3>1. nticks + 1 \in Int /\ Word \in Nat \ {0}
      BY AlarmInvEntry, WordIsLarge DEF Reading
    <3> QED BY <1>1, <3>1, DivMod, Zenon DEF NextTick, Reading
  <2> QED BY <1>3, <2>2, <2>3, Zenon DEF AlarmInv, Entry, Fits, Reading
<1>5. fired' = {a \in Alarms : Lefts[a] = 1}
  <2>1. Due \subseteq Alarms
    BY DEF Due
  <2> QED BY <1>1, <1>3, <2>1
<1>6. Lefts' = [a \in Alarms |-> IF a \in fired' THEN next[a]
                                 ELSE IF Lefts[a] > 0 THEN Lefts[a] - 1 ELSE 0]
  <2>1. Lefts' = [a \in Alarms |-> Left(alarm'[a], nticks')]
    BY Zenon DEF Lefts
  <2>2. \A a \in Alarms : Left(alarm'[a], nticks') = IF a \in fired' THEN next[a]
                                 ELSE IF Lefts[a] > 0 THEN Lefts[a] - 1 ELSE 0
    BY <1>1, <1>3, Zenon
  <2> QED BY <2>1, <2>2, Zenon
<1>7. next \in [fired' -> Periods \cup {0}]
  BY <1>1, <1>2, Zenon
<1>8. AC!Tick
  BY <1>5, <1>6, <1>7, Zenon DEF AC!Tick, Lefts, Left
<1> QED BY <1>4, <1>8

LEMMA AlarmStep ==
  ASSUME AlarmInv, [SystemNext]_allVars
  PROVE  AlarmInv' /\ [AC!Next]_(AC!vars)
<1>1. CASE alt_alarm_start
  BY <1>1, StartAlarm, Zenon DEF AC!Next
<1>2. CASE alt_alarm_stop
  BY <1>2, StopAlarm, Zenon DEF AC!Next
<1>3. CASE Irq
  BY <1>3, TickAlarms, Zenon DEF AC!Next
<1>4. CASE Timeout \/ Start \/ End \/ Again \/ UNCHANGED allVars
  <2>1. nticks' = nticks /\ alarm' = alarm /\ fired' = fired
    BY <1>4 DEF Timeout, Start, End, Again, timerVars, allVars
  <2>2. AlarmInv'
    BY <2>1, Zenon DEF AlarmInv
  <2>3. Lefts' = Lefts
    BY <2>1, Zenon DEF Lefts, Left
  <2> QED BY <2>1, <2>2, <2>3, Zenon DEF AC!vars, Lefts, Left
<1> QED BY <1>1, <1>2, <1>3, <1>4 DEF SystemNext

LEMMA AlarmsOff == SystemInit => AlarmInv /\ AC!Init
<1> SUFFICES ASSUME SystemInit PROVE AlarmInv /\ AC!Init
  OBVIOUS
<1>1. /\ nticks \in Reading /\ fired = {}
      /\ alarm = [a \in Alarms |-> [on |-> FALSE, time |-> 0, rollover |-> FALSE]]
  BY Zenon DEF SystemInit, Reading
<1>2. 0 \in Reading
  BY WordIsLarge DEF Reading
<1>3. AlarmInv
  BY <1>1, <1>2 DEF AlarmInv, Reading
<1>4. AC!Init
  <2>1. \A a \in Alarms : ~alarm[a].on
    BY <1>1
  <2> QED BY <1>1, <2>1, Zenon DEF AC!Init
<1> QED BY <1>3, <1>4

\* An alarm in the list is always still to come, and one whose time the counter
\* has passed waits for the counter to roll over.
THEOREM AlarmsCorrect == SystemSpec => []AlarmInv
BY AlarmsOff, AlarmStep, PTL DEF SystemSpec

\* alt_tick calls every alarm at its tick and at no other, at whatever reading of
\* the counter it was started, and whether or not its time lies beyond the end.
THEOREM AlarmsOnTimeCorrect == SystemSpec => AlarmsOnTime
<1>1. SystemInit => AC!Init
  BY AlarmsOff
<1>2. AlarmInv /\ [SystemNext]_allVars => [AC!Next]_(AC!vars)
  BY AlarmStep
<1> QED BY <1>1, <1>2, AlarmsCorrect, PTL DEF SystemSpec, AlarmsOnTime, AC!Spec
=============================================================================
