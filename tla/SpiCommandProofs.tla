-------------------------- MODULE SpiCommandProofs --------------------------
(***************************************************************************)
(* A register access over SPI is one frame with the right bytes, for       *)
(* accesses of every length: SpiInv is inductive, and under it every step  *)
(* of alt_avalon_spi_command and of the SPI master is a step of            *)
(* RegisterAccess.                                                         *)
(***************************************************************************)
EXTENDS SpiCommand, TLAPS

\* The frame of an access: the command byte, then the data bytes.
LEMMA FrameBytes ==
  ASSUME NEW r \in Access!Requests
  PROVE  /\ r # NONE /\ r.op \in {"wr", "rd"} /\ r.len \in Nat
         /\ Access!Frame(r) \in Seq(Nat) /\ Len(Access!Frame(r)) = r.len + 1
         /\ Access!Frame(r)[1] = 0
         /\ \A i \in 1 .. r.len : Access!Frame(r)[i + 1] = IF r.op = "wr" THEN i ELSE 0
<1>1. r # NONE /\ r.op \in {"wr", "rd"} /\ r.len \in Nat
  <2>1. r.op \in {"wr", "rd"} /\ r.len \in Lengths
    BY DEF Access!Requests
  <2>2. r.len \in 0 .. 255
    BY <2>1, SpiAssumption
  <2>3. r # NONE
    BY SpiAssumption, Zenon DEF Access!Requests
  <2> QED BY <2>1, <2>2, <2>3
<1> DEFINE rest == [i \in 1 .. r.len |-> IF r.op = "wr" THEN i ELSE 0]
<1>2. rest \in Seq(Nat) /\ Len(rest) = r.len
  BY <1>1
<1>3. Access!Frame(r) = <<0>> \o rest
  BY DEF Access!Frame
<1>4. \A i \in 1 .. r.len : rest[i] = IF r.op = "wr" THEN i ELSE 0
  OBVIOUS
<1> HIDE DEF rest
<1>5. Access!Frame(r) \in Seq(Nat) /\ Len(Access!Frame(r)) = r.len + 1
  BY <1>1, <1>2, <1>3
<1>6. Access!Frame(r)[1] = 0 /\ \A i \in 1 .. r.len : Access!Frame(r)[i + 1] = rest[i]
  BY <1>1, <1>2, <1>3
<1> QED BY <1>1, <1>4, <1>5, <1>6

\* What an access under way looks like.
LEMMA Busy ==
  ASSUME SpiInv, pc # "idle"
  PROVE  /\ request \in Access!Requests /\ request # NONE
         /\ request.op \in {"wr", "rd"} /\ request.len \in Nat
         /\ part \in {1, 2} /\ Total \in Nat /\ Total <= request.len + 1
         /\ ReadLength \in Nat
         /\ ReadLength > 0 => part = 2 /\ request.op = "rd" /\ ReadLength = request.len
         /\ Byte(1) = 0
         /\ \A i \in 1 .. request.len : Byte(i + 1) = IF request.op = "wr" THEN i ELSE 0
<1>1. request \in Access!Requests
  BY DEF SpiInv, TypeOK, Selected
<1>2. part \in {1, 2}
  BY DEF SpiInv, TypeOK
<1> QED BY <1>1, <1>2, FrameBytes DEF Total, ReadLength, Byte

-----------------------------------------------------------------------------
(* Types.                                                                   *)

Flags == <<trdy, rrdy, SSO, primed, transmitting, RRDY, ROE, TOE>>

FlagsOK ==
  /\ trdy \in BOOLEAN /\ rrdy \in BOOLEAN /\ SSO \in BOOLEAN
  /\ primed \in BOOLEAN /\ transmitting \in BOOLEAN /\ RRDY \in BOOLEAN
  /\ ROE \in BOOLEAN /\ TOE \in BOOLEAN

CallOK ==
  /\ request \in Access!Requests \cup {NONE} /\ part \in {1, 2}
  /\ pc \in {"idle", "part2", "select", "discard", "poll", "send", "receive", "drain"}

CommandOK ==
  /\ toWrite \in Seq(Nat) /\ write_zeros \in Nat /\ read_ignore \in Nat
  /\ data \in Seq(Nat) /\ credits \in -1024 .. 1

ShifterOK ==
  /\ tx_holding \in Nat /\ shift \in Nat /\ rx_holding \in Nat
  /\ frame \in Seq(Nat) /\ frames \in Seq(Seq(Nat))

LEMMA TypeParts == TypeOK <=> FlagsOK /\ CallOK /\ CommandOK /\ ShifterOK
BY Zenon DEF TypeOK, FlagsOK, CallOK, CommandOK, ShifterOK

LEMMA FlagsStep == ASSUME SpiInv, [Next]_vars PROVE FlagsOK'
<1> USE DEF FlagsOK, devVars
<1>0. FlagsOK
  BY TypeParts DEF SpiInv
<1>1. CASE Call \/ CallPart2 \/ Select \/ Discard
  BY <1>0, <1>1, Zenon DEF Call, CallPart2, Select, Discard
<1>2. CASE Poll
  <2>1. TRDY \in BOOLEAN
    BY Zenon DEF TRDY
  <2> QED BY <1>0, <1>2, <2>1, Zenon DEF Poll
<1>3. CASE Send
  <2>1. /\ primed' = TRUE \/ primed' = primed
        /\ TOE' = TRUE \/ TOE' = TOE
    BY <1>3, Zenon DEF Send, WriteTx
  <2>2. UNCHANGED <<trdy, rrdy, SSO, transmitting, RRDY, ROE>>
    BY <1>3, Zenon DEF Send
  <2> QED BY <1>0, <2>1, <2>2, Zenon
<1>4. CASE Receive \/ DrainPart1 \/ DrainPart2
  BY <1>0, <1>4, Zenon DEF Receive, DrainPart1, DrainPart2
<1>5. CASE Load
  BY <1>0, <1>5, Zenon DEF Load
<1>6. CASE Shifted
  BY <1>0, <1>6, Zenon DEF Shifted
<1>7. CASE UNCHANGED vars
  BY <1>0, <1>7, Zenon DEF vars
<1> QED BY <1>1, <1>2, <1>3, <1>4, <1>5, <1>6, <1>7, Zenon DEF Next, Thread, Device

LEMMA CallStep == ASSUME SpiInv, [Next]_vars PROVE CallOK'
<1> USE DEF CallOK, callVars, Access!Requests
<1>0. CallOK
  BY TypeParts DEF SpiInv
<1>1. CASE Call
  BY <1>0, <1>1 DEF Call, Enter
<1>2. CASE CallPart2
  BY <1>0, <1>2 DEF CallPart2, Enter
<1>3. CASE Select \/ Discard
  BY <1>0, <1>3 DEF Select, Discard
<1>4. CASE Poll \/ Load \/ Shifted
  BY <1>0, <1>4 DEF Poll, Load, Shifted
<1>5. CASE Send
  <2>1. UNCHANGED <<request, part>> /\ pc' \in {"receive", "poll"}
    BY <1>5 DEF Send
  <2> QED BY <1>0, <2>1
<1>6. CASE Receive
  <2>1. UNCHANGED <<request, part>> /\ pc' \in {"drain", "poll"}
    BY <1>6 DEF Receive
  <2> QED BY <1>0, <2>1
<1>7. CASE DrainPart1 \/ DrainPart2
  BY <1>0, <1>7 DEF DrainPart1, DrainPart2
<1>8. CASE UNCHANGED vars
  BY <1>0, <1>8 DEF vars
<1> QED BY <1>1, <1>2, <1>3, <1>4, <1>5, <1>6, <1>7, <1>8 DEF Next, Thread, Device

LEMMA CommandStep == ASSUME SpiInv, [Next]_vars PROVE CommandOK'
<1> USE DEF CommandOK, cmdVars
<1>0. CommandOK /\ ShifterOK
  BY TypeParts DEF SpiInv
<1>1. CASE Call
  BY <1>1 DEF Call, Enter
<1>2. CASE CallPart2
  <2>1. request.len \in Nat
    BY <1>2, Busy DEF CallPart2
  <2> DEFINE bytes == [i \in 1 .. request.len |-> i]
  <2>2. bytes \in Seq(Nat) /\ Len(bytes) \in Nat
    BY <2>1
  <2>3. Enter(bytes, 0) \/ Enter(<<>>, request.len)
    BY <1>2, Zenon DEF CallPart2
  <2> HIDE DEF bytes
  <2>4. /\ toWrite' = bytes \/ toWrite' = <<>>
        /\ write_zeros' = 0 \/ write_zeros' = request.len
        /\ read_ignore' = Len(bytes) \/ read_ignore' = Len(<<>>)
        /\ data' = <<>> /\ credits' = 1
    BY <2>3, Zenon DEF Enter
  <2>5. toWrite' \in Seq(Nat) /\ write_zeros' \in Nat
    <3>1. <<>> \in Seq(Nat) /\ 0 \in Nat
      OBVIOUS
    <3> QED BY <2>1, <2>2, <2>4, <3>1, Zenon
  <2>6. read_ignore' \in Nat
    <3>1. Len(<<>>) = 0
      OBVIOUS
    <3> QED BY <2>2, <2>4, <3>1
  <2> QED BY <2>4, <2>5, <2>6
<1>3. CASE Select \/ Discard
  BY <1>0, <1>3 DEF Select, Discard
<1>4. CASE Poll \/ DrainPart1 \/ DrainPart2
  BY <1>0, <1>4 DEF Poll, DrainPart1, DrainPart2
<1>5. CASE Send
  <2>1. UNCHANGED <<read_ignore, data>>
    BY <1>5 DEF Send
  <2>2. \/ UNCHANGED <<toWrite, write_zeros, credits>>
        \/ /\ credits > 0 /\ (credits' = credits - 1 \/ credits' = -1024)
           /\ \/ UNCHANGED <<toWrite, write_zeros>>
              \/ toWrite # <<>> /\ toWrite' = Tail(toWrite) /\ write_zeros' = write_zeros
              \/ write_zeros > 0 /\ write_zeros' = write_zeros - 1 /\ toWrite' = toWrite
    BY <1>5 DEF Send
  <2>3. toWrite # <<>> => Tail(toWrite) \in Seq(Nat)
    BY <1>0
  <2>4. toWrite' \in Seq(Nat)
    <3>1. toWrite' = toWrite \/ (toWrite # <<>> /\ toWrite' = Tail(toWrite))
      BY <2>2, Zenon
    <3> QED BY <1>0, <2>3, <3>1
  <2>5. write_zeros' \in Nat /\ credits' \in -1024 .. 1
    <3>1. /\ write_zeros' = write_zeros \/ (write_zeros > 0 /\ write_zeros' = write_zeros - 1)
          /\ credits' = credits \/ (credits > 0 /\ (credits' = credits - 1 \/ credits' = -1024))
      BY <2>2, Zenon
    <3>2. write_zeros \in Nat /\ credits \in -1024 .. 1
      BY <1>0
    <3> HIDE DEF CommandOK
    <3> QED BY <3>1, <3>2
  <2> QED BY <1>0, <2>1, <2>4, <2>5
<1>6. CASE Receive
  <2>1. credits <= 0
    <3>1. Flying > 0
      BY <1>6 DEF SpiInv, OneByteFlying, InLoop, Receive, Flying, Leaving, Bit
    <3> QED BY <1>6, <3>1 DEF SpiInv, OneByteFlying, InLoop, Receive
  <2>2. /\ credits' = credits + 1 /\ UNCHANGED <<toWrite, write_zeros>>
        /\ \/ read_ignore > 0 /\ read_ignore' = read_ignore - 1 /\ data' = data
           \/ read_ignore' = read_ignore /\ data' = Append(data, rx_holding)
    BY <1>6 DEF Receive
  <2>3. data' \in Seq(Nat)
    <3>1. Append(data, rx_holding) \in Seq(Nat)
      BY <1>0 DEF ShifterOK
    <3> QED BY <1>0, <2>2, <3>1
  <2>4. read_ignore' \in Nat /\ credits' \in -1024 .. 1
    <3>1. /\ read_ignore' = read_ignore \/ (read_ignore > 0 /\ read_ignore' = read_ignore - 1)
          /\ credits' = credits + 1
      BY <2>2, Zenon
    <3>2. read_ignore \in Nat /\ credits \in -1024 .. 1
      BY <1>0
    <3> HIDE DEF CommandOK
    <3> QED BY <2>1, <3>1, <3>2
  <2> QED BY <1>0, <2>2, <2>3, <2>4
<1>7. CASE Load \/ Shifted
  BY <1>0, <1>7 DEF Load, Shifted
<1>8. CASE UNCHANGED vars
  BY <1>0, <1>8 DEF vars
<1> QED BY <1>1, <1>2, <1>3, <1>4, <1>5, <1>6, <1>7, <1>8 DEF Next, Thread, Device

LEMMA ShifterStep == ASSUME SpiInv, [Next]_vars PROVE ShifterOK'
<1> USE DEF ShifterOK, chipVars, devVars
<1>0. CommandOK /\ ShifterOK
  BY TypeParts DEF SpiInv
<1>1. CASE Call
  BY <1>0, <1>1 DEF Call
<1>2. CASE CallPart2 \/ Select \/ Discard
  BY <1>0, <1>2 DEF CallPart2, Select, Discard
<1>3. CASE Poll \/ Receive \/ DrainPart1
  BY <1>0, <1>3 DEF Poll, Receive, DrainPart1
<1>4. CASE Send
  <2>1. \/ tx_holding' = tx_holding \/ tx_holding' = 0
        \/ toWrite # <<>> /\ tx_holding' = Head(toWrite)
    BY <1>4 DEF Send, WriteTx
  <2>2. UNCHANGED <<shift, rx_holding, frame, frames>>
    BY <1>4 DEF Send
  <2> QED BY <1>0, <2>1, <2>2 DEF CommandOK
<1>5. CASE DrainPart2
  BY <1>0, <1>5 DEF DrainPart2, EndFrame
<1>6. CASE Load
  BY <1>0, <1>6 DEF Load
<1>7. CASE Shifted
  <2>1. Append(frame, shift) \in Seq(Nat) /\ Len(frame) + 1 \in Nat
    BY <1>0
  <2>2. Append(frames, Append(frame, shift)) \in Seq(Seq(Nat)) /\ <<>> \in Seq(Nat)
    BY <1>0, <2>1
  <2>3. \/ frame' = Append(frame, shift) /\ frames' = frames
        \/ frame' = <<>> /\ frames' = Append(frames, Append(frame, shift))
    BY <1>7 DEF Shifted, EndFrame
  <2> QED BY <1>0, <1>7, <2>1, <2>2, <2>3 DEF Shifted
<1>8. CASE UNCHANGED vars
  BY <1>0, <1>8 DEF vars
<1> QED BY <1>1, <1>2, <1>3, <1>4, <1>5, <1>6, <1>7, <1>8 DEF Next, Thread, Device

LEMMA TypeStep == ASSUME SpiInv, [Next]_vars PROVE TypeOK'
<1>1. FlagsOK' /\ CallOK' /\ CommandOK' /\ ShifterOK'
  BY FlagsStep, CallStep, CommandStep, ShifterStep
<1> QED BY <1>1, Zenon DEF TypeOK, FlagsOK, CallOK, CommandOK, ShifterOK
-----------------------------------------------------------------------------
(* The accounts and the bytes, step by step.                                *)

Rest == OneByteFlying /\ Selected /\ SentInStep /\ KeptInStep

\* The counts are numbers.
LEMMA Counts ==
  ASSUME SpiInv
  PROVE  /\ Len(frame) \in Nat /\ Len(data) \in Nat /\ Len(toWrite) \in Nat
         /\ write_zeros \in Nat /\ read_ignore \in Nat /\ credits \in Int
         /\ Bit(primed) \in {0, 1} /\ Bit(transmitting) \in {0, 1} /\ Bit(RRDY) \in {0, 1}
<1>1. CommandOK /\ ShifterOK
  BY TypeParts DEF SpiInv
<1>2. Bit(primed) \in {0, 1} /\ Bit(transmitting) \in {0, 1} /\ Bit(RRDY) \in {0, 1}
  BY DEF Bit
<1> QED BY <1>1, <1>2 DEF CommandOK, ShifterOK

\* A step inside a command leaves the frame that is meant alone.
LEMMA SameCommand ==
  ASSUME request' = request, part' = part
  PROVE  /\ \A i : Byte(i)' = Byte(i)
         /\ Total' = Total /\ ReadLength' = ReadLength
BY DEF Byte, Total, ReadLength, Access!Frame

LEMMA CallRest == ASSUME SpiInv, Call PROVE Rest'
<1> USE DEF Call, Enter, devVars
<1>1. request' \in Access!Requests
  BY DEF Access!Requests
<1>2. request' # NONE /\ Byte(1)' = 0
  BY <1>1, FrameBytes DEF Byte, Access!Frame
<1>3. TMT /\ frame = <<>> /\ ~ROE /\ ~TOE
  BY DEF SpiInv, OneByteFlying, InLoop, Selected
<1>4. /\ Len(frame') = 0 /\ Len(data') = 0 /\ Len(toWrite') = 1 /\ toWrite'[1] = 0
      /\ Total' = 1 /\ ReadLength' = 0 /\ Leaving' = 0 /\ TMT'
  BY <1>3 DEF Total, ReadLength, Leaving, Bit, TMT
<1>5. OneByteFlying'
  BY <1>3, <1>4 DEF OneByteFlying, InLoop, ToCome
<1>6. Selected'
  BY <1>2, <1>3 DEF Selected, InLoop
<1>7. SentInStep'
  BY <1>2, <1>3, <1>4 DEF SentInStep, TMT
<1>8. KeptInStep'
  BY <1>4 DEF KeptInStep, InLoop
<1> QED BY <1>5, <1>6, <1>7, <1>8 DEF Rest

LEMMA CallPart2Rest == ASSUME SpiInv, CallPart2 PROVE Rest'
<1> USE DEF CallPart2, Enter, devVars, chipVars
<1>1. /\ request.op \in {"wr", "rd"} /\ request.len \in Nat /\ request # NONE /\ part = 1
      /\ \A i \in 1 .. request.len : Byte(i + 1) = IF request.op = "wr" THEN i ELSE 0
  BY Busy DEF SpiInv, Selected
<1>2. TMT /\ ~ROE /\ ~TOE /\ frames = <<>>
  BY DEF SpiInv, OneByteFlying, InLoop, Selected
<1>3. Len(frame) = 1 /\ frame[1] = Byte(1)
  <2>1. Len(frame) + Leaving + Len(toWrite) + write_zeros = 1 /\ toWrite = <<>> /\ write_zeros = 0
    BY <1>1 DEF SpiInv, SentInStep, Total
  <2>2. Leaving = 0
    BY <1>2 DEF Leaving, Bit, TMT
  <2>3. Len(frame) = 1
    BY <2>1, <2>2, Counts
  <2> QED BY <2>3 DEF SpiInv, SentInStep
<1>4. \A i : Byte(i)' = Byte(i)
  BY DEF Byte, Access!Frame
<1>5. /\ Total' = request.len + 1 /\ Leaving' = 0 /\ TMT'
      /\ ReadLength' = IF request.op = "rd" THEN request.len ELSE 0
  BY <1>2 DEF Total, ReadLength, Leaving, Bit, TMT
<1> DEFINE bytes == [i \in 1 .. request.len |-> i]
<1>6. Len(bytes) = request.len /\ \A i \in 1 .. request.len : bytes[i] = i
  BY <1>1
<1>7. CASE request.op = "wr"
  <2>1. /\ toWrite' = bytes /\ Len(toWrite') = request.len /\ Len(data') = 0
        /\ write_zeros' = 0 /\ read_ignore' = request.len /\ ReadLength' = 0
    BY <1>5, <1>6, <1>7
  <2> HIDE DEF bytes
  <2>2. OneByteFlying'
    <3>1. pc' = "select" /\ credits' = 1 /\ UNCHANGED <<ROE, TOE>>
      OBVIOUS
    <3> HIDE DEF CallPart2, Enter
    <3> QED BY <1>1, <1>2, <1>5, <2>1, <3>1 DEF OneByteFlying, InLoop, ToCome
  <2>3. Selected'
    BY <1>1, <1>2 DEF Selected, InLoop
  <2>4. SentInStep'
    BY <1>1, <1>3, <1>4, <1>5, <1>6, <1>7, <2>1 DEF SentInStep, TMT
  <2>5. KeptInStep'
    BY <2>1 DEF KeptInStep, InLoop
  <2> QED BY <2>2, <2>3, <2>4, <2>5 DEF Rest
<1>8. CASE request.op = "rd"
  <2>1. /\ toWrite' = <<>> /\ Len(toWrite') = 0 /\ Len(data') = 0
        /\ write_zeros' = request.len /\ read_ignore' = 0 /\ ReadLength' = request.len
    BY <1>5, <1>8
  <2>2. OneByteFlying'
    BY <1>1, <1>2, <1>5, <2>1 DEF OneByteFlying, InLoop, ToCome
  <2>3. Selected'
    BY <1>1, <1>2 DEF Selected, InLoop
  <2>4. SentInStep'
    BY <1>1, <1>3, <1>4, <1>5, <2>1 DEF SentInStep, TMT
  <2>5. KeptInStep'
    BY <2>1, <1>1 DEF KeptInStep, InLoop
  <2> QED BY <2>2, <2>3, <2>4, <2>5 DEF Rest
<1> QED BY <1>1, <1>7, <1>8
\* Steps of the thread that move no byte.
LEMMA QuietRest == ASSUME SpiInv, Select \/ Poll \/ DrainPart1 PROVE Rest'
<1> USE DEF Select, Poll, DrainPart1, callVars, cmdVars, devVars, chipVars
<1>1. /\ \A i : Byte(i)' = Byte(i)
      /\ Total' = Total /\ ReadLength' = ReadLength
  BY SameCommand
<1>2. Leaving' = Leaving /\ Flying' = Flying /\ (TMT' <=> TMT)
  BY DEF Leaving, Flying, Bit, TMT
<1>3. OneByteFlying'
  BY <1>1, <1>2 DEF SpiInv, OneByteFlying, InLoop, ToCome
<1>4. Selected'
  BY DEF SpiInv, Selected, InLoop
<1>5. SentInStep'
  BY <1>1, <1>2 DEF SpiInv, SentInStep
<1>6. KeptInStep'
  BY <1>1 DEF SpiInv, KeptInStep, InLoop
<1> QED BY <1>3, <1>4, <1>5, <1>6 DEF Rest

\* A byte left behind is gone before the loop is entered.
LEMMA DiscardRest == ASSUME SpiInv, Discard PROVE Rest'
<1> USE DEF Discard, callVars, cmdVars, chipVars
<1>1. /\ \A i : Byte(i)' = Byte(i)
      /\ Total' = Total /\ ReadLength' = ReadLength
  BY SameCommand
<1>2. TMT /\ credits = 1 /\ ToCome = Len(toWrite) + write_zeros /\ ~ROE /\ ~TOE
  BY DEF SpiInv, OneByteFlying, InLoop
<1>3. Leaving' = 0 /\ Flying' = 0 /\ Leaving = 0
  BY <1>2 DEF Leaving, Flying, Bit, TMT
<1>4. OneByteFlying'
  BY <1>1, <1>2, <1>3, Counts DEF OneByteFlying, InLoop, ToCome
<1>5. Selected'
  BY DEF SpiInv, Selected, InLoop
<1>6. SentInStep'
  BY <1>1, <1>3 DEF SpiInv, SentInStep
<1>7. KeptInStep'
  BY <1>1 DEF SpiInv, KeptInStep, InLoop
<1> QED BY <1>4, <1>5, <1>6, <1>7 DEF Rest

\* The byte written is the next one of the frame; it finds the register empty.
LEMMA SendRest == ASSUME SpiInv, Send PROVE Rest'
<1>1. /\ \A i : Byte(i)' = Byte(i)
      /\ Total' = Total /\ ReadLength' = ReadLength
  <2>1. request' = request /\ part' = part
    BY DEF Send, callVars
  <2> QED BY <2>1, SameCommand
<1>2. /\ UNCHANGED <<request, part, read_ignore, data, rrdy, SSO, transmitting, shift, RRDY,
                     rx_holding, ROE, frame, frames>>
      /\ pc = "send" /\ pc' = IF rrdy THEN "receive" ELSE "poll"
  BY DEF Send, callVars, chipVars
<1>3. Selected'
  BY <1>2 DEF SpiInv, Selected, InLoop
<1>4. KeptInStep'
  BY <1>1, <1>2 DEF SpiInv, KeptInStep, InLoop
<1>5. CASE ~(trdy /\ credits > 0)
  <2>1. UNCHANGED <<toWrite, write_zeros, credits, primed, tx_holding, TOE>>
    BY <1>5 DEF Send
  <2>2. Leaving' = Leaving /\ Flying' = Flying
    BY <1>2, <2>1 DEF Leaving, Flying, Bit
  <2>3. OneByteFlying'
    BY <1>1, <1>2, <2>1, <2>2 DEF SpiInv, OneByteFlying, InLoop, ToCome
  <2>4. SentInStep'
    BY <1>1, <1>2, <2>1, <2>2 DEF SpiInv, SentInStep
  <2> QED BY <1>3, <1>4, <2>3, <2>4 DEF Rest
<1>6. CASE trdy /\ credits > 0
  <2>1. credits = 1 /\ Flying = 0 /\ ToCome = Len(toWrite) + write_zeros /\ ~ROE /\ ~TOE
    BY <1>2, <1>6, Counts DEF SpiInv, OneByteFlying, InLoop
  <2>2. ~primed /\ ~transmitting /\ ~RRDY /\ TRDY
    BY <2>1 DEF Flying, Leaving, Bit, TRDY
  <2>3. pc' = "poll"
    BY <1>2, <2>2 DEF SpiInv, OneByteFlying
  <2>4. Leaving = 0 /\ Bit(transmitting') = 0 /\ Bit(RRDY') = 0
    BY <1>2, <2>2 DEF Leaving, Bit
  <2>5. CASE /\ toWrite # <<>> /\ WriteTx(Head(toWrite)) /\ toWrite' = Tail(toWrite)
             /\ credits' = credits - 1 /\ UNCHANGED write_zeros
    <3>1. primed' /\ tx_holding' = Head(toWrite) /\ UNCHANGED TOE
      BY <2>2, <2>5 DEF WriteTx
    <3>2. /\ Len(toWrite) > 0 /\ Len(toWrite') = Len(toWrite) - 1
          /\ tx_holding' = toWrite[1]
          /\ \A i \in 1 .. Len(toWrite') : toWrite'[i] = toWrite[i + 1]
      <4>1. toWrite \in Seq(Nat)
        BY TypeParts DEF SpiInv, CommandOK
      <4>2. toWrite' = Tail(toWrite) /\ toWrite # <<>>
        BY <2>5
      <4> QED BY <3>1, <4>1, <4>2
    <3>3. Leaving' = 1 /\ Flying' = 1
      BY <2>4, <3>1 DEF Leaving, Flying, Bit
    <3>4. OneByteFlying'
      BY <1>1, <1>2, <2>1, <2>3, <2>5, <3>1, <3>2, <3>3, Counts DEF OneByteFlying, InLoop, ToCome
    <3>5. SentInStep'
      <4>1. /\ Len(frame) + Len(toWrite) + write_zeros = Total
            /\ \A i \in 1 .. Len(frame) : frame[i] = Byte(i)
            /\ \A i \in 1 .. Len(toWrite) : toWrite[i] = Byte(Len(frame) + i)
            /\ write_zeros > 0 => ReadLength > 0
        BY <1>2, <2>4, Counts DEF SpiInv, SentInStep
      <4>2. tx_holding' = Byte(Len(frame) + 1)
        BY <3>2, <4>1, Counts
      <4>3. \A i \in 1 .. Len(toWrite') : toWrite'[i] = Byte(Len(frame) + 1 + i)
        <5> SUFFICES ASSUME NEW i \in 1 .. Len(toWrite') PROVE toWrite'[i] = Byte(Len(frame) + 1 + i)
          OBVIOUS
        <5>1. i + 1 \in 1 .. Len(toWrite) /\ Len(frame) + (i + 1) = Len(frame) + 1 + i
          BY <3>2, Counts
        <5> QED BY <3>2, <4>1, <5>1
      <4>4. Len(frame) + 1 + Len(toWrite') + write_zeros = Total
        BY <3>2, <4>1, Counts
      <4> QED BY <1>1, <1>2, <2>2, <2>3, <2>4, <2>5, <3>3, <4>1, <4>2, <4>3, <4>4, Counts DEF SentInStep
    <3> QED BY <1>3, <1>4, <3>4, <3>5 DEF Rest
  <2>6. CASE /\ toWrite = <<>> /\ write_zeros > 0
             /\ WriteTx(0) /\ write_zeros' = write_zeros - 1
             /\ credits' = credits - 1 /\ UNCHANGED toWrite
    <3>1. primed' /\ tx_holding' = 0 /\ UNCHANGED TOE
      BY <2>2, <2>6 DEF WriteTx
    <3>2. Leaving' = 1 /\ Flying' = 1
      BY <2>4, <3>1 DEF Leaving, Flying, Bit
    <3>3. Len(toWrite) = 0
      BY <2>6
    <3>4. OneByteFlying'
      BY <1>1, <1>2, <2>1, <2>3, <2>6, <3>1, <3>2, <3>3, Counts DEF OneByteFlying, InLoop, ToCome
    <3>5. SentInStep'
      <4>1. /\ Len(frame) + write_zeros = Total
            /\ \A i \in 1 .. Len(frame) : frame[i] = Byte(i)
            /\ ReadLength > 0
        BY <1>2, <2>4, <2>6, <3>3, Counts DEF SpiInv, SentInStep
      <4>2. Byte(Len(frame) + 1) = 0
        <5>1. /\ request.op = "rd" /\ request.len \in Nat /\ Total <= request.len + 1
              /\ Byte(1) = 0
              /\ \A i \in 1 .. request.len : Byte(i + 1) = IF request.op = "wr" THEN i ELSE 0
          BY <1>2, <4>1, Busy
        <5>2. CASE Len(frame) = 0
          BY <5>1, <5>2
        <5>3. CASE Len(frame) # 0
          <6>1. Len(frame) \in 1 .. request.len
            BY <2>6, <4>1, <5>1, <5>3, Counts, Busy
          <6> QED BY <5>1, <6>1
        <5> QED BY <5>2, <5>3
      <4>3. Len(frame) + 1 + write_zeros' = Total
        BY <2>6, <4>1, Counts
      <4> QED BY <1>1, <1>2, <2>2, <2>3, <2>4, <2>6, <3>1, <3>2, <3>3, <4>1, <4>2, <4>3, Counts DEF SentInStep
    <3> QED BY <1>3, <1>4, <3>4, <3>5 DEF Rest
  <2>7. CASE /\ toWrite = <<>> /\ write_zeros = 0
             /\ credits' = -1024
             /\ UNCHANGED <<toWrite, write_zeros, primed, tx_holding, TOE>>
    <3>1. Leaving' = Leaving /\ Flying' = Flying
      BY <1>2, <2>7 DEF Leaving, Flying, Bit
    <3>2. Len(toWrite) = 0
      BY <2>7
    <3>3. OneByteFlying'
      BY <1>1, <1>2, <2>1, <2>3, <2>7, <3>1, <3>2, Counts DEF OneByteFlying, InLoop, ToCome
    <3>4. SentInStep'
      BY <1>1, <1>2, <2>3, <2>7, <3>1 DEF SpiInv, SentInStep
    <3> QED BY <1>3, <1>4, <3>3, <3>4 DEF Rest
  <2> QED BY <1>6, <2>5, <2>6, <2>7 DEF Send
<1> QED BY <1>5, <1>6

\* Arithmetic of Receive: a byte that is kept comes with a data byte of a read.
LEMMA ReceiveCounts ==
  ASSUME SpiInv, Receive
  PROVE  /\ ~primed /\ ~transmitting /\ Leaving = 0 /\ credits = 0
         /\ ToCome = Len(toWrite) + write_zeros + 1
         /\ read_ignore > 0 => ReadLength = 0
         /\ read_ignore = 0 => rx_holding = Len(data) + 2 /\ Len(data) < ReadLength
<1>1. pc = "receive" /\ pc # "idle" /\ InLoop
  BY DEF Receive, InLoop
<1>2. /\ RRDY /\ ReadLength \in Nat
      /\ ToCome = Len(toWrite) + write_zeros + Flying
      /\ (credits = 1 /\ Flying = 0) \/ (credits = 0 /\ Flying = 1) \/ (credits < 0 /\ Flying = 0)
  BY <1>1, Busy, Zenon DEF SpiInv, OneByteFlying
<1>3. Bit(RRDY) = 1
  BY <1>2 DEF Bit
<1>4. Leaving = 0 /\ Bit(primed) = 0 /\ Bit(transmitting) = 0 /\ Flying = 1
  <2>1. Flying = Leaving + 1 /\ Leaving = Bit(primed) + Bit(transmitting)
    BY <1>3 DEF Flying, Leaving
  <2>2. Flying \in {0, 1}
    BY <1>2
  <2> QED BY <2>1, <2>2, Counts
<1>5. ~primed /\ ~transmitting
  BY <1>4 DEF Bit
<1>6. credits = 0 /\ ToCome = Len(toWrite) + write_zeros + 1
  BY <1>2, <1>4
<1>7. read_ignore > 0 => ReadLength = 0
  BY <1>1, <1>2, Counts DEF SpiInv, KeptInStep
<1>8. ASSUME read_ignore = 0 PROVE rx_holding = Len(data) + 2 /\ Len(data) < ReadLength
  <2>1. ReadLength - Len(data) = Len(toWrite) + write_zeros + 1
    BY <1>2, <1>6, <1>8, Counts DEF ToCome
  <2>2. Len(data) < ReadLength
    BY <1>2, <2>1, Counts
  <2>3. Total = ReadLength + 1
    BY <1>1, <1>2, <2>2, Busy, Counts DEF Total
  <2>4. Len(frame) + Len(toWrite) + write_zeros = Total
    BY <1>1, <1>4, Counts DEF SpiInv, SentInStep
  <2>5. rx_holding = Len(frame)
    BY <1>1, <1>2 DEF SpiInv, KeptInStep
  <2> QED BY <1>2, <2>1, <2>2, <2>3, <2>4, <2>5, Counts
<1> QED BY <1>4, <1>5, <1>6, <1>7, <1>8

\* The command ends with the last byte that was to come, and none is left to send.
LEMMA ReceiveRest == ASSUME SpiInv, Receive PROVE Rest'
<1>1. /\ \A i : Byte(i)' = Byte(i)
      /\ Total' = Total /\ ReadLength' = ReadLength
  <2>1. request' = request /\ part' = part
    BY DEF Receive, callVars
  <2> QED BY <2>1, SameCommand
<1>2. /\ UNCHANGED <<request, part, toWrite, write_zeros, rrdy, SSO, primed, tx_holding,
                     transmitting, shift, ROE, TOE, frame, frames>>
      /\ RRDY' = FALSE /\ credits' = credits + 1
      /\ pc = "receive"
      /\ pc' = IF (read_ignore' = 0 /\ Len(data') = ReadLength) THEN "drain" ELSE "poll"
  BY DEF Receive, callVars, chipVars
<1>3. \/ read_ignore > 0 /\ read_ignore' = read_ignore - 1 /\ data' = data
      \/ read_ignore = 0 /\ read_ignore' = read_ignore /\ data' = Append(data, rx_holding)
  BY Counts DEF Receive
<1>4. /\ ~primed /\ ~transmitting /\ Leaving = 0 /\ credits = 0
      /\ ToCome = Len(toWrite) + write_zeros + 1
      /\ read_ignore > 0 => ReadLength = 0
      /\ read_ignore = 0 => (rx_holding = Len(data) + 2 /\ Len(data) < ReadLength)
  BY ReceiveCounts
<1>5. ReadLength \in Nat
  BY <1>2, Busy
<1>6. /\ Len(data') \in Nat /\ read_ignore' \in Nat
      /\ read_ignore' - Len(data') = read_ignore - Len(data) - 1
      /\ Len(data') <= ReadLength
      /\ \A i \in 1 .. Len(data') : data'[i] = i + 1
  <2>1. /\ data \in Seq(Nat) /\ \A i \in 1 .. Len(data) : data[i] = i + 1
        /\ Len(data) <= ReadLength
    BY <1>2, TypeParts DEF SpiInv, CommandOK, KeptInStep
  <2>2. CASE read_ignore > 0
    BY <1>3, <2>1, <2>2, Counts
  <2>3. CASE read_ignore = 0
    <3>1. data' = Append(data, rx_holding) /\ read_ignore' = 0 /\ rx_holding = Len(data) + 2
      BY <1>3, <1>4, <2>3
    <3>2. rx_holding \in Nat
      BY <3>1, Counts
    <3>3. /\ Len(data') = Len(data) + 1 /\ data'[Len(data) + 1] = rx_holding
          /\ \A i \in 1 .. Len(data) : data'[i] = data[i]
      BY <2>1, <3>1, <3>2
    <3>4. \A i \in 1 .. Len(data') : data'[i] = i + 1
      <4> SUFFICES ASSUME NEW i \in 1 .. Len(data') PROVE data'[i] = i + 1
        OBVIOUS
      <4>1. i \in 1 .. Len(data) \/ i = Len(data) + 1
        BY <3>3, Counts
      <4> QED BY <2>1, <3>1, <3>3, <4>1, Counts
    <3> QED BY <1>4, <1>5, <2>3, <3>1, <3>3, <3>4, Counts
  <2> QED BY <2>2, <2>3, Counts
<1>7. ToCome' = Len(toWrite) + write_zeros
  <2>1. ToCome' = read_ignore' + ReadLength - Len(data')
    BY <1>1 DEF ToCome
  <2>2. read_ignore + ReadLength - Len(data) = Len(toWrite) + write_zeros + 1
    BY <1>4 DEF ToCome
  <2>3. /\ Len(data') \in Nat /\ read_ignore' \in Nat
        /\ read_ignore' - Len(data') = read_ignore - Len(data) - 1
    BY <1>6, Zenon
  <2>4. Len(data) \in Nat /\ Len(toWrite) \in Nat /\ write_zeros \in Nat /\ read_ignore \in Nat
    BY Counts
  <2>5. read_ignore' + ReadLength - Len(data') = Len(toWrite) + write_zeros
    BY <1>5, <2>2, <2>3, <2>4
  <2> QED BY <2>1, <2>5, Zenon
<1>8. Leaving' = 0 /\ Flying' = 0
  BY <1>2, <1>4 DEF Leaving, Flying, Bit
<1>9. ASSUME pc' = "drain" PROVE toWrite = <<>> /\ write_zeros = 0 /\ Len(data') = ReadLength
  <2>1. read_ignore' = 0 /\ Len(data') = ReadLength
    BY <1>2, <1>9
  <2>2. ToCome' = 0
    BY <1>1, <1>5, <2>1 DEF ToCome
  <2>3. Len(toWrite) = 0 /\ write_zeros = 0
    BY <1>7, <2>2, Counts
  <2>4. toWrite \in Seq(Nat)
    BY TypeParts DEF SpiInv, CommandOK
  <2> QED BY <2>1, <2>3, <2>4
<1>10. OneByteFlying'
  <2>1. ~ROE /\ ~TOE
    BY DEF SpiInv, OneByteFlying
  <2> QED BY <1>2, <1>4, <1>7, <1>8, <2>1 DEF OneByteFlying, InLoop, TMT
<1>11. Selected'
  BY <1>2 DEF SpiInv, Selected, InLoop
<1>12. SentInStep'
  BY <1>1, <1>2, <1>4, <1>8, <1>9 DEF SpiInv, SentInStep
<1>13. KeptInStep'
  <2>1. ReadLength > 0 => read_ignore' = 0
    BY <1>3, <1>4, <1>5, Counts
  <2> QED BY <1>1, <1>2, <1>6, <1>9, <2>1 DEF KeptInStep, InLoop
<1> QED BY <1>10, <1>11, <1>12, <1>13 DEF Rest

\* The access ends with everything sent and nothing on its way.
LEMMA DrainPart2Rest == ASSUME SpiInv, DrainPart2 PROVE Rest'
<1>1. TMT /\ ~ROE /\ ~TOE
  BY DEF SpiInv, OneByteFlying, DrainPart2
<1>2. /\ pc' = "idle" /\ request' = NONE /\ frame' = <<>>
      /\ UNCHANGED <<primed, transmitting, ROE, TOE>>
  BY DEF DrainPart2, EndFrame
<1> QED BY <1>1, <1>2 DEF Rest, OneByteFlying, Selected, SentInStep, KeptInStep, InLoop, TMT

\* The shift register takes the byte.
LEMMA LoadRest == ASSUME SpiInv, Load PROVE Rest'
<1>1. /\ UNCHANGED <<request, part, pc, toWrite, write_zeros, read_ignore, data, credits,
                     rrdy, SSO, RRDY, rx_holding, ROE, TOE, frame, frames>>
      /\ primed /\ ~transmitting /\ ~primed' /\ transmitting' /\ shift' = tx_holding
  BY DEF Load, callVars, cmdVars, chipVars
<1>2. /\ \A i : Byte(i)' = Byte(i)
      /\ Total' = Total /\ ReadLength' = ReadLength
  BY <1>1, SameCommand
<1>3. Leaving' = Leaving /\ Flying' = Flying /\ Leaving = 1 /\ ~TMT
  BY <1>1 DEF Leaving, Flying, Bit, TMT
<1>4. InLoop
  BY <1>3 DEF SpiInv, OneByteFlying
<1>5. OneByteFlying'
  BY <1>1, <1>2, <1>3, <1>4 DEF SpiInv, OneByteFlying, InLoop, ToCome
<1>6. Selected'
  BY <1>1 DEF SpiInv, Selected, InLoop
<1>7. SentInStep'
  <2>1. shift' = Byte(Len(frame) + 1)
    BY <1>1, <1>4, Counts DEF SpiInv, SentInStep, Bit, InLoop
  <2> QED BY <1>1, <1>2, <1>3, <1>4, <2>1 DEF SpiInv, SentInStep, InLoop
<1>8. KeptInStep'
  BY <1>1, <1>2 DEF SpiInv, KeptInStep, InLoop
<1> QED BY <1>5, <1>6, <1>7, <1>8 DEF Rest

\* The chip gets the next byte of the frame, and the byte that comes back finds
\* the receive register empty.
LEMMA ShiftedRest == ASSUME SpiInv, Shifted PROVE Rest'
<1>1. /\ UNCHANGED <<request, part, pc, toWrite, write_zeros, read_ignore, data, credits,
                     rrdy, SSO, primed, tx_holding, TOE>>
      /\ transmitting /\ ~transmitting' /\ RRDY' /\ ROE' = (ROE \/ RRDY)
      /\ rx_holding' = Len(frame) + 1
  BY DEF Shifted, callVars, cmdVars
<1>2. /\ \A i : Byte(i)' = Byte(i)
      /\ Total' = Total /\ ReadLength' = ReadLength
  BY <1>1, SameCommand
<1>3. InLoop /\ pc # "idle"
  BY <1>1 DEF SpiInv, OneByteFlying, TMT, InLoop
<1>4. /\ ToCome = Len(toWrite) + write_zeros + Flying
      /\ (credits = 1 /\ Flying = 0) \/ (credits = 0 /\ Flying = 1) \/ (credits < 0 /\ Flying = 0)
      /\ SSO /\ ~ROE /\ ~TOE
  BY <1>3, Zenon DEF SpiInv, OneByteFlying, Selected
<1>5. Bit(transmitting) = 1
  BY <1>1 DEF Bit
<1>6. Flying = 1 /\ Leaving = 1 /\ Bit(primed) = 0 /\ Bit(RRDY) = 0 /\ credits = 0
  BY <1>4, <1>5, Counts DEF Flying, Leaving
<1>7. ~primed /\ ~RRDY
  BY <1>6 DEF Bit
<1>8. Leaving' = 0 /\ Flying' = 1 /\ ~ROE'
  <2>1. ~ROE'
    BY <1>1, <1>4, <1>7, Zenon
  <2>2. Bit(primed') = 0 /\ Bit(transmitting') = 0 /\ Bit(RRDY') = 1
    BY <1>1, <1>7 DEF Bit
  <2> QED BY <2>1, <2>2 DEF Leaving, Flying
<1>9. frame' = Append(frame, shift) /\ frames' = frames
  BY <1>4 DEF Shifted
<1>10. /\ Len(frame') = Len(frame) + 1 /\ frame'[Len(frame) + 1] = shift
       /\ \A i \in 1 .. Len(frame) : frame'[i] = frame[i]
  <2>1. frame \in Seq(Nat) /\ shift \in Nat
    BY TypeParts DEF SpiInv, ShifterOK
  <2> QED BY <1>9, <2>1
<1>11. OneByteFlying'
  <2>1. ToCome' = ToCome
    BY <1>1, <1>2 DEF ToCome
  <2>2. InLoop' /\ pc' \notin {"select", "discard"}
    BY <1>1, <1>3 DEF InLoop
  <2> QED BY <1>1, <1>4, <1>6, <1>8, <2>1, <2>2 DEF OneByteFlying
<1>12. Selected'
  BY <1>1, <1>3, <1>9 DEF SpiInv, Selected, InLoop
<1>13. SentInStep'
  <2>1. /\ Len(frame) + 1 + Len(toWrite) + write_zeros = Total
        /\ \A i \in 1 .. Len(frame) : frame[i] = Byte(i)
        /\ shift = Byte(Len(frame) + 1)
        /\ \A i \in 1 .. Len(toWrite) : toWrite[i] = Byte(Len(frame) + 1 + i)
        /\ write_zeros > 0 => ReadLength > 0
    BY <1>1, <1>3, <1>6 DEF SpiInv, SentInStep
  <2>2. \A i \in 1 .. Len(frame') : frame'[i] = Byte(i)
    <3> SUFFICES ASSUME NEW i \in 1 .. Len(frame') PROVE frame'[i] = Byte(i)
      OBVIOUS
    <3>1. i \in 1 .. Len(frame) \/ i = Len(frame) + 1
      BY <1>10, Counts
    <3> QED BY <1>10, <2>1, <3>1
  <2>3. \A i \in 1 .. Len(toWrite') : toWrite'[i] = Byte(Len(frame') + Leaving' + i)
    BY <1>1, <1>8, <1>10, <2>1, Counts
  <2>4. Len(frame') + Leaving' + Len(toWrite') + write_zeros' = Total'
    BY <1>1, <1>2, <1>8, <1>10, <2>1, Counts
  <2>5. pc \notin {"part2", "drain"}
    BY <1>3 DEF InLoop
  <2> QED BY <1>1, <1>2, <1>7, <2>1, <2>2, <2>3, <2>4, <2>5 DEF SentInStep
<1>14. KeptInStep'
  BY <1>1, <1>2, <1>3, <1>10 DEF SpiInv, KeptInStep, InLoop
<1> QED BY <1>11, <1>12, <1>13, <1>14 DEF Rest
-----------------------------------------------------------------------------
(* Theorems.                                                                *)

LEMMA InitSpiInv == ASSUME Init PROVE SpiInv
<1> USE DEF Init
<1>1. TypeOK
  <2>1. FlagsOK
    BY Zenon DEF FlagsOK
  <2>2. CallOK /\ CommandOK /\ ShifterOK
    BY DEF CallOK, CommandOK, ShifterOK
  <2> QED BY <2>1, <2>2, TypeParts
<1>2. Leaving = 0 /\ TMT
  BY DEF Leaving, Bit, TMT
<1> QED BY <1>1, <1>2 DEF SpiInv, OneByteFlying, Selected, SentInStep, KeptInStep, InLoop

LEMMA SpiStep == ASSUME SpiInv, [Next]_vars PROVE SpiInv'
<1>1. Rest'
  <2>1. CASE Next
    BY <2>1, CallRest, CallPart2Rest, QuietRest, DiscardRest, SendRest, ReceiveRest,
       DrainPart2Rest, LoadRest, ShiftedRest, Zenon DEF Next, Thread, Device
  <2>2. CASE UNCHANGED vars
    <3> USE <2>2 DEF vars, callVars, cmdVars, devVars, chipVars
    <3>1. /\ \A i : Byte(i)' = Byte(i)
          /\ Total' = Total /\ ReadLength' = ReadLength
      BY SameCommand
    <3>2. Leaving' = Leaving /\ Flying' = Flying /\ (TMT' <=> TMT)
      BY DEF Leaving, Flying, Bit, TMT
    <3>3. OneByteFlying'
      BY <3>1, <3>2 DEF SpiInv, OneByteFlying, InLoop, ToCome
    <3>4. Selected'
      BY DEF SpiInv, Selected, InLoop
    <3>5. SentInStep'
      BY <3>1, <3>2 DEF SpiInv, SentInStep
    <3>6. KeptInStep'
      BY <3>1 DEF SpiInv, KeptInStep, InLoop
    <3> QED BY <3>3, <3>4, <3>5, <3>6 DEF Rest
  <2> QED BY <2>1, <2>2
<1> QED BY <1>1, TypeStep, Zenon DEF SpiInv, Rest

\* However long the access and however slowly the device shifts: at every step of
\* alt_avalon_spi_command exactly the spent credit is on its way, no byte is
\* overwritten, and the bytes sent and kept so far are the right ones.
THEOREM SpiCorrect == Spec => []SpiInv
<1>1. Init => SpiInv
  BY InitSpiInv
<1>2. SpiInv /\ [Next]_vars => SpiInv'
  BY SpiStep
<1> QED BY <1>1, <1>2, PTL DEF Spec

\* Two sequences with the same elements are the same.
LEMMA SeqEqual ==
  ASSUME NEW s \in Seq(Nat), NEW t \in Seq(Nat), Len(s) = Len(t),
         \A i \in 1 .. Len(s) : s[i] = t[i]
  PROVE  s = t
OBVIOUS

\* At the end of an access the chip has the whole frame and the caller the answer.
LEMMA PerformStep == ASSUME SpiInv, DrainPart2 PROVE Access!Perform
<1>1. pc = "drain" /\ part = 2 /\ TMT /\ request' = NONE
      /\ frames' = Append(frames, frame) /\ data' = data
  BY DEF DrainPart2, EndFrame, cmdVars
<1>2. request \in Access!Requests /\ request # NONE /\ request.len \in Nat
      /\ request.op \in {"wr", "rd"}
  BY <1>1, Busy
<1>3. frame = Access!Frame(request)
  <2>1. Access!Frame(request) \in Seq(Nat) /\ Len(Access!Frame(request)) = request.len + 1
    BY <1>2, FrameBytes
  <2>2. frame \in Seq(Nat)
    BY TypeParts DEF SpiInv, ShifterOK
  <2>3. Leaving = 0 /\ Total = request.len + 1
    BY <1>1 DEF Leaving, Bit, TMT, Total
  <2>4. Len(toWrite) = 0 /\ write_zeros = 0
    BY <1>1 DEF SpiInv, SentInStep
  <2>5. Len(frame) = request.len + 1
    BY <1>1, <2>3, <2>4, Counts DEF SpiInv, SentInStep
  <2>6. \A i \in 1 .. Len(frame) : frame[i] = Access!Frame(request)[i]
    BY <1>1 DEF SpiInv, SentInStep, Byte
  <2> QED BY <2>1, <2>2, <2>5, <2>6, SeqEqual
<1>4. data = Access!Answer(request)
  <2>1. data \in Seq(Nat)
    BY TypeParts DEF SpiInv, CommandOK
  <2>2. Len(data) = ReadLength /\ \A i \in 1 .. Len(data) : data[i] = i + 1
    BY <1>1 DEF SpiInv, KeptInStep
  <2>3. CASE request.op = "rd"
    <3> DEFINE kept == [i \in 1 .. request.len |-> i + 1]
    <3>1. kept \in Seq(Nat) /\ Len(kept) = request.len /\ \A i \in 1 .. request.len : kept[i] = i + 1
      BY <1>2
    <3>2. Len(data) = request.len
      BY <1>1, <2>2, <2>3 DEF ReadLength
    <3>3. Access!Answer(request) = kept
      BY <2>3 DEF Access!Answer
    <3> HIDE DEF kept
    <3> QED BY <2>1, <2>2, <3>1, <3>2, <3>3, SeqEqual
  <2>4. CASE request.op = "wr"
    <3>1. Len(data) = 0 /\ Access!Answer(request) = <<>>
      BY <2>2, <2>4 DEF ReadLength, Access!Answer
    <3> QED BY <2>1, <3>1
  <2> QED BY <1>2, <2>3, <2>4
<1>5. frames' = <<Access!Frame(request)>>
  <2>1. frames = <<>>
    BY <1>1 DEF SpiInv, Selected
  <2> QED BY <1>1, <1>3, <2>1
<1>6. (IF request = NONE THEN data ELSE <<>>)' = Access!Answer(request)
  BY <1>1, <1>4
<1> QED BY <1>1, <1>2, <1>5, <1>6 DEF Access!Perform, Access!Answer, Access!Frame

\* Every access, of any length, is one frame with the command byte and the data
\* bytes in order, and a read returns the bytes that came with the data bytes.
THEOREM AccessCorrect == Spec => ImplementsAccess
<1>1. Init => Access!Init
  BY DEF Init, Access!Init
<1>2. SpiInv /\ [Next]_vars => [Access!Next]_Access!vars
  <2> SUFFICES ASSUME SpiInv, [Next]_vars PROVE [Access!Next]_Access!vars
    OBVIOUS
  <2>1. CASE Call
    <3>1. request = NONE
      BY <2>1 DEF Call, SpiInv, Selected
    <3>2. request' \in Access!Requests /\ data' = <<>> /\ frames' = <<>>
      BY <2>1 DEF Call, Enter, Access!Requests
    <3>3. request' # NONE
      BY <3>2, FrameBytes
    <3> QED BY <3>1, <3>2, <3>3 DEF Access!Next, Access!Call, Access!Requests
  <2>2. CASE DrainPart2
    BY <2>2, PerformStep DEF Access!Next
  <2>3. CASE CallPart2 \/ Select \/ Discard \/ Poll \/ Send \/ Receive \/ DrainPart1 \/ Load \/ Shifted
    <3>1. pc # "idle"
      BY <2>3 DEF CallPart2, Select, Discard, Poll, Send, Receive, DrainPart1, Load, Shifted,
         SpiInv, OneByteFlying, InLoop, TMT
    <3>2. request # NONE
      BY <3>1 DEF SpiInv, Selected
    <3>3. request' = request
      BY <2>3 DEF CallPart2, Select, Discard, Poll, Send, Receive, DrainPart1, Load, Shifted, callVars
    <3>4. frames' = frames
      <4>1. CASE Shifted
        <5>1. InLoop
          BY <4>1 DEF Shifted, SpiInv, OneByteFlying, TMT
        <5> QED BY <4>1, <5>1 DEF Shifted, SpiInv, Selected
      <4> QED BY <2>3, <4>1 DEF CallPart2, Select, Discard, Poll, Send, Receive, DrainPart1, Load, chipVars
    <3> QED BY <3>2, <3>3, <3>4 DEF Access!vars
  <2>4. CASE UNCHANGED vars
    BY <2>4 DEF vars, callVars, cmdVars, chipVars, Access!vars
  <2> QED BY <2>1, <2>2, <2>3, <2>4 DEF Next, Thread, Device
<1> QED BY <1>1, <1>2, SpiCorrect, PTL DEF Spec, ImplementsAccess, Access!Spec
-----------------------------------------------------------------------------
(***************************************************************************)
(* Why an access ends: every step of the thread and of the device brings   *)
(* it nearer to its end, and the thread waits only for the device.  The    *)
(* one exception is the data command of an access of 0 bytes (EmptyPart),  *)
(* which enters the loop with nothing to wait for and never leaves it.     *)
(***************************************************************************)
Left == Len(toWrite) + write_zeros

Step == CASE pc = "select" -> 4 [] pc = "discard" -> 3 [] pc = "poll" -> 2
          [] pc \in {"send", "drain"} -> 1 [] OTHER -> 0

SecondPart == IF part = 1 /\ pc # "idle" THEN 8 * request.len + 10 ELSE 0

\* Steps that are left at most: each byte takes 8, of which those beyond the
\* writing are counted by the register that it is in.
StepsLeft == SecondPart + 8 * Left + 5 * Bit(primed) + 4 * Bit(transmitting)
               + 3 * Bit(RRDY) + Step

\* The loop is entered and gone on with only while a byte is still to come, or for
\* 0 bytes, and what the status word said is enough for the credits.
LoopHasWork ==
  /\ pc \in {"select", "discard"} \/ InLoop => (IF EmptyPart THEN ToCome = 0 ELSE ToCome > 0)
  /\ EmptyPart => pc \in {"select", "discard"} \/ InLoop
  /\ pc = "send" => (credits = 1 => trdy) /\ (credits = 0 => rrdy)
  /\ pc = "drain" => ~RRDY

Countable ==
  /\ SecondPart \in Nat /\ Left \in Nat /\ StepsLeft \in Nat
  /\ Step \in Int /\ 0 <= Step /\ Step <= 4
  /\ Bit(primed) \in Int /\ Bit(transmitting) \in Int /\ Bit(RRDY) \in Int
  /\ 0 <= Bit(RRDY) /\ Bit(RRDY) <= 1 /\ Bit(primed) <= 1

LEMMA SumCounted ==
  ASSUME NEW s \in Nat, NEW l \in Nat, NEW p \in Nat, NEW t \in Nat, NEW r \in Nat, NEW k \in Nat
  PROVE  s + 8 * l + 5 * p + 4 * t + 3 * r + k \in Nat
OBVIOUS

LEMMA StepsCounted == SpiInv => Countable
<1> SUFFICES ASSUME SpiInv PROVE Countable
  OBVIOUS
<1>1. SecondPart \in Nat
  BY Busy DEF SecondPart
<1>2. Left \in Nat
  BY Counts DEF Left
<1>3. Step \in Nat /\ Step \in Int /\ 0 <= Step /\ Step <= 4
  BY DEF Step
<1>4. Bit(primed) \in Nat /\ Bit(transmitting) \in Nat /\ Bit(RRDY) \in Nat
  BY DEF Bit
<1>5. /\ Bit(primed) \in Int /\ Bit(transmitting) \in Int /\ Bit(RRDY) \in Int
      /\ 0 <= Bit(RRDY) /\ Bit(RRDY) <= 1 /\ Bit(primed) <= 1
  BY DEF Bit
<1>6. StepsLeft \in Nat
  BY <1>1, <1>2, <1>3, <1>4, SumCounted, Zenon DEF StepsLeft
<1> QED BY <1>1, <1>2, <1>3, <1>5, <1>6, Zenon DEF Countable

LEMMA StepsCountedNext == SpiInv' => Countable'
<1>1. (SpiInv => Countable)'
  BY StepsCounted, PTL
<1> QED BY <1>1, Zenon

\* The sum falls when its parts do.
LEMMA SumFalls ==
  ASSUME NEW s \in Int, NEW l \in Int, NEW p \in Int, NEW t \in Int, NEW r \in Int, NEW k \in Int,
         NEW s2 \in Int, NEW l2 \in Int, NEW p2 \in Int, NEW t2 \in Int, NEW r2 \in Int, NEW k2 \in Int,
         (s - s2) + 8 * (l - l2) + 5 * (p - p2) + 4 * (t - t2) + 3 * (r - r2) + (k - k2) > 0
  PROVE  s2 + 8 * l2 + 5 * p2 + 4 * t2 + 3 * r2 + k2 < s + 8 * l + 5 * p + 4 * t + 3 * r + k
OBVIOUS

LEMMA StepsFall ==
  ASSUME Countable, Countable',
         (SecondPart - SecondPart') + 8 * (Left - Left') + 5 * (Bit(primed) - Bit(primed)')
           + 4 * (Bit(transmitting) - Bit(transmitting)') + 3 * (Bit(RRDY) - Bit(RRDY)')
           + (Step - Step') > 0
  PROVE  StepsLeft' < StepsLeft
<1> DEFINE s == SecondPart
           l == Left
           s2 == SecondPart'
           l2 == Left'
<1>1. s \in Nat /\ l \in Nat /\ s2 \in Nat /\ l2 \in Nat
  BY Zenon DEF Countable
<1> HIDE DEF s, l, s2, l2
<1>2. s \in Int /\ l \in Int /\ s2 \in Int /\ l2 \in Int
  BY <1>1
<1> USE DEF s, l, s2, l2
<1>3. /\ Step \in Int /\ Bit(primed) \in Int /\ Bit(transmitting) \in Int /\ Bit(RRDY) \in Int
      /\ Step' \in Int /\ Bit(primed)' \in Int /\ Bit(transmitting)' \in Int
      /\ Bit(RRDY)' \in Int
  BY Zenon DEF Countable
<1> QED BY <1>2, <1>3, SumFalls, Zenon DEF StepsLeft

\* A byte is taken in only while one is owed.
LEMMA ReceiveOwed == ASSUME SpiInv, pc = "receive" PROVE ToCome > 0
<1>1. ToCome = Len(toWrite) + write_zeros + Flying /\ RRDY
  BY DEF SpiInv, OneByteFlying, InLoop
<1>2. Flying \in Int /\ Flying > 0
  BY <1>1 DEF Flying, Leaving, Bit
<1>3. Len(toWrite) \in Nat /\ write_zeros \in Nat
  BY Counts
<1> QED BY <1>1, <1>2, <1>3

\* What a step of the thread does to the counts of LoopHasWork.
LEMMA WorkStep ==
  ASSUME SpiInv, LoopHasWork, [Next]_vars
  PROVE  LoopHasWork'
<1>1. CASE Call
  <2>1. request' \in Access!Requests /\ toWrite' = <<0>> /\ write_zeros' = 0 /\ part' = 1
        /\ read_ignore' = 1 /\ data' = <<>> /\ pc' = "select"
    BY <1>1 DEF Call, Enter, Access!Requests
  <2>2. ToCome' = 1
    BY <2>1 DEF ToCome, ReadLength
  <2> QED BY <2>1, <2>2 DEF LoopHasWork, EmptyPart
<1>2. CASE CallPart2
  <2>1. request \in Access!Requests /\ request.len \in Nat /\ request.op \in {"wr", "rd"}
    BY <1>2, Busy DEF CallPart2
  <2>2. request # NONE
    BY <1>2, Busy DEF CallPart2
  <2>3. pc' = "select" /\ data' = <<>> /\ part' = 2 /\ request' = request
    BY <1>2 DEF CallPart2, Enter
  <2>4. ToCome' = request.len
    <3>1. CASE request.op = "wr"
      <4>1. read_ignore' = Len([i \in 1 .. request.len |-> i])
        BY <1>2, <3>1 DEF CallPart2, Enter
      <4>2. read_ignore' = request.len
        BY <2>1, <4>1
      <4> QED BY <2>1, <2>3, <3>1, <4>2 DEF ToCome, ReadLength
    <3>2. CASE request.op = "rd"
      <4>1. read_ignore' = 0
        BY <1>2, <3>2 DEF CallPart2, Enter
      <4> QED BY <2>1, <2>3, <3>2, <4>1 DEF ToCome, ReadLength
    <3> QED BY <2>1, <3>1, <3>2
  <2>5. EmptyPart' <=> request.len = 0
    BY <2>2, <2>3 DEF EmptyPart
  <2> QED BY <2>1, <2>3, <2>4, <2>5 DEF LoopHasWork
<1>3. CASE Select \/ Discard \/ DrainPart1
  <2>1. ToCome' = ToCome /\ (pc' \in {"discard", "poll"} => pc \in {"select", "discard"})
        /\ pc' \in {"discard", "poll", "part2"} /\ (pc' = "part2" => part' = 1)
        /\ (EmptyPart' <=> EmptyPart)
    BY <1>3 DEF Select, Discard, DrainPart1, callVars, cmdVars, ToCome, ReadLength, EmptyPart
  <2> QED BY <2>1 DEF LoopHasWork, InLoop, EmptyPart
<1>4. CASE Poll
  <2>1. ToCome' = ToCome /\ pc = "poll" /\ pc' = "send" /\ credits' = credits
        /\ trdy' = TRDY /\ rrdy' = RRDY /\ ((TRDY /\ credits # 0) \/ RRDY)
        /\ (EmptyPart' <=> EmptyPart)
    BY <1>4 DEF Poll, callVars, cmdVars, ToCome, ReadLength, EmptyPart
  <2>2. credits = 1 => TRDY
    BY <2>1, Counts DEF SpiInv, OneByteFlying, InLoop, Flying, Leaving, Bit, TRDY
  <2> QED BY <2>1, <2>2 DEF LoopHasWork, InLoop
<1>5. CASE Send
  <2>1. ToCome' = ToCome /\ pc = "send" /\ pc' \in {"receive", "poll"}
        /\ (EmptyPart' <=> EmptyPart)
    BY <1>5 DEF Send, callVars, ToCome, ReadLength, EmptyPart
  <2> QED BY <2>1 DEF LoopHasWork, InLoop
<1>6. CASE Receive
  <2>1. pc' = IF read_ignore' = 0 /\ Len(data') = ReadLength THEN "drain" ELSE "poll"
    BY <1>6 DEF Receive
  <2>2. ReadLength' = ReadLength /\ ~RRDY'
    BY <1>6 DEF Receive, callVars, ReadLength
  <2>3. /\ read_ignore' \in Nat /\ Len(data') \in Nat /\ ReadLength \in Nat
        /\ Len(data') <= ReadLength
    <3>1. SpiInv' /\ pc' # "idle"
      BY <1>6, <2>1, SpiStep DEF Next, Thread
    <3>2. Len(data') \in Nat /\ read_ignore' \in Nat /\ Len(data') <= ReadLength'
      BY <3>1 DEF SpiInv, KeptInStep, TypeOK
    <3>3. ReadLength \in Nat
      BY <1>6, Busy DEF Receive
    <3> QED BY <2>2, <3>2, <3>3
  <2>4. pc' = "poll" => ToCome' > 0
    BY <2>1, <2>2, <2>3 DEF ToCome
  <2>5. ~EmptyPart'
    <3>1. ~EmptyPart
      BY <1>6, ReceiveOwed DEF Receive, LoopHasWork, InLoop
    <3> QED BY <1>6, <3>1 DEF Receive, callVars, EmptyPart
  <2> QED BY <2>1, <2>2, <2>4, <2>5 DEF LoopHasWork, InLoop
<1>7. CASE DrainPart2
  BY <1>7 DEF DrainPart2, LoopHasWork, InLoop, EmptyPart
<1>8. CASE Load
  BY <1>8 DEF Load, LoopHasWork, InLoop, ToCome, ReadLength, callVars, cmdVars, EmptyPart
<1>9. CASE Shifted
  <2>1. pc # "drain"
    BY <1>9 DEF Shifted, SpiInv, OneByteFlying, InLoop, TMT
  <2> QED BY <1>9, <2>1 DEF Shifted, LoopHasWork, InLoop, ToCome, ReadLength, callVars, cmdVars,
          EmptyPart
<1>10. CASE UNCHANGED vars
  BY <1>10 DEF vars, callVars, cmdVars, devVars, LoopHasWork, InLoop, ToCome, ReadLength,
     EmptyPart
<1> QED BY <1>1, <1>2, <1>3, <1>4, <1>5, <1>6, <1>7, <1>8, <1>9, <1>10 DEF Next, Thread, Device

\* A step between two bytes leaves the registers alone.
LEMMA ThreadDescends ==
  ASSUME SpiInv, SpiInv', CallPart2 \/ Select \/ Discard \/ Poll \/ DrainPart1 \/ DrainPart2
  PROVE  StepsLeft' < StepsLeft
<1>1. Countable /\ Countable'
  BY StepsCounted, StepsCountedNext
<1>2. Bit(primed)' = Bit(primed) /\ Bit(transmitting)' = Bit(transmitting)
      /\ (Bit(RRDY)' = Bit(RRDY) \/ Bit(RRDY)' = 0)
  BY DEF CallPart2, Select, Discard, Poll, DrainPart1, DrainPart2, devVars, Bit
<1>3. CASE CallPart2
  <2>1. request.len \in Nat /\ request.op \in {"wr", "rd"}
    BY <1>3, Busy DEF CallPart2
  <2>2. /\ SecondPart = 8 * request.len + 10 /\ SecondPart' = 0 /\ Step = 0 /\ Step' = 4
    BY <1>3 DEF CallPart2, Enter, SecondPart, Step, SpiInv, Selected
  <2>3. Left' = request.len
    <3>1. CASE request.op = "wr"
      <4>1. write_zeros' = 0 /\ toWrite' = [i \in 1 .. request.len |-> i]
        BY <1>3, <3>1 DEF CallPart2, Enter
      <4> QED BY <2>1, <4>1 DEF Left
    <3>2. CASE request.op = "rd"
      BY <1>3, <2>1, <3>2 DEF CallPart2, Enter, Left
    <3> QED BY <2>1, <3>1, <3>2
  <2>4. (SecondPart - SecondPart') + 8 * (Left - Left') + 5 * (Bit(primed) - Bit(primed)')
          + 4 * (Bit(transmitting) - Bit(transmitting)') + 3 * (Bit(RRDY) - Bit(RRDY)')
          + (Step - Step') > 0
    BY <1>1, <1>2, <2>1, <2>2, <2>3 DEF Countable
  <2> QED BY <1>1, <2>4, StepsFall
<1>4. CASE Select \/ Discard \/ Poll
  <2>1. Left' = Left /\ SecondPart' = SecondPart
    BY <1>4 DEF Select, Discard, Poll, callVars, cmdVars, Left, SecondPart
  <2>2. Step' \in Int /\ Step' < Step
    BY <1>4 DEF Select, Discard, Poll, Step
  <2>3. (SecondPart - SecondPart') + 8 * (Left - Left') + 5 * (Bit(primed) - Bit(primed)')
          + 4 * (Bit(transmitting) - Bit(transmitting)') + 3 * (Bit(RRDY) - Bit(RRDY)')
          + (Step - Step') > 0
    BY <1>1, <1>2, <2>1, <2>2 DEF Countable
  <2> QED BY <1>1, <2>3, StepsFall
<1>5. CASE DrainPart1 \/ DrainPart2
  <2>1. Left' = Left /\ Step = 1 /\ Step' = 0
    BY <1>5 DEF DrainPart1, DrainPart2, cmdVars, Left, Step
  <2>2. SecondPart' = SecondPart
    BY <1>5 DEF DrainPart1, DrainPart2, callVars, SecondPart
  <2>3. (SecondPart - SecondPart') + 8 * (Left - Left') + 5 * (Bit(primed) - Bit(primed)')
          + 4 * (Bit(transmitting) - Bit(transmitting)') + 3 * (Bit(RRDY) - Bit(RRDY)')
          + (Step - Step') > 0
    BY <1>1, <1>2, <2>1, <2>2 DEF Countable
  <2> QED BY <1>1, <2>3, StepsFall
<1> QED BY <1>3, <1>4, <1>5

\* A byte takes the place of the one in the credit, goes out, comes in, is read.
LEMMA ByteDescends ==
  ASSUME SpiInv, SpiInv', LoopHasWork, ~EmptyPart, Send \/ Receive \/ Load \/ Shifted
  PROVE  StepsLeft' < StepsLeft
<1> DEFINE Fall == (SecondPart - SecondPart') + 8 * (Left - Left') + 5 * (Bit(primed) - Bit(primed)')
                     + 4 * (Bit(transmitting) - Bit(transmitting)') + 3 * (Bit(RRDY) - Bit(RRDY)')
                     + (Step - Step')
<1>1. SecondPart' = SecondPart
  <2>1. UNCHANGED <<request, part>> /\ (pc' = "idle" <=> pc = "idle")
    BY DEF Send, Receive, Load, Shifted, callVars
  <2> QED BY <2>1 DEF SecondPart
<1>2. Countable /\ Countable'
  BY StepsCounted, StepsCountedNext
<1>3. CASE Send
  <2>1. UNCHANGED <<transmitting, RRDY>> /\ Step = 1 /\ pc = "send" /\ InLoop
        /\ pc' = IF rrdy THEN "receive" ELSE "poll"
    BY <1>3 DEF Send, Step, InLoop
  <2>2. Bit(transmitting)' = Bit(transmitting) /\ Bit(RRDY)' = Bit(RRDY)
    BY <2>1
  <2>3. CASE ~(trdy /\ credits > 0)
    <3>1. Left' = Left /\ Bit(primed)' = Bit(primed)
      BY <1>3, <2>3 DEF Send, Left
    <3>2. credits < 0 => ToCome = 0
      BY <2>1, Counts DEF SpiInv, OneByteFlying
    <3>3. credits = 0
      BY <2>1, <2>3, <3>2, Counts DEF LoopHasWork, SpiInv, OneByteFlying
    <3>4. Step' = 0
      BY <2>1, <3>3 DEF LoopHasWork, Step
    <3>5. Fall > 0
      BY <1>1, <1>2, <2>1, <2>2, <3>1, <3>4 DEF Countable
    <3> QED BY <1>2, <3>5, StepsFall
  <2>4. CASE trdy /\ credits > 0
    <3>1. credits = 1 /\ Flying = 0 /\ ToCome = Left
      BY <2>1, <2>4, Counts DEF SpiInv, OneByteFlying, Left
    <3>2. Bit(primed) = 0
      BY <3>1, Counts DEF Flying, Leaving
    <3>3. Left' = Left - 1
      <4>1. Left > 0
        BY <2>1, <3>1 DEF LoopHasWork
      <4>2. \/ toWrite # <<>> /\ toWrite' = Tail(toWrite) /\ write_zeros' = write_zeros
            \/ toWrite = <<>> /\ write_zeros > 0 /\ write_zeros' = write_zeros - 1
               /\ toWrite' = toWrite
            \/ toWrite = <<>> /\ write_zeros = 0
        BY <1>3, <2>4 DEF Send
      <4>3. toWrite \in Seq(Nat) /\ write_zeros \in Nat
        BY TypeParts DEF SpiInv, CommandOK
      <4>4. toWrite # <<>> => Len(Tail(toWrite)) = Len(toWrite) - 1
        BY <4>3
      <4>5. ~(toWrite = <<>> /\ write_zeros = 0)
        BY <4>1 DEF Left
      <4>6. Len(toWrite) \in Nat
        BY <4>3
      <4> QED BY <4>2, <4>3, <4>4, <4>5, <4>6 DEF Left
    <3>4. Step' <= 2 /\ Step' \in Int
      BY <2>1 DEF Step
    <3>5. Fall > 0
      BY <1>1, <1>2, <2>1, <2>2, <3>2, <3>3, <3>4 DEF Countable
    <3> QED BY <1>2, <3>5, StepsFall
  <2> QED BY <2>3, <2>4
<1>4. CASE Receive
  <2>1. Left' = Left /\ UNCHANGED <<primed, transmitting>> /\ RRDY' = FALSE
        /\ pc = "receive" /\ pc' \in {"drain", "poll"}
    BY <1>4 DEF Receive, Left
  <2>2. RRDY
    BY <2>1 DEF SpiInv, OneByteFlying
  <2>3. Bit(RRDY) = 1 /\ Bit(RRDY)' = 0 /\ Bit(primed)' = Bit(primed)
        /\ Bit(transmitting)' = Bit(transmitting)
    BY <2>1, <2>2 DEF Bit
  <2>4. Step = 0 /\ Step' \in {1, 2}
    BY <2>1 DEF Step
  <2>5. Fall > 0
    BY <1>1, <1>2, <2>1, <2>3, <2>4 DEF Countable
  <2> QED BY <1>2, <2>5, StepsFall
<1>5. CASE Load
  <2>1. Left' = Left /\ Step' = Step /\ Bit(RRDY)' = Bit(RRDY)
    BY <1>5 DEF Load, cmdVars, Left, Step, Bit
  <2>2. /\ Bit(primed) = 1 /\ Bit(transmitting) = 0
        /\ Bit(primed)' = 0 /\ Bit(transmitting)' = 1
    BY <1>5 DEF Load, Bit
  <2>3. Fall > 0
    BY <1>1, <1>2, <2>1, <2>2 DEF Countable
  <2> QED BY <1>2, <2>3, StepsFall
<1>6. CASE Shifted
  <2>1. Left' = Left /\ Step' = Step /\ Bit(primed)' = Bit(primed)
    BY <1>6 DEF Shifted, cmdVars, Left, Step, Bit
  <2>2. Bit(transmitting) = 1 /\ Bit(transmitting)' = 0 /\ Bit(RRDY)' = 1
    BY <1>6 DEF Shifted, Bit
  <2>3. Fall > 0
    BY <1>1, <1>2, <2>1, <2>2 DEF Countable
  <2> QED BY <1>2, <2>3, StepsFall
<1> QED BY <1>3, <1>4, <1>5, <1>6

\* What the spec keeps beside SpiInv.
LEMMA WorkCorrect == Spec => [](SpiInv /\ LoopHasWork)
<1>1. Init => LoopHasWork
  BY DEF Init, LoopHasWork, InLoop, EmptyPart
<1>2. SpiInv /\ LoopHasWork /\ [Next]_vars => LoopHasWork'
  BY WorkStep
<1> QED BY <1>1, <1>2, SpiCorrect, PTL DEF Spec

\* Every step of the thread and of the device takes away one of the steps that
\* the access has left, but for the data command of an access of 0 bytes.
AccessShrinks ==
  [][(Thread \/ Device) /\ ~EmptyPart => StepsLeft' < StepsLeft /\ StepsLeft' \in Nat]_vars

\* The loop of alt_avalon_spi_command is gone through a bounded number of times,
\* however the device's bytes fall between its polls of the status.
THEOREM AccessTerminates == Spec => AccessShrinks
<1>1. SpiInv /\ LoopHasWork /\ SpiInv' /\ [Next]_vars
        => [(Thread \/ Device) /\ ~EmptyPart => StepsLeft' < StepsLeft /\ StepsLeft' \in Nat]_vars
  <2> SUFFICES ASSUME SpiInv, LoopHasWork, SpiInv', Thread \/ Device, ~EmptyPart
               PROVE  StepsLeft' < StepsLeft /\ StepsLeft' \in Nat
    OBVIOUS
  <2>1. StepsLeft' \in Nat
    BY StepsCountedNext, Zenon DEF Countable
  <2> QED BY <2>1, ThreadDescends, ByteDescends DEF Thread, Device
<1> QED BY <1>1, WorkCorrect, PTL DEF Spec, AccessShrinks

\* The data command of an access of 0 bytes is never over (transfer.c:211 with an
\* empty packet): it stays where it is, and the chip stays selected.
NeverOver == [][EmptyPart => EmptyPart']_vars

\* Once MAXbytes_rd asks for 0 bytes, no step of the thread or of the master ends it.
THEOREM EmptyNeverEnds == Spec => NeverOver
<1>1. SpiInv /\ LoopHasWork /\ [Next]_vars => [EmptyPart => EmptyPart']_vars
  <2> SUFFICES ASSUME SpiInv, LoopHasWork, Next, EmptyPart
               PROVE  EmptyPart'
    OBVIOUS
  <2>1. pc \in {"select", "discard", "poll", "send"}
    BY ReceiveOwed DEF LoopHasWork, InLoop
  <2>2. Select \/ Discard \/ Poll \/ Send \/ Load \/ Shifted
    BY <2>1 DEF Next, Thread, Device, Call, CallPart2, Receive, DrainPart1, DrainPart2
  <2> QED BY <2>2 DEF Select, Discard, Poll, Send, Load, Shifted, callVars, EmptyPart
<1> QED BY <1>1, WorkCorrect, PTL DEF Spec, NeverOver

\* Where the thread finds nothing to do, a byte is on its way in the device; and only
\* for 0 bytes does it poll with nothing to send and nothing on its way.
NobodyWaits ==
  /\ (pc = "poll" /\ ~((TRDY /\ credits # 0) \/ RRDY)) \/ (pc = "drain" /\ ~TMT)
       => primed \/ transmitting
  /\ pc = "poll" => (EmptyPart <=> toWrite = <<>> /\ write_zeros = 0 /\ Flying = 0)

\* But for 0 bytes, the thread never polls for a byte that the device does not owe it.
THEOREM NeverStuck == Spec => []NobodyWaits
<1>1. SpiInv /\ LoopHasWork => NobodyWaits
  <2> SUFFICES ASSUME SpiInv, LoopHasWork PROVE NobodyWaits
    OBVIOUS
  <2>1. ASSUME pc = "poll", ~TRDY \/ credits = 0, ~RRDY
        PROVE  primed \/ transmitting
    <3>1. CASE ~TRDY
      BY <3>1, Zenon DEF TRDY
    <3>2. CASE credits = 0
      <4>1. Bit(primed) + Bit(transmitting) + Bit(RRDY) = 1
        BY <2>1, <3>2 DEF SpiInv, OneByteFlying, InLoop, Flying, Leaving
      <4> QED BY <2>1, <4>1 DEF Bit
    <3> QED BY <2>1, <3>1, <3>2
  <2>2. pc = "drain" /\ ~TMT => primed \/ transmitting
    BY Zenon DEF TMT
  <2>3. ASSUME pc = "poll"
        PROVE  EmptyPart <=> toWrite = <<>> /\ write_zeros = 0 /\ Flying = 0
    <3>1. ToCome = Len(toWrite) + write_zeros + Flying
      BY <2>3 DEF SpiInv, OneByteFlying, InLoop
    <3>2. IF EmptyPart THEN ToCome = 0 ELSE ToCome > 0
      BY <2>3 DEF LoopHasWork, InLoop
    <3>3. toWrite \in Seq(Nat) /\ Flying \in Nat
      BY TypeParts, Counts DEF SpiInv, CommandOK, Flying, Leaving
    <3>4. toWrite = <<>> <=> Len(toWrite) = 0
      BY <3>3
    <3> QED BY <3>1, <3>2, <3>3, <3>4, Counts
  <2> QED BY <2>1, <2>2, <2>3, Zenon DEF NobodyWaits
<1> QED BY <1>1, WorkCorrect, PTL
=============================================================================
