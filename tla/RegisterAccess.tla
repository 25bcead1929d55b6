--------------------------- MODULE RegisterAccess ---------------------------
(***************************************************************************)
(* What the USB code counts on when it calls MAXreg_wr, MAXbytes_wr,       *)
(* MAXreg_rd or MAXbytes_rd: the chip sees one frame, the command byte and *)
(* the data bytes in order, and the caller gets the bytes that the chip    *)
(* sent with the data bytes, no others.                                    *)
(***************************************************************************)
EXTENDS Integers, Sequences

CONSTANTS Lengths,   \* numbers of data bytes of an access
          NONE       \* no access under way

VARIABLES request,   \* the access under way
          frames,    \* frames that the chip saw since the last call
          answer     \* bytes that the last access returned

vars == <<request, frames, answer>>

Requests == [op : {"wr", "rd"}, len : Lengths]

\* Data bytes are numbered from 1, the command byte is 0; a read sends zeros.
Frame(r) == <<0>> \o [i \in 1 .. r.len |-> IF r.op = "wr" THEN i ELSE 0]

\* The chip numbers the bytes it sends in a frame from 1.
Answer(r) == IF r.op = "rd" THEN [i \in 1 .. r.len |-> i + 1] ELSE <<>>

Init == request = NONE /\ frames = <<>> /\ answer = <<>>

Call == /\ request = NONE /\ request' \in Requests
        /\ frames' = <<>> /\ answer' = <<>>

Perform == /\ request # NONE /\ request' = NONE
           /\ frames' = <<Frame(request)>> /\ answer' = Answer(request)

Next == Call \/ Perform

Spec == Init /\ [][Next]_vars
=============================================================================
