----------------------------- MODULE CharStream -----------------------------
(***************************************************************************)
(* What one direction of a serial line promises.  Characters are numbered  *)
(* in the order in which the line accepts them.  Whatever comes out is the *)
(* next character: none is lost, repeated or overtaken, and none comes out *)
(* before it was accepted.                                                 *)
(***************************************************************************)
EXTENDS Integers, Sequences

VARIABLES accepted,   \* number of characters accepted so far
          taken       \* the characters that came out

vars == <<accepted, taken>>

Init == accepted = 0 /\ taken = <<>>

\* The line accepts some characters.
Put == accepted' \in Nat /\ accepted' > accepted /\ UNCHANGED taken

\* The next characters come out.
Take ==
  /\ taken' \in Seq(Nat)
  /\ Len(taken') > Len(taken) /\ Len(taken') <= accepted
  /\ \A i \in 1 .. Len(taken') :
       taken'[i] = IF i <= Len(taken) THEN taken[i] ELSE i
  /\ UNCHANGED accepted

Next == Put \/ Take

Spec == Init /\ [][Next]_vars
=============================================================================
