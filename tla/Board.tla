------------------------------- MODULE Board -------------------------------
(***************************************************************************)
(* The keyboard branch of main, the text display and the fractal engine on *)
(* the one board.  None of the three reads a variable of another: the text *)
(* path takes no part in a selection, and the engine is driven by a main   *)
(* of its own, which makes the selections that main.c fails to make.  So   *)
(* their interleavings say nothing about any of them that one of them      *)
(* moving alone does not, and only one moves in a behaviour.               *)
(***************************************************************************)
EXTENDS KeyboardApp, TextDisplay, FractalEngine

VARIABLE part       \* the one that moves

boardVars == <<part, appVars, vars, engineVars>>

BoardInit ==
  /\ part \in {"keyboard", "text", "engine"}
  /\ AppInit /\ Init /\ EngineInit
  /\ part # "keyboard" => prev_keycode = 0     \* one of the garbage words will do

Keyboard == part = "keyboard" /\ AppNext /\ UNCHANGED <<part, vars, engineVars>>
Text     == part = "text" /\ Next /\ UNCHANGED <<part, appVars, engineVars>>
Engine   == part = "engine" /\ EngineNext /\ UNCHANGED <<part, appVars, vars>>

BoardNext == Keyboard \/ Text \/ Engine

BoardSpec == BoardInit /\ [][BoardNext]_boardVars
=============================================================================
