--------------------------- MODULE LaneSemantics ---------------------------
(***************************************************************************)
(* What the vectorizer promises: each lane of a subgroup runs the          *)
(* control-flow graph of the shader on its own, as a scalar program would. *)
(* It starts at the entry block, moves along one edge at a time and is off *)
(* once it has returned. Lanes may move together; nothing else is said of  *)
(* their timing.                                                           *)
(***************************************************************************)
CONSTANTS
  Lanes,  \* the lanes of a subgroup
  Off     \* where a lane is that was not launched, or has returned

VARIABLES
  prog,   \* the shader: a record with fields blocks, entry and out
  at      \* the block each lane is about to execute

laneVars == <<prog, at>>

Init ==
  /\ prog.entry \in prog.blocks
  /\ prog.out \in [prog.blocks -> SUBSET prog.blocks]
  /\ \E launched \in SUBSET Lanes :
       at = [l \in Lanes |-> IF l \in launched THEN prog.entry ELSE Off]

(* Where a lane can be once it has executed block b. *)
After(b) == IF prog.out[b] = {} THEN {Off} ELSE prog.out[b]

(* Each lane of S executes the block it is at. *)
Move(S) ==
  /\ \A l \in S : at[l] \in prog.blocks /\ at'[l] \in After(at[l])
  /\ \A l \in Lanes \ S : at'[l] = at[l]
  /\ DOMAIN at' = Lanes
  /\ prog' = prog

Next == \E S \in SUBSET Lanes : Move(S)

Spec == Init /\ [][Next]_laneVars
=============================================================================
