----------------------------- MODULE ShaderCfgs -----------------------------
(***************************************************************************)
(* Control-flow graphs for the checks. A graph is written as the record    *)
(* that gives each block's out_bbs. The block names follow the source the  *)
(* graph comes from: E entry, H loop header, D loop condition, B body, C   *)
(* continue target, M merge, T and F the two arms of a selection, R a      *)
(* block that returns.                                                     *)
(***************************************************************************)
CfgOf(entry, out) == [blocks |-> DOMAIN out, entry |-> entry, out |-> out]

(* tests/hlsl/branch.comp.py: one arm returns, the other goes on. *)
EarlyReturn == CfgOf("E",
  [E |-> {"R", "F"}, R |-> {}, F |-> {"M"}, M |-> {}])

(* A selection without an else, then one with both arms. *)
Selections == CfgOf("E",
  [E |-> {"T", "M"}, T |-> {"M"}, M |-> {"T2", "F2"}, T2 |-> {"M2"}, F2 |-> {"M2"},
   M2 |-> {}])

(* while (cond) body; *)
WhileLoop == CfgOf("E",
  [E |-> {"H"}, H |-> {"D"}, D |-> {"B", "M"}, B |-> {"C"}, C |-> {"H"}, M |-> {}])

(***************************************************************************)
(* get_num of tests/hlsl/branch_1.comp.py and of Readme.md: a selection    *)
(* whose one arm is a loop with a continue, a return and a break.          *)
(***************************************************************************)
GetNum == CfgOf("E",
  [E |-> {"H", "R3"}, H |-> {"B"}, B |-> {"T", "B2"}, T |-> {"C"}, B2 |-> {"R", "B3"},
   R |-> {}, B3 |-> {"K", "B4"}, K |-> {"M"}, B4 |-> {"C"}, C |-> {"H"}, M |-> {},
   R3 |-> {}])

(* A loop whose body may return, may go on at once, or runs to its end. *)
LoopWithReturn == CfgOf("E",
  [E |-> {"H"}, H |-> {"B"}, B |-> {"R", "B2"}, R |-> {}, B2 |-> {"C", "K"}, K |-> {"M"},
   C |-> {"H"}, M |-> {}])

(* A loop nested in a loop. *)
NestedLoops == CfgOf("E",
  [E |-> {"H"}, H |-> {"D"}, D |-> {"H2", "M"}, H2 |-> {"D2"}, D2 |-> {"B2", "M2"},
   B2 |-> {"C2"}, C2 |-> {"H2"}, M2 |-> {"C"}, C |-> {"H"}, M |-> {}])

(* if (a || b) x; : the second operand is only evaluated when it matters. *)
ShortCircuit == CfgOf("E",
  [E |-> {"F", "L"}, F |-> {"L"}, L |-> {"T", "M"}, T |-> {"M"}, M |-> {}])

(***************************************************************************)
(* A loop whose body always leaves: its continue target C is never reached *)
(* but still branches to the header.                                       *)
(***************************************************************************)
DeadContinue == CfgOf("E",
  [E |-> {"H"}, H |-> {"B"}, B |-> {"R", "K"}, R |-> {}, K |-> {"M"}, C |-> {"H"},
   M |-> {}])

TestShaders ==
  {EarlyReturn, Selections, WhileLoop, GetNum, LoopWithReturn, NestedLoops, ShortCircuit,
   DeadContinue}

(***************************************************************************)
(* loop { if (a) { x; continue; } if (b) break; else continue; } with the  *)
(* break and the continue as direct targets of the conditional branch,     *)
(* the form SPIR-V allows and optimisers leave.                            *)
(***************************************************************************)
DirectBreakContinue == CfgOf("E",
  [E |-> {"H"}, H |-> {"B"}, B |-> {"X", "Y"}, X |-> {"C"}, Y |-> {"M", "C"},
   C |-> {"H"}, M |-> {}])
=============================================================================
