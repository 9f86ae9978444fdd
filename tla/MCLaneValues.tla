---------------------------- MODULE MCLaneValues ----------------------------
(***************************************************************************)
(* Programs with data for LaneValues, on the lists the sort makes.         *)
(***************************************************************************)
EXTENDS LaneValues, ShaderCfgs, TLC

Data(def, use, stores, returnsVar) ==
  [def |-> def, use |-> use, stores |-> stores, returnsVar |-> returnsVar]

(* The list with the data: a record with the fields of both. *)
With(g, order, data) == Threaded(g, BackEdges(g), order, "terminator") @@ data

WhileOrder == <<"E", "H", "D", "B", "C", "M">>

LoopOrder == <<"E", "H", "B", "B2", "C", "K", "M", "R">>

SelectionsOrder == <<"E", "T", "M", "F2", "T2", "M2">>

NestedOrder == <<"E", "H", "D", "H2", "D2", "B2", "C2", "M2", "C", "M">>

GetNumOrder == <<"E", "R3", "H", "B", "T", "B2", "B3", "B4", "C", "K", "M", "R">>

(* No lane can leave def behind on an earlier turn of a loop, and every    *)
(* return returns the variable.                                            *)
TameFunctions ==
  {With(WhileLoop, WhileOrder, Data("D", "B", {"D"}, {"M"})),
   With(WhileLoop, WhileOrder, Data("H", "C", {"B"}, {"M"})),
   With(WhileLoop, WhileOrder, Data("E", "M", {"E", "B", "M"}, {"M"})),
   With(Selections, SelectionsOrder, Data("E", "M2", {"E", "T", "F2"}, {"M2"})),
   With(NestedLoops, NestedOrder, Data("D", "B2", {"D", "B2", "M2"}, {"M"})),
   With(NestedLoops, NestedOrder, Data("H", "M2", {"H", "B2"}, {"M"})),
   With(LoopWithReturn, LoopOrder, Data("B", "C", {"B", "B2"}, {"R", "M"}))}

ASSUME TameAssumption == \A p \in TameFunctions : ReturnsVariable(p) /\ DiesInItsTurn(p)

(* x = v++ in the loop condition, and x used after the loop.               *)
ValueOutOfLoop == {With(WhileLoop, WhileOrder, Data("D", "M", {"D"}, {"M"}))}

(* get_num of branch_1.comp.py: two returns of t, and one of t + t*t*t.    *)
GetNumReturns == {With(GetNum, GetNumOrder, Data("B", "B", {"B", "B2", "M"}, {"R", "M"}))}
=============================================================================
