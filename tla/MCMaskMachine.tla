--------------------------- MODULE MCMaskMachine ---------------------------
(***************************************************************************)
(* The machine on every topological order of the live blocks of a few      *)
(* graphs: all the lists the theorems are about, of which the sort only    *)
(* makes some.                                                             *)
(***************************************************************************)
EXTENDS MaskMachine, ShaderCfgs

ListsOf(g) ==
  LET back  == BackEdges(g)
      live  == Live(g)
      Ready(b, order) ==
        /\ \A i \in 1..Len(order) : order[i] # b
        /\ \A a \in InBlocks(g, b) \cap live :
             <<a, b>> \in back \/ \E i \in 1..Len(order) : order[i] = a
      orders[n \in 0..Cardinality(live)] ==
        IF n = 0 THEN {<< >>}
        ELSE UNION {{Append(o, b) : b \in {c \in live : Ready(c, o)}} : o \in orders[n-1]}
  IN  {Threaded(g, back, o, "terminator") : o \in orders[Cardinality(live)]}

MCPrograms == UNION {ListsOf(g) : g \in {EarlyReturn, Selections, ShortCircuit, WhileLoop,
                                         LoopWithReturn, DirectBreakContinue}}
=============================================================================
