---------------------------- MODULE ControlFlow ----------------------------
(***************************************************************************)
(* The control-flow graph of one SPIR-V function, as the vectorizer of     *)
(* spirv_to_llvm.cpp builds it from deferred_branches, and the relations   *)
(* it derives before it sorts the blocks.                                  *)
(*                                                                         *)
(* A graph is a record: blocks is the set of basic blocks that are left    *)
(* once the OpUnreachable blocks are removed, entry is entry_bb, and       *)
(* out[b] is the out_bbs set of b's CFG_Node: empty for OpReturn and       *)
(* OpReturnValue, one block for OpBranch, two for OpBranchConditional.     *)
(* "none" and "terminator" stand for no block of a graph.                  *)
(***************************************************************************)
EXTENDS Naturals, FiniteSets, Sequences

IsCfg(g) ==
  /\ g = [blocks |-> g.blocks, entry |-> g.entry, out |-> g.out]
  /\ IsFiniteSet(g.blocks) /\ "none" \notin g.blocks /\ "terminator" \notin g.blocks
  /\ g.entry \in g.blocks
  /\ g.out \in [g.blocks -> SUBSET g.blocks]
  /\ \A b \in g.blocks : Cardinality(g.out[b]) <= 2

(* in_bbs of b's CFG_Node: each branch fills both of its ends. *)
InBlocks(g, b) == {a \in g.blocks : b \in g.out[a]}

Edges(g) == {e \in g.blocks \X g.blocks : e[2] \in g.out[e[1]]}

(***************************************************************************)
(* What a breadth-first walk along out_bbs visits when it starts at `from` *)
(* and never enters `avoid`.                                               *)
(***************************************************************************)
Visited(g, from, avoid) ==
  LET n == Cardinality(g.blocks)
      walk[i \in 0..n] ==
        IF i = 0 THEN {from}
        ELSE LET seen == walk[i-1]
             IN  seen \cup UNION {g.out[b] \ {avoid} : b \in seen}
  IN  walk[n]

(* reachable(a, b): there is a path, possibly empty, from a to b. *)
Reachable(g, a, b) == b \in Visited(g, a, "none")

(***************************************************************************)
(* dom_cache[b], by deletion: d dominates b when removing d cuts b off     *)
(* from the entry. The pass skips the entry block as a candidate, so the   *)
(* entry is in no set but its own, and a block that cannot be reached at   *)
(* all is dominated by every block but the entry.                          *)
(***************************************************************************)
Dominators(g) ==
  LET cutBy == [d \in g.blocks \ {g.entry} |-> g.blocks \ Visited(g, g.entry, d)]
  IN  [b \in g.blocks |-> {b} \cup {d \in g.blocks \ {g.entry} : b \in cutBy[d]}]

(* back_edges: the edges whose target dominates their source. *)
BackEdges(g) ==
  LET dom == Dominators(g) IN {e \in Edges(g) : e[2] \in dom[e[1]]}

(* The blocks that can run at all. *)
Live(g) == Visited(g, g.entry, "none")

(* a and b lie on a common cycle. *)
SameComponent(g, a, b) == Reachable(g, a, b) /\ Reachable(g, b, a)

(***************************************************************************)
(* Inputs. Shader compilers emit reducible graphs: without its back edges  *)
(* the live part of the graph is acyclic. A branch never targets the entry *)
(* block, and the two targets of a conditional branch differ.              *)
(***************************************************************************)
IsReducible(g) ==
  LET back    == BackEdges(g)
      forward == [g EXCEPT !.out =
                    [b \in g.blocks |-> {d \in g.out[b] : <<b, d>> \notin back}]]
  IN  \A b \in Live(g) : \A d \in forward.out[b] : ~Reachable(forward, d, b)

IsShaderCfg(g) ==
  /\ IsCfg(g)
  /\ InBlocks(g, g.entry) = {}
  /\ \A b \in g.blocks : b \notin g.out[b]
  /\ IsReducible(g)

(***************************************************************************)
(* The graph with the list threaded through it: the next and the id fields *)
(* the sort leaves in the CFG_Nodes of the blocks in `order`. The last one *)
(* is followed by the block that returns from the function.                *)
(***************************************************************************)
Threaded(g, back, order, terminator) ==
  LET listed == {order[i] : i \in 1..Len(order)}
      at     == [b \in listed |-> CHOOSE i \in 1..Len(order) : order[i] = b]
  IN  [blocks |-> listed,
       entry  |-> g.entry,
       out    |-> [b \in listed |-> g.out[b]],
       back   |-> {e \in back : e[1] \in listed},
       id     |-> at,
       next   |-> [b \in listed |->
                     IF at[b] = Len(order) THEN terminator ELSE order[at[b] + 1]]]
=============================================================================
