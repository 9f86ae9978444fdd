----------------------------- MODULE Linearize -----------------------------
(***************************************************************************)
(* The loop-aware topological sort of spirv_to_llvm.cpp: it lays the basic *)
(* blocks of a function out in one line, the order in which the masked     *)
(* code will try them.                                                     *)
(*                                                                         *)
(* to_visit is the worklist (a deque), sorted is sorted_bbs without the    *)
(* allocas block every list starts with. The successors of a block are     *)
(* pushed in the order of a std::set of pointers, so in the order the heap *)
(* happened to give: any order.                                            *)
(***************************************************************************)
EXTENDS ControlFlow, SequencesExt

CONSTANT Shaders  \* the control-flow graphs considered

ASSUME ShadersAssumption == \A g \in Shaders : IsShaderCfg(g)

VARIABLES
  cfg,          \* the function being compiled
  back_edges, \* its back edges, computed before the sort starts
  to_visit,   \* the deque of blocks still to be looked at
  sorted      \* the blocks placed so far, in order

sortVars == <<cfg, back_edges, to_visit, sorted>>

Sorted == ToSet(sorted)

TypeOK ==
  /\ IsCfg(cfg)
  /\ back_edges \subseteq Edges(cfg)
  /\ to_visit \in Seq(cfg.blocks)
  /\ sorted \in Seq(cfg.blocks)

(* Variant the type invariant rejects: the edges kept as (to, from).        *)
InitSwapped ==
  /\ cfg \in Shaders
  /\ back_edges = {<<e[2], e[1]>> : e \in BackEdges(cfg)}
  /\ to_visit = <<cfg.entry>>
  /\ sorted = << >>

Init ==
  /\ cfg \in Shaders
  /\ back_edges = BackEdges(cfg)
  /\ to_visit = <<cfg.entry>>
  /\ sorted = << >>

(* Variants: one placed predecessor is enough; back edges are waited for.   *)
ReadyWithOne(b) == InBlocks(cfg, b) = {} \/ InBlocks(cfg, b) \cap Sorted # {}
ReadyWithAll(b) == InBlocks(cfg, b) \subseteq Sorted

(* Every predecessor is placed, but for those that jump backwards. *)
ReadyToInsert(b) ==
  \A in \in InBlocks(cfg, b) : in \in Sorted \/ <<in, b>> \in back_edges

(* The front block was placed since it was queued: drop it. *)
SkipPlaced ==
  /\ to_visit # << >>
  /\ Head(to_visit) \in Sorted
  /\ to_visit' = Tail(to_visit)
  /\ UNCHANGED <<cfg, back_edges, sorted>>

(* The front block waits for a predecessor: to the end of the queue. *)
Defer ==
  /\ to_visit # << >>
  /\ Head(to_visit) \notin Sorted
  /\ ~ReadyToInsert(Head(to_visit))
  /\ to_visit' = Append(Tail(to_visit), Head(to_visit))
  /\ UNCHANGED <<cfg, back_edges, sorted>>

(* Variants of Place: plain breadth first; the way out of a cycle first;    *)
(* the way out of a cycle forgotten.                                        *)
PlaceWith(Queue(_, _, _)) ==
  /\ to_visit # << >>
  /\ LET bb   == Head(to_visit)
         reachables == {out \in cfg.out[bb] : Reachable(cfg, out, bb)}
     IN /\ bb \notin Sorted
        /\ ReadyToInsert(bb)
        /\ \E r \in SetToSeqs(reachables), u \in SetToSeqs(cfg.out[bb] \ reachables) :
             to_visit' = Queue(r, Tail(to_visit), u)
        /\ sorted' = Append(sorted, bb)
  /\ UNCHANGED <<cfg, back_edges>>

PlaceBreadthFirst == PlaceWith(LAMBDA r, rest, u : rest \o r \o u)
PlaceExitFirst == PlaceWith(LAMBDA r, rest, u : u \o r \o rest)
PlaceForgetful ==
  PlaceWith(LAMBDA r, rest, u : IF r = << >> THEN u \o rest ELSE r \o rest)

(***************************************************************************)
(* The front block is placed. Its successors on a common cycle with it go  *)
(* to the front of the queue and the others to the end; without any on a   *)
(* common cycle, all go to the front.                                      *)
(***************************************************************************)
Place ==
  /\ to_visit # << >>
  /\ LET bb   == Head(to_visit)
         rest == Tail(to_visit)
         reachables   == {out \in cfg.out[bb] : Reachable(cfg, out, bb)}
         unreachables == cfg.out[bb] \ reachables
     IN /\ bb \notin Sorted
        /\ ReadyToInsert(bb)
        /\ \E r \in SetToSeqs(reachables), u \in SetToSeqs(unreachables) :
             to_visit' = IF reachables # {} THEN r \o rest \o u ELSE u \o rest
        /\ sorted' = Append(sorted, bb)
  /\ UNCHANGED <<cfg, back_edges>>

SortDone == to_visit = << >>

Next == SkipPlaced \/ Defer \/ Place

(* The sort is a loop of a sequential program: it does not stop by itself. *)
Spec == Init /\ [][Next]_sortVars /\ WF_sortVars(Next)

-----------------------------------------------------------------------------
(* The list the sort leaves behind: node.next and node.id of each block.   *)

List == Threaded(cfg, back_edges, sorted, "terminator")

Conditionals == {b \in Sorted : Cardinality(cfg.out[b]) = 2}

-----------------------------------------------------------------------------
(* Properties.                                                             *)

(***************************************************************************)
(* At every moment, a block in the list has all its forward predecessors   *)
(* before it and all its back-edge sources not before it, and is listed    *)
(* once: "every bb comes before all bbs that are reachable from it", loops *)
(* aside. A lane that jumps forward then never jumps over itself.          *)
(***************************************************************************)
TopologicalOrder ==
  /\ \A i, j \in 1..Len(sorted) : sorted[i] = sorted[j] => i = j
  /\ \A i, j \in 1..Len(sorted) :
       sorted[j] \in cfg.out[sorted[i]] =>
         IF <<sorted[i], sorted[j]>> \in back_edges THEN j <= i ELSE i < j

(* When the worklist runs dry, each block that can run is in the list.     *)
EveryLiveBlockPlaced == SortDone => Sorted = Live(cfg)

(***************************************************************************)
(* "For loops we want to emit the blocks from the same strongly connected  *)
(* component first": once the list enters an outermost cycle it stays in   *)
(* it until the cycle is complete, so that no block of the code after the  *)
(* loop sits between two blocks of the loop.                               *)
(***************************************************************************)
LoopsContiguous ==
  \A i, j, k \in 1..Len(sorted) :
    i < j /\ j < k /\ SameComponent(cfg, sorted[i], sorted[k])
      => SameComponent(cfg, sorted[i], sorted[j])

(* "The way we sort enforces this ordering": a conditional branch is       *)
(* followed in the list by one of its two targets.                         *)
BranchFollowedByTarget == SortDone => \A b \in Conditionals : List.next[b] \in cfg.out[b]

(* The worklist runs dry: no block is deferred for ever. *)
SortTerminates == <>SortDone
=============================================================================
