----------------------------- MODULE Vectorizer -----------------------------
(***************************************************************************)
(* The vectorizer from end to end: a function's blocks are sorted          *)
(* (Linearize), its branches are lowered, which aborts the compiler when   *)
(* an assertion fails, and the masked code runs (MaskMachine). Where       *)
(* MaskMachine takes any list that is linear, here the list is the one     *)
(* the sort has made.                                                      *)
(***************************************************************************)
EXTENDS Linearize

CONSTANT Lanes  \* the lanes of a subgroup

VARIABLES
  phase,    \* "sort", then "run", or "aborted"
  prog, mask, enabled, mode, cur  \* the machine's, see MaskMachine

machineVars == <<prog, mask, enabled, mode, cur>>
allVars == <<cfg, back_edges, to_visit, sorted, phase, prog, mask, enabled, mode, cur>>

Machine == INSTANCE MaskMachine WITH Programs <- {}, Terminator <- "terminator"

VInit ==
  /\ Init
  /\ phase = "sort"
  /\ enabled \in SUBSET Lanes
  /\ prog = << >> /\ mask = << >> /\ mode = "run" /\ cur = cfg.entry

Sort ==
  /\ phase = "sort"
  /\ Next
  /\ UNCHANGED <<phase, prog, mask, enabled, mode, cur>>

(***************************************************************************)
(* The assertions of the lowering, made for every block, listed or not: a  *)
(* conditional branch is followed by one of its targets and makes no back  *)
(* edge; a return has a block after it in the list.                        *)
(***************************************************************************)
CompileAssertions ==
  \A b \in cfg.blocks :
    /\ Cardinality(cfg.out[b]) = 2 =>
         /\ b \in Sorted /\ List.next[b] \in cfg.out[b]
         /\ \A d \in cfg.out[b] : <<b, d>> \notin back_edges
    /\ cfg.out[b] = {} => b \in Sorted

Lower ==
  /\ phase = "sort"
  /\ SortDone
  /\ CompileAssertions
  /\ phase' = "run"
  /\ prog' = List
  /\ mask' = Machine!EntryMasks(prog', enabled)
  /\ UNCHANGED <<cfg, back_edges, to_visit, sorted, enabled, mode, cur>>

Abort ==
  /\ phase = "sort"
  /\ SortDone
  /\ ~CompileAssertions
  /\ phase' = "aborted"
  /\ UNCHANGED <<cfg, back_edges, to_visit, sorted, prog, mask, enabled, mode, cur>>

Run ==
  /\ phase = "run"
  /\ Machine!Next
  /\ UNCHANGED <<cfg, back_edges, to_visit, sorted, phase>>

VNext == Sort \/ Lower \/ Abort \/ Run

(* The compiler and the code it makes are sequential and do not stop.      *)
VSpec == VInit /\ [][VNext]_allVars /\ WF_allVars(VNext)

Running == phase = "run" /\ ~Machine!Done

-----------------------------------------------------------------------------
(* Properties.                                                             *)

(* The machine's own type invariant: its list is the linear one that       *)
(* MaskMachine and its theorems take for granted.                          *)
ListIsLinear == phase = "run" => Machine!TypeOK

(***************************************************************************)
(* A block runs once all lanes that may still come to it have: no lane is  *)
(* left elsewhere with a way to this block, unless round a loop that this  *)
(* block is itself a part of. So after an outermost loop all its lanes are *)
(* together again, though they left it on different turns.                 *)
(***************************************************************************)
LoopReconvergence ==
  (Running /\ mode = "run" /\ Machine!Waiting(cur) # {}) =>
    \A b \in prog.blocks \ {cur} :
      Machine!Waiting(b) # {} /\ Reachable(cfg, b, cur) => SameComponent(cfg, b, cur)

(***************************************************************************)
(* The compiled function does to each lane what the function's own graph   *)
(* says: source graph to masked execution, through whatever list the sort  *)
(* came up with.                                                           *)
(***************************************************************************)
Source ==
  INSTANCE LaneSemantics WITH
    Off  <- "off",
    prog <- cfg,
    at   <- [l \in Lanes |-> IF phase = "run" THEN Machine!LaneAt(l)
                             ELSE IF l \in enabled THEN cfg.entry ELSE "off"]

CompiledCodeFollowsSource == Source!Spec

(***************************************************************************)
(* The code never spins: again and again it executes a block for a lane,   *)
(* until the function returns. This rests on the sort: a return inside the *)
(* stretch of a loop would keep a stale mask register that the dispatch    *)
(* chain takes for waiting lanes, turn after turn.                         *)
(***************************************************************************)
NeverSpins ==
  []<>(\/ phase = "aborted"
       \/ phase = "run" /\ (Machine!Done \/ (mode = "run" /\ Machine!Waiting(cur) # {})))
=============================================================================
