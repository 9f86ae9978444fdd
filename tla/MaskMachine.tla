---------------------------- MODULE MaskMachine ----------------------------
(***************************************************************************)
(* The code the vectorizer of spirv_to_llvm.cpp emits for one function:    *)
(* all lanes of a subgroup run one linear list of basic blocks, and a mask *)
(* register per block says which lanes wait to execute it.                 *)
(*                                                                         *)
(* A program is a record: blocks, entry and out are the control-flow graph *)
(* (out[b] is empty for a return, one block for OpBranch, two for          *)
(* OpBranchConditional); next and id are the list the sort has made of it, *)
(* next[b] being Terminator for the last block; back holds the back edges. *)
(*                                                                         *)
(* A step executes one LLVM block: a dispatch block of the chain, or the   *)
(* pseudo block of a basic block together with the branch code appended to *)
(* it. What a lane's condition evaluates to is left open.                  *)
(***************************************************************************)
EXTENDS ControlFlow

CONSTANTS
  Lanes,      \* the lanes of a subgroup
  Programs,   \* the linearized functions considered
  Terminator  \* global_terminator: where the function returns

(***************************************************************************)
(* What the machine needs of a program, and what the sort guarantees: the  *)
(* list numbers the blocks one by one, an edge that is not a back edge     *)
(* goes to a later block, a back edge to an earlier one, and only an       *)
(* unconditional branch makes a back edge.                                 *)
(***************************************************************************)
IsLinear(p) ==
  /\ IsFiniteSet(p.blocks) /\ Terminator \notin p.blocks
  /\ p.entry \in p.blocks
  /\ p.out \in [p.blocks -> SUBSET p.blocks]
  /\ p.next \in [p.blocks -> p.blocks \cup {Terminator}]
  /\ p.id \in [p.blocks -> Nat]
  /\ \A b, c \in p.blocks : p.id[b] = p.id[c] => b = c
  /\ \A b \in p.blocks :
       /\ p.next[b] # Terminator => p.id[p.next[b]] = p.id[b] + 1
       /\ p.next[b] = Terminator => \A c \in p.blocks : p.id[c] <= p.id[b]
       /\ \A d \in p.out[b] :
            IF <<b, d>> \in p.back
              THEN p.id[d] < p.id[b] /\ p.out[b] = {d}
              ELSE p.id[b] < p.id[d]

ASSUME ProgramsAssumption == \A p \in Programs : IsLinear(p)

VARIABLES
  prog,    \* the program that runs
  mask,    \* mask_registers: the lanes that wait to execute each block
  enabled, \* enabled_lanes_register: the lanes that have not returned
  mode,    \* "run": at a block's pseudo block; "dispatch": in the chain
  cur      \* the block whose code comes next, Terminator at the end

vars == <<prog, mask, enabled, mode, cur>>

Done == cur = Terminator

(* The lanes block b would execute for now: its register masked by the     *)
(* enabled lanes, as the pseudo block does before it calls the block.      *)
Waiting(b) == mask[b] \cap enabled

TypeOK ==
  /\ IsLinear(prog)
  /\ mask \in [prog.blocks -> SUBSET Lanes]
  /\ enabled \in SUBSET Lanes
  /\ mode \in {"run", "dispatch"}
  /\ cur \in prog.blocks \cup {Terminator}

(* Variant the type invariant rejects: the other registers are not set up.  *)
EntryMaskOnly(p, launched) == [b \in {p.entry} |-> launched]

(* The mask registers when the function is entered with the mask of its    *)
(* caller, maybe a part of the lanes: the entry block gets it.             *)
EntryMasks(p, launched) == [b \in p.blocks |-> IF b = p.entry THEN launched ELSE {}]

Init ==
  /\ prog \in Programs
  /\ enabled \in SUBSET Lanes
  /\ mask = EntryMasks(prog, enabled)
  /\ mode = "run"
  /\ cur = prog.entry

-----------------------------------------------------------------------------

(* Variant: the two targets of the dispatch block's branch are swapped.     *)
DispatchSwapped ==
  /\ mode = "dispatch"
  /\ ~Done
  /\ IF mask[cur] # {}
       THEN mode' = "dispatch" /\ cur' = prog.next[cur]
       ELSE mode' = "run" /\ cur' = cur
  /\ UNCHANGED <<prog, mask, enabled>>

(* A dispatch block: on to the next one while no lane waits for this one.  *)
Dispatch ==
  /\ mode = "dispatch"
  /\ ~Done
  /\ IF mask[cur] = {}
       THEN mode' = "dispatch" /\ cur' = prog.next[cur]
       ELSE mode' = "run" /\ cur' = cur
  /\ UNCHANGED <<prog, mask, enabled>>

(* Variants: the block's own register is not reset; the target's register   *)
(* is overwritten.                                                          *)
MasksNotReset(goesTo) ==
  [b \in prog.blocks |-> mask[b] \cup {l \in Waiting(cur) : goesTo[l] = b}]
MasksOverwritten(goesTo) ==
  [b \in prog.blocks |->
     IF b = cur THEN {}
     ELSE IF b \in prog.out[cur] THEN {l \in Waiting(cur) : goesTo[l] = b}
     ELSE mask[b]]

(* The masks once the lanes of cur have each gone to goesTo[l].            *)
MovedMasks(goesTo) ==
  [b \in prog.blocks |->
     IF b = cur THEN {}
     ELSE mask[b] \cup {l \in Waiting(cur) : goesTo[l] = b}]

(* Variant: straight to one of the targets, as a scalar branch would.       *)
BranchToTarget ==
  /\ mode = "run"
  /\ ~Done
  /\ \E t, f \in prog.out[cur] : t # f /\ cur' = t
  /\ \E goesTo \in [Waiting(cur) -> prog.out[cur]] : mask' = MovedMasks(goesTo)
  /\ mode' = "dispatch"
  /\ UNCHANGED <<prog, enabled>>

(* A conditional branch splits the lanes and enters the dispatch chain at  *)
(* the next block of the list.                                             *)
BranchConditional ==
  /\ mode = "run"
  /\ ~Done
  /\ \E t, f \in prog.out[cur] : t # f
  /\ \E goesTo \in [Waiting(cur) -> prog.out[cur]] : mask' = MovedMasks(goesTo)
  /\ mode' = "dispatch"
  /\ cur' = prog.next[cur]
  /\ UNCHANGED <<prog, enabled>>

(* Variant: a back edge falls through as well.                              *)
BranchOnward ==
  /\ mode = "run"
  /\ ~Done
  /\ \E d \in prog.out[cur] :
       /\ prog.out[cur] = {d}
       /\ mask' = MovedMasks([l \in Waiting(cur) |-> d])
  /\ cur' = prog.next[cur]
  /\ UNCHANGED <<prog, enabled, mode>>

(* An unconditional branch hands all lanes over. A back edge jumps to the  *)
(* loop header; any other branch falls through to the next block of the    *)
(* list, be it the target or not, and whether or not lanes wait for it.    *)
Branch ==
  /\ mode = "run"
  /\ ~Done
  /\ \E d \in prog.out[cur] :
       /\ prog.out[cur] = {d}
       /\ mask' = MovedMasks([l \in Waiting(cur) |-> d])
       /\ cur' = IF <<cur, d>> \in prog.back THEN d ELSE prog.next[cur]
  /\ UNCHANGED <<prog, enabled, mode>>

(* Variant: the first return leaves the function.                           *)
ReturnAtOnce ==
  /\ mode = "run"
  /\ ~Done
  /\ prog.out[cur] = {}
  /\ mask' = [mask EXCEPT ![cur] = Waiting(cur)]
  /\ cur' = Terminator
  /\ UNCHANGED <<prog, mode, enabled>>

(* A return. The last block of the list leaves the function. Any other     *)
(* disables its lanes, and leaves if those were the last ones. The mask    *)
(* register keeps the lanes that returned.                                 *)
Return ==
  /\ mode = "run"
  /\ ~Done
  /\ prog.out[cur] = {}
  /\ mask' = [mask EXCEPT ![cur] = Waiting(cur)]
  /\ IF prog.next[cur] = Terminator
       THEN cur' = Terminator /\ enabled' = enabled
       ELSE /\ enabled' = enabled \ Waiting(cur)
            /\ cur' = IF enabled' = {} THEN Terminator ELSE prog.next[cur]
  /\ UNCHANGED <<prog, mode>>

Next == Dispatch \/ BranchConditional \/ Branch \/ Return

Spec == Init /\ [][Next]_vars /\ WF_vars(Next)

-----------------------------------------------------------------------------
(* Properties.                                                             *)

(***************************************************************************)
(* Until the function returns, each lane that has not returned waits for   *)
(* exactly one block: no jump drops a lane, and none makes it run twice.   *)
(***************************************************************************)
OneHome ==
  \A b, c \in prog.blocks : b # c => Waiting(b) \cap Waiting(c) = {}

NoLaneLost ==
  ~Done => \A l \in enabled : \E b \in prog.blocks : l \in mask[b]

(***************************************************************************)
(* No lane waits for a block the list has already passed: the dispatch     *)
(* chain only looks forward, so such a lane would never run again.         *)
(***************************************************************************)
NothingBehind ==
  ~Done => \A b \in prog.blocks : prog.id[b] < prog.id[cur] => Waiting(b) = {}

(***************************************************************************)
(* The function returns to its caller only when every lane has executed a  *)
(* return: the only lanes still enabled are at a block that returns.       *)
(***************************************************************************)
ReturnsWithAllLanes ==
  Done => \A l \in enabled : \E b \in prog.blocks : l \in mask[b] /\ prog.out[b] = {}

(***************************************************************************)
(* Lanes reconverge: when a block runs, no lane waits for a block from     *)
(* which it could still come to this one along forward edges, so that a    *)
(* group operation in the merge block of a selection sees them all.        *)
(***************************************************************************)
ForwardOf(b) ==
  LET forward == [blocks |-> prog.blocks,
                  out |-> [a \in prog.blocks |-> {d \in prog.out[a] : <<a, d>> \notin prog.back}]]
  IN  Visited(forward, b, Terminator)

Reconvergence ==
  (mode = "run" /\ ~Done /\ Waiting(cur) # {}) =>
    \A b \in prog.blocks \ {cur} : cur \in ForwardOf(b) => Waiting(b) = {}

(***************************************************************************)
(* Each lane runs the control-flow graph as a scalar program would: the    *)
(* machine implements LaneSemantics. A lane is at the block it waits for;  *)
(* it is off when it has returned, or the function has.                    *)
(***************************************************************************)
LaneAt(l) ==
  IF Done \/ l \notin enabled THEN "off"
  ELSE IF \E b \in prog.blocks : l \in mask[b]
         THEN CHOOSE b \in prog.blocks : l \in mask[b]
         ELSE "lost"

Scalar == INSTANCE LaneSemantics
            WITH Off <- "off", at <- [l \in Lanes |-> LaneAt(l)]

LanesRunAsScalars == Scalar!Spec

(***************************************************************************)
(* The code never spins: again and again it executes a block for a lane,   *)
(* until it is done. Blocks tried without a lane (the fall-through of an   *)
(* unconditional branch, a return whose register is stale) cannot chase    *)
(* each other round a loop for ever.                                       *)
(***************************************************************************)
NeverSpins == []<>(Done \/ (mode = "run" /\ Waiting(cur) # {}))
=============================================================================
