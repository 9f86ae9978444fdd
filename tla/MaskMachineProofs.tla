------------------------- MODULE MaskMachineProofs -------------------------
(***************************************************************************)
(* What holds of the masked code for any number of lanes and any list of   *)
(* blocks that is linear: no lane is dropped, doubled or passed over, and  *)
(* each lane runs the control-flow graph as a scalar program would.        *)
(***************************************************************************)
EXTENDS MaskMachine, ControlFlowProofs, TLAPS

(***************************************************************************)
(* The inductive invariant. The properties need one another: that no lane  *)
(* waits behind the current block is what makes the last block's lanes the *)
(* last ones, and that each lane waits for one block is what makes a lane  *)
(* that returns leave nothing of itself elsewhere.                         *)
(***************************************************************************)
IndInv ==
  /\ TypeOK
  /\ OneHome
  /\ NoLaneLost
  /\ NothingBehind
  /\ ReturnsWithAllLanes

-----------------------------------------------------------------------------
(* Facts about the list.                                                   *)

(* A block that makes a forward branch is not the last of its list.        *)
LEMMA ForwardBranchHasNext ==
  ASSUME NEW p, IsLinear(p), NEW b \in p.blocks, NEW d \in p.out[b],
         <<b, d>> \notin p.back
  PROVE  p.next[b] \in p.blocks /\ p.id[p.next[b]] = p.id[b] + 1
<1>1. d \in p.blocks /\ p.id[b] \in Nat /\ p.id[d] \in Nat
  BY DEF IsLinear
<1>2. p.id[b] < p.id[d]
  BY DEF IsLinear
<1>3. p.next[b] # Terminator
  BY <1>1, <1>2 DEF IsLinear
<1>4. QED
  BY <1>3 DEF IsLinear

(* What comes before the next block is the block itself or before it.      *)
LEMMA BeforeNext ==
  ASSUME NEW p, IsLinear(p), NEW b \in p.blocks, p.next[b] \in p.blocks,
         NEW c \in p.blocks, p.id[c] < p.id[p.next[b]]
  PROVE  c = b \/ p.id[c] < p.id[b]
<1>1. p.next[b] # Terminator
  BY DEF IsLinear
<1>2. p.id[p.next[b]] = p.id[b] + 1 /\ p.id[b] \in Nat /\ p.id[c] \in Nat
  BY <1>1 DEF IsLinear
<1>3. p.id[c] = p.id[b] \/ p.id[c] < p.id[b]
  BY <1>2
<1>4. QED
  BY <1>3 DEF IsLinear

(* Every block is the last one or before it. *)
LEMMA BeforeEnd ==
  ASSUME NEW p, IsLinear(p), NEW b \in p.blocks, p.next[b] \notin p.blocks,
         NEW c \in p.blocks
  PROVE  c = b \/ p.id[c] < p.id[b]
<1>1. p.next[b] = Terminator
  BY DEF IsLinear
<1>2. p.id[c] <= p.id[b] /\ p.id[b] \in Nat /\ p.id[c] \in Nat
  BY <1>1 DEF IsLinear
<1>3. p.id[c] = p.id[b] \/ p.id[c] < p.id[b]
  BY <1>2
<1>4. QED
  BY <1>3 DEF IsLinear

-----------------------------------------------------------------------------
(* Types.                                                                  *)

(* The machine before its first step, whatever linear list it runs.        *)
Started ==
  /\ IsLinear(prog)
  /\ enabled \in SUBSET Lanes
  /\ mask = EntryMasks(prog, enabled)
  /\ mode = "run" /\ cur = prog.entry

(* At first some function was just called. *)
LEMMA InitStarted == Init => Started
BY ProgramsAssumption DEF Init, Started

(* The entry block's register gets the caller's mask, the others none.     *)
LEMMA StartedTypeOK == Started => TypeOK
<1> SUFFICES ASSUME Started PROVE TypeOK
  OBVIOUS
<1>1. IsLinear(prog) /\ prog.entry \in prog.blocks
  BY DEF Started, IsLinear
<1>2. mask \in [prog.blocks -> SUBSET Lanes]
  BY DEF Started, EntryMasks
<1>3. QED
  BY <1>1, <1>2 DEF Started, TypeOK

(* Registers hold lanes and control is in the list, after each step. *)
LEMMA NextTypeOK == TypeOK /\ [Next]_vars => TypeOK'
<1> SUFFICES ASSUME TypeOK, [Next]_vars PROVE TypeOK'
  OBVIOUS
<1>1. prog' = prog
  BY DEF Next, Dispatch, BranchConditional, Branch, Return, vars
<1>2. IsLinear(prog)'
  BY <1>1 DEF TypeOK, IsLinear
<1>3. CASE Dispatch
  <2>1. cur \in prog.blocks /\ prog.next[cur] \in prog.blocks \cup {Terminator}
    BY <1>3 DEF Dispatch, TypeOK, IsLinear, Done
  <2>2. QED
    BY <1>1, <1>2, <1>3, <2>1 DEF Dispatch, TypeOK
<1>4. CASE BranchConditional
  <2>1. cur \in prog.blocks /\ prog.next[cur] \in prog.blocks \cup {Terminator}
    BY <1>4 DEF BranchConditional, TypeOK, IsLinear, Done
  <2>2. PICK goesTo \in [Waiting(cur) -> prog.out[cur]] : mask' = MovedMasks(goesTo)
    BY <1>4 DEF BranchConditional
  <2>3. MovedMasks(goesTo) \in [prog.blocks -> SUBSET Lanes]
    BY DEF MovedMasks, Waiting, TypeOK
  <2>4. QED
    BY <1>1, <1>2, <1>4, <2>1, <2>2, <2>3 DEF BranchConditional, TypeOK
<1>5. CASE Branch
  <2>1. PICK d \in prog.out[cur] :
          /\ mask' = MovedMasks([l \in Waiting(cur) |-> d])
          /\ cur' = IF <<cur, d>> \in prog.back THEN d ELSE prog.next[cur]
    BY <1>5 DEF Branch
  <2>2. cur \in prog.blocks
    BY <1>5 DEF Branch, TypeOK, Done
  <2>3. d \in prog.blocks /\ prog.next[cur] \in prog.blocks \cup {Terminator}
    BY <2>2 DEF TypeOK, IsLinear
  <2>4. mask' \in [prog.blocks -> SUBSET Lanes]
    BY <2>1 DEF MovedMasks, Waiting, TypeOK
  <2>5. QED
    BY <1>1, <1>2, <1>5, <2>1, <2>3, <2>4 DEF Branch, TypeOK
<1>6. CASE Return
  <2>1. cur \in prog.blocks /\ prog.next[cur] \in prog.blocks \cup {Terminator}
    BY <1>6 DEF Return, TypeOK, IsLinear, Done
  <2>2. mask' \in [prog.blocks -> SUBSET Lanes]
    BY <1>6 DEF Return, Waiting, TypeOK
  <2>3. enabled' \in SUBSET Lanes
    BY <1>6 DEF Return, TypeOK
  <2>4. QED
    BY <1>1, <1>2, <1>6, <2>1, <2>2, <2>3 DEF Return, TypeOK
<1>7. CASE UNCHANGED vars
  BY <1>1, <1>2, <1>7 DEF vars, TypeOK
<1>8. QED
  BY <1>3, <1>4, <1>5, <1>6, <1>7 DEF Next

(***************************************************************************)
(* The registers hold lanes, and the code that comes next is a block of    *)
(* the list or the end of the function.                                    *)
(***************************************************************************)
THEOREM TypeCorrect == Spec => []TypeOK
<1>1. QED
  BY InitStarted, StartedTypeOK, NextTypeOK, PTL DEF Spec

-----------------------------------------------------------------------------
(* Where the lanes are. One lemma for each action; each proves NothingBehind *)
(* and NoLaneLost for the next state, then what rests on them.              *)

(* A function just called has all its lanes at the entry. *)
LEMMA StartedInv == Started => IndInv
<1> SUFFICES ASSUME Started PROVE IndInv
  OBVIOUS
<1>1. TypeOK
  BY StartedTypeOK
<1>2. prog.entry \in prog.blocks /\ ~Done
  BY <1>1 DEF TypeOK, IsLinear, Started, Done
<1>3. \A b \in prog.blocks : mask[b] = IF b = prog.entry THEN enabled ELSE {}
  BY DEF Started, EntryMasks
<1>4. OneHome
  BY <1>3 DEF OneHome, Waiting
<1>5. NoLaneLost
  BY <1>2, <1>3 DEF NoLaneLost
<1>6. NothingBehind
  <2>1. \A b \in prog.blocks : prog.id[b] < prog.id[cur] => b # prog.entry
    BY <1>1, <1>2 DEF Started, TypeOK, IsLinear
  <2>2. QED
    BY <1>3, <2>1 DEF NothingBehind, Waiting
<1>7. ReturnsWithAllLanes
  BY <1>2 DEF ReturnsWithAllLanes
<1>8. QED
  BY <1>1, <1>4, <1>5, <1>6, <1>7 DEF IndInv

(* The chain passes a block over only while no lane waits for it; if it     *)
(* comes to its end, no lane is left.                                       *)
LEMMA DispatchInv == IndInv /\ Dispatch => IndInv' /\ (Done' => enabled = {})
<1> SUFFICES ASSUME IndInv, Dispatch PROVE IndInv' /\ (Done' => enabled = {})
  OBVIOUS
<1>1. TypeOK /\ TypeOK'
  BY NextTypeOK DEF IndInv, Next
<1>2. prog' = prog /\ mask' = mask /\ enabled' = enabled
  BY DEF Dispatch
<1>3. cur \in prog.blocks /\ ~Done /\ IsLinear(prog)
  BY <1>1 DEF Dispatch, TypeOK, Done
<1>4. OneHome'
  BY <1>2 DEF IndInv, OneHome, Waiting
<1>5. NoLaneLost'
  BY <1>2, <1>3 DEF IndInv, NoLaneLost
<1>6. CASE mask[cur] # {}
  <2>1. cur' = cur
    BY <1>6 DEF Dispatch
  <2>2. NothingBehind' /\ ReturnsWithAllLanes'
    BY <1>2, <1>3, <2>1 DEF IndInv, NothingBehind, ReturnsWithAllLanes, Waiting, Done
  <2>3. QED
    BY <1>1, <1>3, <1>4, <1>5, <2>1, <2>2 DEF IndInv, Done
<1>7. CASE mask[cur] = {}
  <2>1. cur' = prog.next[cur]
    BY <1>7 DEF Dispatch
  <2>2. Waiting(cur) = {}
    BY <1>7 DEF Waiting
  <2>3. \A b \in prog.blocks : prog.id[b] < prog.id[cur] => Waiting(b) = {}
    BY <1>3 DEF IndInv, NothingBehind
  <2>4. NothingBehind'
    <3>1. SUFFICES ASSUME ~Done', NEW b \in prog.blocks, prog.id[b] < prog.id[cur']
                   PROVE  Waiting(b) = {}
      BY <1>2 DEF NothingBehind, Waiting
    <3>2. prog.next[cur] \in prog.blocks
      BY <1>1, <2>1, <3>1, <1>2 DEF TypeOK, Done
    <3>3. b = cur \/ prog.id[b] < prog.id[cur]
      BY <1>3, <2>1, <3>1, <3>2, BeforeNext
    <3>4. QED
      BY <2>2, <2>3, <3>3
  <2>5. ASSUME Done' PROVE enabled = {}
    <3>1. prog.next[cur] \notin prog.blocks
      BY <1>3, <2>1, <2>5 DEF Done, IsLinear
    <3>2. \A b \in prog.blocks : Waiting(b) = {}
      BY <1>3, <2>2, <2>3, <3>1, BeforeEnd
    <3>3. QED
      BY <1>3, <3>2 DEF IndInv, NoLaneLost, Waiting
  <2>6. ReturnsWithAllLanes'
    BY <1>2, <2>5 DEF ReturnsWithAllLanes
  <2>7. QED
    BY <1>1, <1>4, <1>5, <2>4, <2>5, <2>6 DEF IndInv
<1>8. QED
  BY <1>6, <1>7

(* How a branch moves the lanes of the current block: each to its target,   *)
(* which is another block, and none of the other lanes.                     *)
LEMMA MovedWaiting ==
  ASSUME IndInv, cur \in prog.blocks,
         NEW goesTo \in [Waiting(cur) -> prog.out[cur]],
         prog' = prog, enabled' = enabled, mask' = MovedMasks(goesTo)
  PROVE  /\ \A b \in prog.blocks :
              mask'[b] \cap enabled' =
                IF b = cur THEN {}
                ELSE Waiting(b) \cup {l \in Waiting(cur) : goesTo[l] = b}
         /\ \A l \in Waiting(cur) : goesTo[l] \in prog.blocks \ {cur}
<1>1. IsLinear(prog) /\ mask \in [prog.blocks -> SUBSET Lanes]
  BY DEF IndInv, TypeOK
<1>2. \A b \in prog.blocks :
        mask'[b] = IF b = cur THEN {} ELSE mask[b] \cup {l \in Waiting(cur) : goesTo[l] = b}
  BY DEF MovedMasks
<1>3. \A b \in prog.blocks :
        mask'[b] \cap enabled' =
          IF b = cur THEN {}
          ELSE Waiting(b) \cup {l \in Waiting(cur) : goesTo[l] = b}
  BY <1>2 DEF Waiting
<1>4. \A l \in Waiting(cur) : goesTo[l] \in prog.out[cur]
  OBVIOUS
<1>5. ASSUME NEW d \in prog.out[cur] PROVE d \in prog.blocks \ {cur}
  <2>1. d \in prog.blocks /\ prog.id[d] \in Nat
    BY <1>1 DEF IsLinear
  <2>2. prog.id[d] < prog.id[cur] \/ prog.id[cur] < prog.id[d]
    BY <1>1 DEF IsLinear
  <2>3. QED
    BY <2>1, <2>2
<1>6. \A l \in Waiting(cur) : goesTo[l] \in prog.blocks \ {cur}
  BY <1>4, <1>5
<1>7. QED
  BY <1>3, <1>6

(* Moving lanes that way doubles none and drops none.                       *)
LEMMA MovedHomes ==
  ASSUME IndInv, cur \in prog.blocks,
         NEW goesTo \in [Waiting(cur) -> prog.out[cur]],
         prog' = prog, enabled' = enabled, mask' = MovedMasks(goesTo)
  PROVE  OneHome' /\ NoLaneLost'
<1> DEFINE Came(b) == {l \in Waiting(cur) : goesTo[l] = b}
<1>1. /\ \A b \in prog.blocks :
           mask'[b] \cap enabled' = IF b = cur THEN {} ELSE Waiting(b) \cup Came(b)
      /\ \A l \in Waiting(cur) : goesTo[l] \in prog.blocks \ {cur}
  BY MovedWaiting
<1>2. OneHome'
  <2>1. SUFFICES ASSUME NEW b \in prog.blocks, NEW c \in prog.blocks, b # c
                 PROVE  (mask'[b] \cap enabled') \cap (mask'[c] \cap enabled') = {}
    BY DEF OneHome, Waiting
  <2>2. CASE b = cur \/ c = cur
    BY <1>1, <2>2
  <2>3. CASE b # cur /\ c # cur
    <3>1. /\ Waiting(b) \cap Waiting(c) = {}
          /\ Waiting(b) \cap Waiting(cur) = {}
          /\ Waiting(c) \cap Waiting(cur) = {}
      BY <2>1, <2>3 DEF IndInv, OneHome
    <3>2. Came(b) \cap Came(c) = {}
      BY <2>1
    <3>3. Came(b) \subseteq Waiting(cur) /\ Came(c) \subseteq Waiting(cur)
      OBVIOUS
    <3>4. /\ mask'[b] \cap enabled' = Waiting(b) \cup Came(b)
          /\ mask'[c] \cap enabled' = Waiting(c) \cup Came(c)
      BY <1>1, <2>3
    <3> HIDE DEF Came
    <3>5. QED
      BY <3>1, <3>2, <3>3, <3>4
  <2>4. QED
    BY <2>2, <2>3
<1>3. NoLaneLost'
  <2>1. SUFFICES ASSUME NEW l \in enabled PROVE \E b \in prog.blocks : l \in mask'[b]
    BY DEF NoLaneLost
  <2>2. cur # Terminator
    BY DEF IndInv, TypeOK, IsLinear
  <2>3. PICK a \in prog.blocks : l \in mask[a]
    BY <2>1, <2>2 DEF IndInv, NoLaneLost, Done
  <2>4. CASE a = cur
    <3>1. l \in Waiting(cur)
      BY <2>1, <2>3, <2>4 DEF Waiting
    <3>2. goesTo[l] \in prog.blocks \ {cur} /\ l \in Came(goesTo[l])
      BY <1>1, <3>1
    <3>3. l \in mask'[goesTo[l]] \cap enabled'
      BY <1>1, <3>2
    <3>4. QED
      BY <3>2, <3>3
  <2>5. CASE a # cur
    BY <1>1, <2>1, <2>3, <2>5 DEF Waiting
  <2>6. QED
    BY <2>4, <2>5
<1>4. QED
  BY <1>2, <1>3

(* The lanes of a forward branch wait further down the list.                *)
LEMMA ForwardInv ==
  ASSUME IndInv, TypeOK', cur \in prog.blocks,
         NEW goesTo \in [Waiting(cur) -> prog.out[cur]],
         prog' = prog, enabled' = enabled, mask' = MovedMasks(goesTo),
         \E d \in prog.out[cur] : TRUE,
         \A d \in prog.out[cur] : <<cur, d>> \notin prog.back,
         cur' = prog.next[cur]
  PROVE  IndInv'
<1>1. OneHome' /\ NoLaneLost'
  BY MovedHomes
<1>2. IsLinear(prog)
  BY DEF IndInv, TypeOK
<1>3. prog.next[cur] \in prog.blocks
  BY <1>2, ForwardBranchHasNext
<1>4. cur # Terminator /\ cur' # Terminator
  BY <1>2, <1>3 DEF IsLinear
<1>5. NothingBehind'
  <2>1. SUFFICES ASSUME NEW b \in prog.blocks, prog.id[b] < prog.id[cur']
                 PROVE  mask'[b] \cap enabled' = {}
    BY DEF NothingBehind, Waiting
  <2>2. b = cur \/ prog.id[b] < prog.id[cur]
    BY <1>2, <1>3, <2>1, BeforeNext
  <2>3. CASE b = cur
    BY <2>3, MovedWaiting
  <2>4. CASE prog.id[b] < prog.id[cur]
    <3>1. Waiting(b) = {}
      BY <1>4, <2>4 DEF IndInv, NothingBehind, Done
    <3>2. ASSUME NEW l \in Waiting(cur) PROVE goesTo[l] # b
      <4>1. goesTo[l] \in prog.out[cur]
        OBVIOUS
      <4>2. prog.id[cur] < prog.id[goesTo[l]]
        BY <1>2, <4>1 DEF IsLinear
      <4>3. prog.id[b] \in Nat /\ prog.id[cur] \in Nat
        BY <1>2 DEF IsLinear
      <4>4. QED
        BY <2>4, <4>2, <4>3
    <3>3. QED
      BY <3>1, <3>2, MovedWaiting
  <2>5. QED
    BY <2>2, <2>3, <2>4
<1>6. ReturnsWithAllLanes'
  BY <1>4 DEF ReturnsWithAllLanes, Done
<1>7. QED
  BY <1>1, <1>5, <1>6 DEF IndInv

(* A conditional branch sends each lane to one of the two blocks. *)
LEMMA BranchConditionalInv == IndInv /\ BranchConditional => IndInv'
<1> SUFFICES ASSUME IndInv, BranchConditional PROVE IndInv'
  OBVIOUS
<1>1. TypeOK /\ TypeOK'
  BY NextTypeOK DEF IndInv, Next
<1>2. cur \in prog.blocks
  BY <1>1 DEF BranchConditional, TypeOK, Done
<1>3. PICK goesTo \in [Waiting(cur) -> prog.out[cur]] : mask' = MovedMasks(goesTo)
  BY DEF BranchConditional
<1>4. prog' = prog /\ enabled' = enabled /\ cur' = prog.next[cur]
  BY DEF BranchConditional
<1>5. PICK t \in prog.out[cur], f \in prog.out[cur] : t # f
  BY DEF BranchConditional
<1>6. \A d \in prog.out[cur] : <<cur, d>> \notin prog.back
  <2>1. \A d \in prog.out[cur] : prog.out[cur] # {d}
    BY <1>5
  <2>2. QED
    BY <1>1, <1>2, <2>1 DEF TypeOK, IsLinear
<1>7. QED
  BY <1>1, <1>2, <1>3, <1>4, <1>5, <1>6, ForwardInv

(* A branch sends all lanes on, and takes a back edge while any lane waits *)
(* for the header.                                                         *)
LEMMA BranchInv == IndInv /\ Branch => IndInv'
<1> SUFFICES ASSUME IndInv, Branch PROVE IndInv'
  OBVIOUS
<1>1. TypeOK /\ TypeOK' /\ IsLinear(prog)
  BY NextTypeOK DEF IndInv, Next, TypeOK
<1>2. cur \in prog.blocks /\ ~Done
  BY <1>1 DEF Branch, TypeOK, Done
<1>3. PICK d \in prog.out[cur] :
        /\ prog.out[cur] = {d}
        /\ mask' = MovedMasks([l \in Waiting(cur) |-> d])
        /\ cur' = IF <<cur, d>> \in prog.back THEN d ELSE prog.next[cur]
  BY DEF Branch
<1> DEFINE goesTo == [l \in Waiting(cur) |-> d]
<1>4. goesTo \in [Waiting(cur) -> prog.out[cur]] /\ mask' = MovedMasks(goesTo)
  BY <1>3
<1>5. prog' = prog /\ enabled' = enabled
  BY DEF Branch
<1>6. CASE <<cur, d>> \notin prog.back
  <2> HIDE DEF goesTo
  <2>1. QED
    BY <1>1, <1>2, <1>3, <1>4, <1>5, <1>6, ForwardInv
<1>7. CASE <<cur, d>> \in prog.back
  <2>1. cur' = d /\ d \in prog.blocks
    BY <1>1, <1>2, <1>3, <1>7 DEF IsLinear
  <2>2. prog.id[d] < prog.id[cur] /\ prog.id[d] \in Nat /\ prog.id[cur] \in Nat
    BY <1>1, <1>2, <1>7, <2>1 DEF IsLinear
  <2>3. OneHome' /\ NoLaneLost'
    <3> HIDE DEF goesTo
    <3>1. QED
      BY <1>2, <1>4, <1>5, MovedHomes
  <2>4. NothingBehind'
    <3>1. SUFFICES ASSUME NEW b \in prog.blocks, prog.id[b] < prog.id[d]
                   PROVE  mask'[b] \cap enabled' = {}
      BY <1>5, <2>1 DEF NothingBehind, Waiting
    <3>2. prog.id[b] \in Nat
      BY <1>1 DEF IsLinear
    <3>3. b # d /\ prog.id[b] < prog.id[cur]
      BY <2>2, <3>1, <3>2
    <3>4. Waiting(b) = {} /\ {l \in Waiting(cur) : goesTo[l] = b} = {}
      BY <1>2, <3>3 DEF IndInv, NothingBehind
    <3> HIDE DEF goesTo
    <3>5. QED
      BY <1>2, <1>4, <1>5, <3>4, MovedWaiting
  <2>5. ReturnsWithAllLanes'
    BY <1>1, <2>1 DEF ReturnsWithAllLanes, Done, IsLinear
  <2>6. QED
    BY <1>1, <2>3, <2>4, <2>5 DEF IndInv
<1>8. QED
  BY <1>6, <1>7

(* The lanes of the last block are the last lanes; any other return takes   *)
(* its lanes out of every register.                                         *)
LEMMA ReturnInv == IndInv /\ Return => IndInv'
<1> SUFFICES ASSUME IndInv, Return PROVE IndInv'
  OBVIOUS
<1>1. TypeOK /\ TypeOK' /\ IsLinear(prog)
  BY NextTypeOK DEF IndInv, Next, TypeOK
<1>2. cur \in prog.blocks /\ ~Done /\ prog' = prog /\ prog.out[cur] = {}
  BY <1>1 DEF Return, TypeOK, Done
<1>3. \A b \in prog.blocks : mask'[b] = IF b = cur THEN Waiting(cur) ELSE mask[b]
  BY <1>1 DEF Return, TypeOK
<1>4. \A b \in prog.blocks : prog.id[b] < prog.id[cur] => Waiting(b) = {}
  BY <1>2 DEF IndInv, NothingBehind
<1>5. \A b \in prog.blocks : b # cur => Waiting(b) \cap Waiting(cur) = {}
  BY <1>2 DEF IndInv, OneHome
<1>6. CASE prog.next[cur] = Terminator
  <2>1. cur' = Terminator /\ enabled' = enabled
    BY <1>6 DEF Return
  <2>2. OneHome'
    <3>1. \A b \in prog.blocks : mask'[b] \cap enabled' = Waiting(b)
      BY <1>3, <2>1 DEF Waiting
    <3>2. QED
      BY <1>2, <3>1 DEF IndInv, OneHome, Waiting
  <2>3. NoLaneLost' /\ NothingBehind'
    BY <2>1 DEF NoLaneLost, NothingBehind, Done
  <2>4. ReturnsWithAllLanes'
    <3>1. SUFFICES ASSUME NEW l \in enabled PROVE l \in mask'[cur]
      BY <1>2, <2>1 DEF ReturnsWithAllLanes
    <3>2. PICK b \in prog.blocks : l \in mask[b]
      BY <1>2, <3>1 DEF IndInv, NoLaneLost
    <3>3. l \in Waiting(b)
      BY <3>1, <3>2 DEF Waiting
    <3>4. prog.next[cur] \notin prog.blocks
      BY <1>1, <1>6 DEF IsLinear
    <3>5. b = cur
      BY <1>1, <1>2, <1>4, <3>3, <3>4, BeforeEnd
    <3>6. QED
      BY <1>2, <1>3, <3>3, <3>5
  <2>5. QED
    BY <1>1, <2>2, <2>3, <2>4 DEF IndInv
<1>7. CASE prog.next[cur] # Terminator
  <2>1. /\ enabled' = enabled \ Waiting(cur)
        /\ cur' = IF enabled' = {} THEN Terminator ELSE prog.next[cur]
    BY <1>7 DEF Return
  <2>2. prog.next[cur] \in prog.blocks
    BY <1>1, <1>2, <1>7 DEF IsLinear
  <2>3. \A b \in prog.blocks :
          mask'[b] \cap enabled' = IF b = cur THEN {} ELSE Waiting(b)
    <3>1. ASSUME NEW b \in prog.blocks, b # cur
          PROVE  mask[b] \cap (enabled \ Waiting(cur)) = mask[b] \cap enabled
      BY <1>5, <3>1 DEF Waiting
    <3>2. QED
      BY <1>3, <2>1, <3>1 DEF Waiting
  <2>4. OneHome'
    BY <1>2, <2>3 DEF IndInv, OneHome, Waiting
  <2>5. NoLaneLost'
    <3>1. SUFFICES ASSUME NEW l \in enabled' PROVE \E b \in prog.blocks : l \in mask'[b]
      BY <1>2 DEF NoLaneLost
    <3>2. l \in enabled /\ l \notin Waiting(cur)
      BY <2>1, <3>1
    <3>3. PICK b \in prog.blocks : l \in mask[b]
      BY <1>2, <3>2 DEF IndInv, NoLaneLost
    <3>4. b # cur
      BY <3>2, <3>3 DEF Waiting
    <3>5. QED
      BY <1>3, <3>3, <3>4
  <2>6. NothingBehind'
    <3>1. SUFFICES ASSUME ~Done', NEW b \in prog.blocks, prog.id[b] < prog.id[cur']
                   PROVE  mask'[b] \cap enabled' = {}
      BY <1>2 DEF NothingBehind, Waiting
    <3>2. cur' = prog.next[cur]
      BY <2>1, <3>1 DEF Done
    <3>3. b = cur \/ prog.id[b] < prog.id[cur]
      BY <1>1, <1>2, <2>2, <3>1, <3>2, BeforeNext
    <3>4. QED
      BY <1>4, <2>3, <3>3
  <2>7. ReturnsWithAllLanes'
    <3>1. Done' => enabled' = {}
      BY <1>1, <2>1, <2>2 DEF Done, IsLinear
    <3>2. QED
      BY <3>1 DEF ReturnsWithAllLanes
  <2>8. QED
    BY <1>1, <2>4, <2>5, <2>6, <2>7 DEF IndInv
<1>8. QED
  BY <1>6, <1>7

(* No step breaks the invariant. *)
LEMMA NextInv == IndInv /\ [Next]_vars => IndInv'
<1> SUFFICES ASSUME IndInv, [Next]_vars PROVE IndInv'
  OBVIOUS
<1>1. CASE UNCHANGED vars
  <2>1. TypeOK'
    BY NextTypeOK DEF IndInv
  <2>2. QED
    BY <1>1, <2>1 DEF IndInv, OneHome, NoLaneLost, NothingBehind, ReturnsWithAllLanes,
                      Waiting, Done, vars
<1>2. QED
  BY <1>1, DispatchInv, BranchConditionalInv, BranchInv, ReturnInv DEF Next

(* So it holds throughout. *)
LEMMA Invariance == Spec => []IndInv
<1>1. QED
  BY InitStarted, StartedInv, NextInv, PTL DEF Spec

(***************************************************************************)
(* No branch makes a lane run two blocks at once: the registers, as far as *)
(* the enabled lanes go, are disjoint.                                     *)
(***************************************************************************)
THEOREM LanesHaveOneHome == Spec => []OneHome
<1>1. IndInv => OneHome
  BY DEF IndInv
<1>2. QED
  BY <1>1, Invariance, PTL

(***************************************************************************)
(* No branch drops a lane: until the function returns, each enabled lane   *)
(* is in some register.                                                    *)
(***************************************************************************)
THEOREM LanesAreKept == Spec => []NoLaneLost
<1>1. IndInv => NoLaneLost
  BY DEF IndInv
<1>2. QED
  BY <1>1, Invariance, PTL

(***************************************************************************)
(* The list passes no waiting lane: chain, fall-through and back edge      *)
(* alike leave no lane at a block before the one that comes next.          *)
(***************************************************************************)
THEOREM NoLaneIsPassed == Spec => []NothingBehind
<1>1. IndInv => NothingBehind
  BY DEF IndInv
<1>2. QED
  BY <1>1, Invariance, PTL

(***************************************************************************)
(* The function returns to its caller only with every launched lane at, or *)
(* beyond, a return of its own.                                            *)
(***************************************************************************)
THEOREM ReturnIsComplete == Spec => []ReturnsWithAllLanes
<1>1. IndInv => ReturnsWithAllLanes
  BY DEF IndInv
<1>2. QED
  BY <1>1, Invariance, PTL

(* Forward edges lead down the list, and so does what they lead to. *)
LEMMA ForwardIsLater ==
  ASSUME IsLinear(prog), NEW b \in prog.blocks
  PROVE  ForwardOf(b) \subseteq {c \in prog.blocks : prog.id[b] <= prog.id[c]}
<1> DEFINE forward == [blocks |-> prog.blocks,
                       out |-> [a \in prog.blocks |-> {d \in prog.out[a] : <<a, d>> \notin prog.back}]]
           later == {c \in prog.blocks : prog.id[b] <= prog.id[c]}
<1>1. \A a \in prog.blocks : forward.out[a] = {d \in prog.out[a] : <<a, d>> \notin prog.back}
  OBVIOUS
<1>2. forward.blocks = prog.blocks
  OBVIOUS
<1>3. ForwardOf(b) = Visited(forward, b, Terminator)
  BY DEF ForwardOf
<1> HIDE DEF forward
<1>4. IsGraph(forward)
  <2>1. IsFiniteSet(prog.blocks) /\ \A a \in prog.blocks : prog.out[a] \subseteq prog.blocks
    BY DEF IsLinear
  <2>2. \A a \in prog.blocks : forward.out[a] \subseteq prog.blocks
    BY <1>1, <2>1
  <2>3. QED
    BY <1>2, <2>1, <2>2 DEF IsGraph
<1>5. Closed(forward, Terminator, later)
  <2>1. SUFFICES ASSUME NEW a \in later, NEW d \in forward.out[a] PROVE d \in later
    BY DEF Closed
  <2>2. d \in prog.out[a] /\ <<a, d>> \notin prog.back /\ d \in prog.blocks
    BY <1>1 DEF IsLinear
  <2>3. prog.id[a] < prog.id[d] /\ prog.id[a] \in Nat /\ prog.id[d] \in Nat /\ prog.id[b] \in Nat
    BY <2>2 DEF IsLinear
  <2>4. QED
    BY <2>2, <2>3
<1>6. b \in later
  BY DEF IsLinear
<1>7. QED
  BY <1>3, <1>4, <1>5, <1>6, VisitedLeast

(***************************************************************************)
(* When a block runs for a lane, all lanes that may still come to it along *)
(* forward edges have: those at blocks before it would wait behind it.     *)
(***************************************************************************)
THEOREM LanesReconverge == Spec => []Reconvergence
<1>1. IndInv => Reconvergence
  <2>1. SUFFICES ASSUME IndInv, ~Done, NEW b \in prog.blocks, b # cur, cur \in ForwardOf(b)
                 PROVE  Waiting(b) = {}
    BY DEF Reconvergence
  <2>2. IsLinear(prog) /\ cur \in prog.blocks
    BY <2>1 DEF IndInv, TypeOK, Done
  <2>3. prog.id[b] <= prog.id[cur]
    BY <2>1, <2>2, ForwardIsLater
  <2>4. prog.id[b] \in Nat /\ prog.id[cur] \in Nat /\ prog.id[b] # prog.id[cur]
    BY <2>1, <2>2 DEF IsLinear
  <2>5. prog.id[b] < prog.id[cur]
    BY <2>3, <2>4
  <2>6. QED
    BY <2>1, <2>5 DEF IndInv, NothingBehind
<1>2. QED
  BY <1>1, Invariance, PTL

-----------------------------------------------------------------------------
(* The masked code implements LaneSemantics.                                *)

(* LaneAt finds the one register a lane is in. *)
LEMMA LaneAtHome ==
  IndInv /\ ~Done =>
    \A b \in prog.blocks : \A l \in Waiting(b) : LaneAt(l) = b
<1> SUFFICES ASSUME IndInv, ~Done, NEW b \in prog.blocks, NEW l \in Waiting(b)
             PROVE  LaneAt(l) = b
  OBVIOUS
<1>1. l \in enabled /\ l \in mask[b]
  BY DEF Waiting
<1>2. ASSUME NEW c \in prog.blocks, l \in mask[c] PROVE c = b
  BY <1>1, <1>2 DEF IndInv, OneHome, Waiting
<1>3. (CHOOSE c \in prog.blocks : l \in mask[c]) = b
  BY <1>1, <1>2
<1>4. QED
  BY <1>1, <1>3 DEF LaneAt

(* A lane that was not launched, or whose function is over, is nowhere ... *)
LEMMA LaneOff == \A l : (Done \/ l \notin enabled) => LaneAt(l) = "off"
<1>1. QED
  BY DEF LaneAt

(* The same of the next state. *)
LEMMA LaneAtHomeNext ==
  IndInv' /\ ~Done' =>
    \A b \in prog'.blocks : \A l \in mask'[b] \cap enabled' : LaneAt(l)' = b
<1>1. (IndInv /\ ~Done =>
        \A b \in prog.blocks : \A l \in Waiting(b) : LaneAt(l) = b)'
  BY LaneAtHome, PTL
<1>2. QED
  BY <1>1 DEF Waiting

(* The lanes that were launched are at the entry. *)
LEMMA StartedLanes ==
  ASSUME Started
  PROVE  \A l \in Lanes : LaneAt(l) = IF l \in enabled THEN prog.entry ELSE "off"
<1>1. IndInv /\ ~Done
  BY StartedInv DEF Started, IndInv, TypeOK, IsLinear, Done
<1>2. prog.entry \in prog.blocks
  BY DEF Started, IsLinear
<1>3. Waiting(prog.entry) = enabled
  BY <1>2 DEF Started, EntryMasks, Waiting
<1>4. QED
  BY <1>1, <1>2, <1>3, LaneAtHome, LaneOff

(* Launched lanes start as scalar programs do, at the entry. *)
LEMMA ScalarStarted == Started => Scalar!Init
<1> SUFFICES ASSUME Started PROVE Scalar!Init
  OBVIOUS
<1>1. prog.entry \in prog.blocks /\ prog.out \in [prog.blocks -> SUBSET prog.blocks]
  BY DEF Started, IsLinear
<1>2. \A l \in Lanes : LaneAt(l) = IF l \in enabled THEN prog.entry ELSE "off"
  BY StartedLanes
<1>3. enabled \in SUBSET Lanes
  BY DEF Started
<1>4. QED
  BY <1>1, <1>2, <1>3 DEF Scalar!Init

(* The lanes of the current block move, if what they move to is right.      *)
LEMMA ScalarMove ==
  ASSUME prog' = prog, IndInv, ~Done, cur \in prog.blocks,
         \A l \in Waiting(cur) : LaneAt(l)' \in Scalar!After(cur),
         \A l \in Lanes \ Waiting(cur) : LaneAt(l)' = LaneAt(l)
  PROVE  Scalar!Next
<1>1. Waiting(cur) \in SUBSET Lanes
  BY DEF IndInv, TypeOK, Waiting
<1>2. \A l \in Waiting(cur) : LaneAt(l) = cur
  BY LaneAtHome
<1>3. Scalar!Move(Waiting(cur))
  BY <1>1, <1>2 DEF Scalar!Move
<1>4. QED
  BY <1>1, <1>3 DEF Scalar!Next

(* Lanes that stay enabled and do not wait for the current block stay.      *)
LEMMA OthersStay ==
  ASSUME IndInv, IndInv', ~Done, prog' = prog,
         NEW l \in enabled, l \in enabled', ~Done', l \notin Waiting(cur),
         \A b \in prog.blocks \ {cur} : mask[b] \subseteq mask'[b]
  PROVE  LaneAt(l)' = LaneAt(l)
<1>1. PICK b \in prog.blocks : l \in mask[b]
  BY DEF IndInv, NoLaneLost
<1>2. b # cur /\ l \in mask'[b]
  BY <1>1 DEF Waiting
<1>3. l \in Waiting(b)
  BY <1>1 DEF Waiting
<1>4. LaneAt(l) = b
  BY <1>3, LaneAtHome
<1>5. LaneAt(l)' = b
  BY <1>1, <1>2, LaneAtHomeNext
<1>6. QED
  BY <1>4, <1>5

(* ... and so it is in the next state. *)
LEMMA LaneOffNext == \A l : (Done' \/ l \notin enabled') => LaneAt(l)' = "off"
<1>1. (\A l : (Done \/ l \notin enabled) => LaneAt(l) = "off")'
  BY LaneOff, PTL
<1>2. QED
  BY <1>1

(* Trying the next block moves no lane. *)
LEMMA DispatchStutters ==
  IndInv /\ IndInv' /\ Dispatch => UNCHANGED Scalar!laneVars
<1> SUFFICES ASSUME IndInv, IndInv', Dispatch PROVE UNCHANGED Scalar!laneVars
  OBVIOUS
<1>1. prog' = prog /\ mask' = mask /\ enabled' = enabled /\ ~Done
  BY DEF Dispatch
<1>2. CASE Done'
  <2>1. enabled = {}
    BY <1>2, DispatchInv
  <2>2. \A l \in Lanes : LaneAt(l)' = LaneAt(l)
    BY <1>1, <2>1, LaneOff, LaneOffNext
  <2>3. QED
    BY <1>1, <2>2 DEF Scalar!laneVars
<1>3. CASE ~Done'
  <2>1. \A l \in Lanes : LaneAt(l)' = LaneAt(l)
    BY <1>1, <1>3 DEF LaneAt
  <2>2. QED
    BY <1>1, <2>1 DEF Scalar!laneVars
<1>4. QED
  BY <1>2, <1>3

(* A branch takes each lane of the block along one of its edges.            *)
LEMMA BranchMoves ==
  ASSUME IndInv, IndInv', ~Done, cur \in prog.blocks, cur' # Terminator,
         NEW goesTo \in [Waiting(cur) -> prog.out[cur]],
         prog' = prog, enabled' = enabled, mask' = MovedMasks(goesTo),
         prog.out[cur] # {}
  PROVE  Scalar!Next
<1>1. ~Done'
  BY DEF Done
<1>2. ASSUME NEW l \in Waiting(cur) PROVE LaneAt(l)' \in Scalar!After(cur)
  <2>1. goesTo[l] \in prog.blocks \ {cur} /\ goesTo[l] \in prog.out[cur]
    BY MovedWaiting
  <2>2. l \in mask'[goesTo[l]] \cap enabled'
    BY <2>1, MovedWaiting
  <2>3. LaneAt(l)' = goesTo[l]
    BY <1>1, <2>1, <2>2, LaneAtHomeNext
  <2>4. QED
    BY <2>1, <2>3 DEF Scalar!After
<1>3. ASSUME NEW l \in Lanes \ Waiting(cur) PROVE LaneAt(l)' = LaneAt(l)
  <2>1. CASE l \notin enabled
    BY <2>1, LaneOff, LaneOffNext
  <2>2. CASE l \in enabled
    <3>1. \A b \in prog.blocks \ {cur} : mask[b] \subseteq mask'[b]
      BY DEF MovedMasks
    <3>2. QED
      BY <1>1, <1>3, <2>2, <3>1, OthersStay
  <2>3. QED
    BY <2>1, <2>2
<1>4. QED
  BY <1>2, <1>3, ScalarMove

(* A return switches the lanes of the block off. *)
LEMMA ReturnMoves == IndInv /\ IndInv' /\ Return => Scalar!Next
<1> SUFFICES ASSUME IndInv, IndInv', Return PROVE Scalar!Next
  OBVIOUS
<1>1. IsLinear(prog) /\ mask \in [prog.blocks -> SUBSET Lanes]
  BY DEF IndInv, TypeOK
<1>2. cur \in prog.blocks /\ ~Done /\ prog' = prog /\ prog.out[cur] = {}
  BY DEF Return, IndInv, TypeOK, Done
<1>3. Scalar!After(cur) = {"off"}
  BY <1>2 DEF Scalar!After
<1>4. CASE prog.next[cur] = Terminator
  <2>1. Done' /\ enabled' = enabled
    BY <1>4 DEF Return, Done
  <2>2. \A l \in Waiting(cur) : LaneAt(l)' \in Scalar!After(cur)
    BY <1>3, <2>1, LaneOffNext
  <2>3. ASSUME NEW l \in Lanes \ Waiting(cur) PROVE LaneAt(l)' = LaneAt(l)
    <3>1. l \notin enabled
      <4>1. SUFFICES ASSUME l \in enabled PROVE FALSE
        OBVIOUS
      <4>2. PICK b \in prog.blocks : l \in Waiting(b)
        BY <1>2, <4>1 DEF IndInv, NoLaneLost, Waiting
      <4>3. prog.next[cur] \notin prog.blocks
        BY <1>1, <1>4 DEF IsLinear
      <4>4. b = cur
        BY <1>1, <1>2, <4>2, <4>3, BeforeEnd DEF IndInv, NothingBehind
      <4>5. QED
        BY <2>3, <4>2, <4>4
    <3>2. QED
      BY <2>1, <3>1, LaneOff, LaneOffNext
  <2>4. QED
    BY <1>2, <2>2, <2>3, ScalarMove
<1>5. CASE prog.next[cur] # Terminator
  <2>1. /\ enabled' = enabled \ Waiting(cur)
        /\ cur' = IF enabled' = {} THEN Terminator ELSE prog.next[cur]
    BY <1>5 DEF Return
  <2>2. \A l \in Waiting(cur) : LaneAt(l)' \in Scalar!After(cur)
    BY <1>3, <2>1, LaneOffNext
  <2>3. ASSUME NEW l \in Lanes \ Waiting(cur) PROVE LaneAt(l)' = LaneAt(l)
    <3>1. CASE l \notin enabled
      BY <2>1, <3>1, LaneOff, LaneOffNext
    <3>2. CASE l \in enabled
      <4>1. l \in enabled' /\ ~Done'
        BY <1>1, <1>2, <1>5, <2>1, <2>3, <3>2 DEF Done, IsLinear
      <4>2. \A b \in prog.blocks \ {cur} : mask[b] \subseteq mask'[b]
        BY <1>1 DEF Return
      <4>3. QED
        BY <1>2, <2>3, <3>2, <4>1, <4>2, OthersStay
    <3>3. QED
      BY <3>1, <3>2
  <2>4. QED
    BY <1>2, <2>2, <2>3, ScalarMove
<1>6. QED
  BY <1>4, <1>5

(* Each step moves lanes as their scalar programs would, or none. *)
LEMMA ScalarStep ==
  IndInv /\ IndInv' /\ [Next]_vars => [Scalar!Next]_(Scalar!laneVars)
<1> SUFFICES ASSUME IndInv, IndInv', [Next]_vars
             PROVE  Scalar!Next \/ UNCHANGED Scalar!laneVars
  OBVIOUS
<1>1. CASE Dispatch
  BY <1>1, DispatchStutters
<1>2. CASE BranchConditional
  <2>1. PICK goesTo \in [Waiting(cur) -> prog.out[cur]] : mask' = MovedMasks(goesTo)
    BY <1>2 DEF BranchConditional
  <2>2. cur \in prog.blocks /\ ~Done /\ prog' = prog /\ enabled' = enabled
    BY <1>2 DEF BranchConditional, IndInv, TypeOK, Done
  <2>3. cur' # Terminator
    <3>1. PICK d \in prog.out[cur] : <<cur, d>> \notin prog.back
      BY <1>2, <2>2 DEF BranchConditional, IndInv, TypeOK, IsLinear
    <3>2. IsLinear(prog) /\ cur' = prog.next[cur]
      BY <1>2 DEF BranchConditional, IndInv, TypeOK
    <3>3. QED
      BY <2>2, <3>1, <3>2, ForwardBranchHasNext DEF IsLinear
  <2>4. prog.out[cur] # {}
    BY <1>2 DEF BranchConditional
  <2>5. QED
    BY <2>1, <2>2, <2>3, <2>4, BranchMoves
<1>3. CASE Branch
  <2>1. PICK d \in prog.out[cur] :
          /\ prog.out[cur] = {d}
          /\ mask' = MovedMasks([l \in Waiting(cur) |-> d])
          /\ cur' = IF <<cur, d>> \in prog.back THEN d ELSE prog.next[cur]
    BY <1>3 DEF Branch
  <2> DEFINE goesTo == [l \in Waiting(cur) |-> d]
  <2>2. goesTo \in [Waiting(cur) -> prog.out[cur]] /\ mask' = MovedMasks(goesTo)
    BY <2>1
  <2>3. /\ IsLinear(prog) /\ cur \in prog.blocks /\ ~Done
        /\ prog' = prog /\ enabled' = enabled
    BY <1>3 DEF Branch, IndInv, TypeOK, Done
  <2>4. cur' # Terminator
    BY <2>1, <2>3, ForwardBranchHasNext DEF IsLinear
  <2> HIDE DEF goesTo
  <2>5. QED
    BY <2>1, <2>2, <2>3, <2>4, BranchMoves
<1>4. CASE Return
  BY <1>4, ReturnMoves
<1>5. CASE UNCHANGED vars
  BY <1>5 DEF vars, Scalar!laneVars, LaneAt, Done
<1>6. QED
  BY <1>1, <1>2, <1>3, <1>4, <1>5 DEF Next

(* Each step moves some lanes of the block that runs, each along an edge,  *)
(* or off if the block returns; the other lanes stay.                      *)
LEMMA LanesMove ==
  ASSUME IndInv, IndInv', [Next]_vars
  PROVE  /\ prog' = prog
         /\ \E S \in SUBSET Lanes :
              /\ \A l \in S : /\ LaneAt(l) \in prog.blocks
                              /\ LaneAt(l)' \in IF prog.out[LaneAt(l)] = {} THEN {"off"}
                                                ELSE prog.out[LaneAt(l)]
              /\ \A l \in Lanes \ S : LaneAt(l)' = LaneAt(l)
<1>1. CASE Scalar!Next
  <2>1. PICK S \in SUBSET Lanes : Scalar!Move(S)
    BY <1>1 DEF Scalar!Next
  <2>2. \A l \in S : /\ LaneAt(l) \in prog.blocks
                     /\ LaneAt(l)' \in Scalar!After(LaneAt(l))
    BY <2>1 DEF Scalar!Move
  <2>3. (\A l \in Lanes \ S : LaneAt(l)' = LaneAt(l)) /\ prog' = prog
    BY <2>1 DEF Scalar!Move
  <2>4. QED
    BY <2>2, <2>3 DEF Scalar!After
<1>2. CASE UNCHANGED Scalar!laneVars
  <2>1. prog' = prog /\ [l \in Lanes |-> LaneAt(l)]' = [l \in Lanes |-> LaneAt(l)]
    BY <1>2 DEF Scalar!laneVars
  <2>2. ASSUME NEW l \in Lanes PROVE LaneAt(l)' = LaneAt(l)
    <3>1. [k \in Lanes |-> LaneAt(k)]'[l] = [k \in Lanes |-> LaneAt(k)][l]
      BY <2>1
    <3>2. QED
      BY <3>1
  <2>3. /\ {} \in SUBSET Lanes
        /\ \A l \in {} : /\ LaneAt(l) \in prog.blocks
                         /\ LaneAt(l)' \in IF prog.out[LaneAt(l)] = {} THEN {"off"}
                                           ELSE prog.out[LaneAt(l)]
        /\ \A l \in Lanes \ {} : LaneAt(l)' = LaneAt(l)
    BY <2>2
  <2>4. QED
    BY <2>1, <2>3, Zenon
<1>3. QED
  BY <1>1, <1>2, ScalarStep

(***************************************************************************)
(* Each lane of the masked code runs the control-flow graph on its own:    *)
(* the machine of pseudo blocks, registers and dispatch chain implements   *)
(* the scalar program, one block of the list after the other.              *)
(***************************************************************************)
THEOREM ImplementsScalars == Spec => LanesRunAsScalars
<1>1. Init => Scalar!Init
  BY InitStarted, ScalarStarted
<1>2. IndInv /\ IndInv' /\ [Next]_vars => [Scalar!Next]_(Scalar!laneVars)
  BY ScalarStep
<1>3. QED
  BY <1>1, <1>2, Invariance, PTL DEF Spec, LanesRunAsScalars, Scalar!Spec
=============================================================================
