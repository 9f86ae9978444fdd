-------------------------- MODULE LaneValuesProofs --------------------------
(***************************************************************************)
(* Which programs the data of LaneValues is right for. The slots of the    *)
(* compiled function are written for all lanes at once, so that a lane may *)
(* find there what was computed in another one's place. It does not, for   *)
(* any number of lanes, when a value dies on the turn of the loop that     *)
(* computes it, and when all returns of a function return one variable.    *)
(***************************************************************************)
EXTENDS LaneValues, MaskMachineProofs

-----------------------------------------------------------------------------
(* The control flow is MaskMachine's.                                      *)

(* A block's data leaves its control flow as it is. *)
LEMMA StepIsMachines == [VNext]_valueVars => [Next]_vars
BY DEF VNext, RunBlock, DispatchValues, Next, valueVars, vars

(* So the lanes are where MaskMachineProofs has them. *)
LEMMA MachineInvariance == VSpec => []IndInv
<1>1. VInit => IndInv
  BY InitStarted, StartedInv DEF VInit
<1>2. IndInv /\ [VNext]_valueVars => IndInv'
  BY StepIsMachines, NextInv
<1>3. QED
  BY <1>1, <1>2, PTL DEF VSpec

(* A lane that waits after a block has run waited there before, or comes   *)
(* from the block along an edge; the block has no lane of its own left.    *)
LEMMA WaitersMove ==
  ASSUME IndInv, IndInv', ~Done, ~Done', BranchConditional \/ Branch \/ Return,
         NEW b \in prog.blocks, NEW l \in mask'[b] \cap enabled'
  PROVE  \/ b # cur /\ l \in Waiting(b)
         \/ b \in prog.out[cur] /\ l \in Waiting(cur)
<1>1. cur \in prog.blocks /\ IsLinear(prog)
  BY DEF IndInv, TypeOK, Done
<1>2. ASSUME NEW goesTo \in [Waiting(cur) -> prog.out[cur]], prog' = prog, enabled' = enabled,
             mask' = MovedMasks(goesTo)
      PROVE  \/ b # cur /\ l \in Waiting(b)
             \/ b \in prog.out[cur] /\ l \in Waiting(cur)
  <2>1. l \in IF b = cur THEN {} ELSE Waiting(b) \cup {k \in Waiting(cur) : goesTo[k] = b}
    BY <1>1, <1>2, MovedWaiting
  <2>2. QED
    BY <2>1
<1>3. CASE BranchConditional
  BY <1>2, <1>3 DEF BranchConditional
<1>4. CASE Branch
  <2>1. PICK d \in prog.out[cur] :
          /\ prog.out[cur] = {d}
          /\ mask' = MovedMasks([k \in Waiting(cur) |-> d])
    BY <1>4 DEF Branch
  <2>2. [k \in Waiting(cur) |-> d] \in [Waiting(cur) -> prog.out[cur]]
    OBVIOUS
  <2>3. QED
    BY <1>2, <1>4, <2>1, <2>2 DEF Branch
<1>5. CASE Return
  <2>1. prog.next[cur] # Terminator /\ enabled' = enabled \ Waiting(cur)
    BY <1>5 DEF Return, Done
  <2>2. mask' = [mask EXCEPT ![cur] = Waiting(cur)] /\ mask \in [prog.blocks -> SUBSET Lanes]
    BY <1>5 DEF Return, IndInv, TypeOK
  <2>3. b # cur /\ mask'[b] = mask[b]
    BY <2>1, <2>2
  <2>4. QED
    BY <2>1, <2>3 DEF Waiting
<1>6. QED
  BY <1>3, <1>4, <1>5

-----------------------------------------------------------------------------
(* What is returned.                                                       *)

(***************************************************************************)
(* A lane that has returned stores nothing any more: its variable keeps    *)
(* the value it returned, and any return that runs later stores that value *)
(* in the lane's slot once more.                                           *)
(***************************************************************************)
RetInv ==
  \A l \in Lanes : ownRet[l] # NoValue =>
    /\ Done \/ l \notin enabled
    /\ ret[l] = var[l] /\ ownRet[l] = var[l]

(* A return keeps the value of each lane that returns. *)
LEMMA RunRetInv ==
  ASSUME IndInv, RetInv, RunBlock, ReturnsVariable(prog)
  PROVE  RetInv'
<1>1. cur \in prog.blocks /\ ~Done
  BY DEF RunBlock, IndInv, TypeOK, Done
<1>2. SUFFICES ASSUME NEW l \in Lanes, ownRet'[l] # NoValue
               PROVE  /\ Done' \/ l \notin enabled'
                      /\ ret'[l] = var'[l] /\ ownRet'[l] = var'[l]
  BY DEF RetInv, NoValue
<1>3. enabled' \subseteq enabled
  BY DEF RunBlock, BranchConditional, Branch, Return
<1>4. l \notin Waiting(cur) => var'[l] = var[l]
  BY DEF RunBlock, MaskedStore
<1>5. CASE prog.out[cur] = {}
  <2>1. cur \in prog.returnsVar
    BY <1>1, <1>5 DEF ReturnsVariable
  <2>2. ret'[l] = var'[l]
    BY <1>5, <2>1 DEF RunBlock, StoreReturnValue
  <2>3. ownRet'[l] = IF l \in Waiting(cur) THEN ret'[l] ELSE ownRet[l]
    BY <1>5 DEF RunBlock, StoreReturnValue
  <2>4. CASE l \in Waiting(cur)
    <3>1. Return
      BY <1>5 DEF RunBlock, BranchConditional, Branch
    <3>2. Done' \/ enabled' = enabled \ Waiting(cur)
      BY <3>1 DEF Return, Done
    <3>3. QED
      BY <2>2, <2>3, <2>4, <3>2
  <2>5. CASE l \notin Waiting(cur)
    BY <1>1, <1>2, <1>3, <1>4, <2>2, <2>3, <2>5 DEF RetInv
  <2>6. QED
    BY <2>4, <2>5
<1>6. CASE prog.out[cur] # {}
  <2>1. ret' = ret /\ ownRet' = ownRet
    BY <1>6 DEF RunBlock, StoreReturnValue
  <2>2. l \notin enabled
    BY <1>1, <1>2, <2>1 DEF RetInv
  <2>3. QED
    BY <1>2, <1>3, <1>4, <2>1, <2>2 DEF RetInv, Waiting
<1>7. QED
  BY <1>5, <1>6

(***************************************************************************)
(* The caller gets from each lane what that lane returned, whatever order  *)
(* the lanes return in and wherever, if all returns return the variable.   *)
(***************************************************************************)
THEOREM ReturnsAreOwn ==
  ASSUME \A p \in Programs : ReturnsVariable(p)
  PROVE  VSpec => []ReturnsOwnValue
<1> DEFINE Inv == prog \in Programs /\ RetInv
<1>1. VInit => Inv
  BY DEF VInit, Init, RetInv
<1>2. IndInv /\ Inv /\ [VNext]_valueVars => Inv'
  <2>1. SUFFICES ASSUME IndInv, Inv, [VNext]_valueVars PROVE Inv'
    OBVIOUS
  <2>2. prog' = prog
    BY <2>1 DEF VNext, RunBlock, DispatchValues, Dispatch, BranchConditional, Branch, Return, valueVars
  <2>3. CASE RunBlock
    BY <2>1, <2>2, <2>3, RunRetInv
  <2>4. CASE DispatchValues
    BY <2>1, <2>2, <2>4 DEF DispatchValues, Dispatch, RetInv, Done, NoValue
  <2>5. CASE UNCHANGED valueVars
    BY <2>1, <2>2, <2>5 DEF valueVars, RetInv, Done, NoValue
  <2>6. QED
    BY <2>1, <2>3, <2>4, <2>5 DEF VNext
<1>3. Inv => ReturnsOwnValue
  BY DEF RetInv, ReturnsOwnValue
<1>4. QED
  BY <1>1, <1>2, <1>3, MachineInvariance, PTL DEF VSpec


-----------------------------------------------------------------------------
(* What lives from block to block.                                         *)

(***************************************************************************)
(* A lane at a block of the live range finds its own value in the slot.    *)
(* That the defining block does not run while there is such a lane is      *)
(* because every block of the range is after it, and a loop that leads     *)
(* back to it has first to have all its lanes out of the range.            *)
(***************************************************************************)
LiveInv(R) ==
  ~Done =>
    /\ prog.id[cur] <= prog.id[prog.def] => \A b \in R : Waiting(b) = {}
    /\ \A b \in R : \A l \in Waiting(b) : stash[l] = ownValue[l]

(* Of two blocks of the list one is before the other. *)
LEMMA IdsAreOrdered ==
  ASSUME NEW p, IsLinear(p), NEW b \in p.blocks, NEW c \in p.blocks
  PROVE  p.id[b] \in Nat /\ p.id[c] \in Nat /\ (p.id[b] = p.id[c] => b = c)
BY DEF IsLinear

(* How a step that does not return goes on: with the next block of the     *)
(* list, with the header of a loop, or where it is.                        *)
LEMMA WhereItGoesOn ==
  ASSUME IndInv, IndInv', Next, ~Done'
  PROVE  /\ cur \in prog.blocks /\ cur' \in prog.blocks
         /\ \/ prog.id[cur'] = prog.id[cur] + 1
            \/ Dispatch /\ cur' = cur
            \/ Branch /\ <<cur, cur'>> \in prog.back /\ prog.out[cur] = {cur'}
<1>1. /\ ~Done /\ prog' = prog /\ cur \in prog.blocks /\ cur' # Terminator /\ IsLinear(prog)
      /\ cur' \in prog.blocks
  BY DEF Next, Dispatch, BranchConditional, Branch, Return, Done, IndInv, TypeOK
<1>2. cur' = prog.next[cur] => prog.id[cur'] = prog.id[cur] + 1
  BY <1>1 DEF IsLinear
<1>3. CASE Dispatch
  BY <1>1, <1>2, <1>3 DEF Dispatch
<1>4. CASE Branch
  <2>1. PICK d \in prog.out[cur] :
          /\ prog.out[cur] = {d}
          /\ cur' = IF <<cur, d>> \in prog.back THEN d ELSE prog.next[cur]
    BY <1>4 DEF Branch
  <2>2. QED
    BY <1>1, <1>2, <1>4, <2>1
<1>5. CASE BranchConditional
  BY <1>1, <1>2, <1>5 DEF BranchConditional
<1>6. CASE Return
  BY <1>1, <1>2, <1>6 DEF Return, Done
<1>7. QED
  BY <1>3, <1>4, <1>5, <1>6 DEF Next

(* No lane is in the range when the list is tried from the definition or   *)
(* from before it.                                                         *)
LEMMA RangeIsLeft ==
  ASSUME IndInv, IndInv', ~Done', RunBlock, NEW R, LiveRange(prog, R), LiveInv(R),
         prog.id[cur'] <= prog.id[prog.def], NEW b \in R, NEW l \in mask'[b] \cap enabled'
  PROVE  FALSE
<1>1. /\ ~Done /\ IsLinear(prog) /\ cur \in prog.blocks /\ cur' \in prog.blocks
      /\ prog.def \in prog.blocks /\ b \in prog.blocks
  BY WhereItGoesOn DEF RunBlock, Next, IndInv, TypeOK, LiveRange
<1>2. \/ b # cur /\ l \in Waiting(b)
      \/ b \in prog.out[cur] /\ l \in Waiting(cur)
  BY <1>1, WaitersMove DEF RunBlock
<1>3. /\ prog.id[cur] \in Nat /\ prog.id[prog.def] \in Nat /\ prog.id[cur'] \in Nat
      /\ prog.id[b] \in Nat /\ prog.id[prog.def] < prog.id[b]
      /\ prog.id[cur] = prog.id[prog.def] => cur = prog.def
      /\ prog.id[b] = prog.id[cur] => b = cur
  BY <1>1, IdsAreOrdered DEF LiveRange
<1>4. CASE prog.id[cur] < prog.id[prog.def]
  <2>1. l \notin Waiting(b) /\ cur \notin R /\ cur # prog.def
    BY <1>1, <1>3, <1>4 DEF LiveInv, LiveRange
  <2>2. QED
    BY <1>1, <1>2, <2>1 DEF LiveRange
<1>5. CASE ~(prog.id[cur] < prog.id[prog.def])
  <2>1. <<cur, cur'>> \in prog.back /\ prog.out[cur] = {cur'}
    <3>1. prog.id[cur'] # prog.id[cur] + 1
      BY <1>3, <1>5
    <3>2. QED
      BY <1>1, <3>1, WhereItGoesOn DEF RunBlock, Next, Dispatch
  <2>2. b # cur'
    BY <1>3
  <2>3. b # cur /\ l \in Waiting(b)
    BY <1>2, <2>1, <2>2
  <2>4. prog.id[b] <= prog.id[cur]
    <3>1. prog.id[prog.def] <= prog.id[cur]
      BY <1>3, <1>5
    <3>2. QED
      BY <1>1, <2>1, <3>1 DEF LiveRange
  <2>5. prog.id[b] < prog.id[cur]
    BY <1>3, <2>3, <2>4
  <2>6. Waiting(b) = {}
    BY <1>1, <2>5 DEF IndInv, NothingBehind
  <2>7. QED
    BY <2>3, <2>6
<1>6. QED
  BY <1>4, <1>5

(* The slots of the lanes in the range are theirs after a block has run.   *)
LEMMA RangeKeepsValues ==
  ASSUME IndInv, IndInv', ~Done', RunBlock, NEW R, LiveRange(prog, R), LiveInv(R),
         NEW b \in R, NEW l \in mask'[b] \cap enabled'
  PROVE  stash'[l] = ownValue'[l]
<1>1. ~Done /\ IsLinear(prog) /\ cur \in prog.blocks /\ b \in prog.blocks /\ R \subseteq prog.blocks
  BY DEF RunBlock, IndInv, TypeOK, Done, LiveRange
<1>2. \/ b # cur /\ l \in Waiting(b)
      \/ b \in prog.out[cur] /\ l \in Waiting(cur)
  BY <1>1, WaitersMove DEF RunBlock
<1>3. l \in Lanes
  <2>1. mask \in [prog.blocks -> SUBSET Lanes] /\ enabled \in SUBSET Lanes
    BY DEF IndInv, TypeOK
  <2>2. QED
    BY <1>1, <1>2, <2>1 DEF Waiting
<1>4. CASE cur = prog.def
  <2>1. prog.id[cur] \in Nat /\ prog.id[cur] <= prog.id[prog.def]
    BY <1>1, <1>4, IdsAreOrdered
  <2>2. l \in Waiting(cur)
    BY <1>1, <1>2, <2>1 DEF LiveInv
  <2>3. QED
    BY <1>3, <1>4, <2>2 DEF RunBlock, Define
<1>5. CASE cur # prog.def
  <2>1. stash' = stash /\ ownValue' = ownValue
    BY <1>5 DEF RunBlock, Define
  <2>2. cur \in R \/ l \in Waiting(b)
    BY <1>1, <1>2, <1>5 DEF LiveRange
  <2>3. \E c \in R : l \in Waiting(c)
    BY <1>2, <2>2
  <2>4. QED
    BY <1>1, <2>1, <2>3 DEF LiveInv
<1>6. QED
  BY <1>4, <1>5

(* No step loses a value that is still to be used. *)
LEMMA NextLiveInv ==
  ASSUME IndInv, IndInv', [VNext]_valueVars, NEW R, LiveRange(prog, R), LiveInv(R)
  PROVE  LiveRange(prog, R)' /\ LiveInv(R)'
<1>1. prog' = prog
  BY DEF VNext, RunBlock, DispatchValues, Dispatch, BranchConditional, Branch, Return, valueVars
<1>2. LiveRange(prog, R)'
  BY <1>1 DEF LiveRange
<1>3. CASE RunBlock
  <2>1. SUFFICES ASSUME ~Done'
                 PROVE  /\ prog.id[cur'] <= prog.id[prog.def] =>
                             \A b \in R : mask'[b] \cap enabled' = {}
                        /\ \A b \in R : \A l \in mask'[b] \cap enabled' : stash'[l] = ownValue'[l]
    BY <1>1, <1>2 DEF LiveInv, Waiting
  <2>2. ASSUME prog.id[cur'] <= prog.id[prog.def], NEW b \in R PROVE mask'[b] \cap enabled' = {}
    BY <1>3, <2>1, <2>2, RangeIsLeft
  <2>3. \A b \in R : \A l \in mask'[b] \cap enabled' : stash'[l] = ownValue'[l]
    BY <1>3, <2>1, RangeKeepsValues
  <2>4. QED
    BY <2>2, <2>3
<1>4. CASE DispatchValues
  <2>1. ~Done /\ mask' = mask /\ enabled' = enabled /\ stash' = stash /\ ownValue' = ownValue /\ Dispatch
    BY <1>4 DEF DispatchValues, Dispatch
  <2>2. ASSUME ~Done', prog.id[cur'] <= prog.id[prog.def] PROVE prog.id[cur] <= prog.id[prog.def]
    <3>1. prog.id[cur'] = prog.id[cur] + 1 \/ cur' = cur
      BY <2>1, <2>2, WhereItGoesOn DEF Next, Dispatch, Branch
    <3>2. prog.id[cur] \in Nat /\ prog.id[cur'] \in Nat /\ prog.id[prog.def] \in Nat
      BY <2>1, <2>2, WhereItGoesOn, IdsAreOrdered DEF Next, LiveRange, IndInv, TypeOK
    <3>3. QED
      BY <2>2, <3>1, <3>2
  <2>3. QED
    BY <1>1, <1>2, <2>1, <2>2 DEF LiveInv, Waiting
<1>5. CASE UNCHANGED valueVars
  BY <1>2, <1>5 DEF valueVars, LiveInv, Waiting, Done
<1>6. QED
  BY <1>2, <1>3, <1>4, <1>5 DEF VNext

(***************************************************************************)
(* A lane that uses a value of another block gets what it computed itself, *)
(* though the block that computes it writes every lane's slot, if the      *)
(* value dies on the turn of the loop it is computed on.                   *)
(***************************************************************************)
THEOREM ValuesAreOwn ==
  ASSUME \A p \in Programs : DiesInItsTurn(p)
  PROVE  VSpec => []UsesOwnValue
<1> DEFINE Inv == \E R \in SUBSET prog.blocks : LiveRange(prog, R) /\ LiveInv(R)
<1>1. VInit => Inv
  <2>1. SUFFICES ASSUME VInit PROVE Inv
    OBVIOUS
  <2>2. IndInv /\ prog \in Programs /\ cur = prog.entry /\ mask = EntryMasks(prog, enabled)
    BY <2>1, InitStarted, StartedInv DEF VInit, Init
  <2>3. PICK R \in SUBSET prog.blocks : LiveRange(prog, R)
    BY <2>2 DEF DiesInItsTurn
  <2>4. \A b \in R : Waiting(b) = {}
    BY <2>2, <2>3 DEF LiveRange, EntryMasks, Waiting
  <2>5. LiveInv(R)
    BY <2>4 DEF LiveInv
  <2>6. QED
    BY <2>3, <2>5
<1>2. IndInv /\ IndInv' /\ Inv /\ [VNext]_valueVars => Inv'
  <2>1. SUFFICES ASSUME IndInv, IndInv', Inv, [VNext]_valueVars PROVE Inv'
    OBVIOUS
  <2>2. prog' = prog
    BY <2>1 DEF VNext, RunBlock, DispatchValues, Dispatch, BranchConditional, Branch, Return, valueVars
  <2>3. PICK R \in SUBSET prog.blocks : LiveRange(prog, R) /\ LiveInv(R)
    BY <2>1
  <2>4. LiveRange(prog, R)' /\ LiveInv(R)'
    BY <2>1, <2>3, NextLiveInv
  <2>5. QED
    BY <2>2, <2>4
<1>3. Inv => UsesOwnValue
  BY DEF LiveInv, LiveRange, UsesOwnValue
<1>4. QED
  BY <1>1, <1>2, <1>3, MachineInvariance, PTL DEF VSpec
=============================================================================
