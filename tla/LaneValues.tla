----------------------------- MODULE LaneValues -----------------------------
(***************************************************************************)
(* The data that blocks hand to each other in the vectorized code of       *)
(* spirv_to_llvm.cpp. Each block became a function that computes for every *)
(* lane, waiting or not. Stores to the shader's variables are masked. The  *)
(* values that live from one block to another are not: wrap_bb makes each  *)
(* block store its results, for all lanes, into slots of the whole         *)
(* function, and OpReturnValue stores the result of all lanes likewise.    *)
(*                                                                         *)
(* A program has, besides the list of MaskMachine: def, the block that     *)
(* loads the function variable into an SSA value; use, a block that uses   *)
(* the value; stores, the blocks that store to the variable, after they    *)
(* have loaded from it; returnsVar, the returns that return the variable,  *)
(* as in `return t;`, where every other return has a value of its own. A   *)
(* variable holds the number of stores made to it, modulo Wrap, so that    *)
(* successive values differ.                                               *)
(***************************************************************************)
EXTENDS MaskMachine

CONSTANT Wrap

ASSUME WrapAssumption == Wrap \in Nat \ {0, 1}

VARIABLES
  var,      \* the function variable of each lane
  stash,    \* shared_values_stash: the slot of the SSA value, one per lane
  ret,      \* returned_values: the slot each lane's result is returned in
  ownValue, \* history: the SSA value each lane last computed for itself
  ownRet    \* history: the value each lane itself returned

valueVars == <<prog, mask, enabled, mode, cur, var, stash, ret, ownValue, ownRet>>

(* A slot not yet written. *)
NoValue == Wrap

(* What block b returns when it is not the variable. *)
ReturnOf(b) == Wrap + 1 + prog.id[b]

VInit ==
  /\ Init
  /\ var = [l \in Lanes |-> 0]
  /\ stash = [l \in Lanes |-> NoValue]
  /\ ownValue = [l \in Lanes |-> NoValue]
  /\ ret = [l \in Lanes |-> NoValue]
  /\ ownRet = [l \in Lanes |-> NoValue]

(* Variant: the variable is loaded again when the block ends, after its     *)
(* stores, instead of keeping the value of the load.                        *)
DefineLate ==
  IF cur = prog.def
    THEN /\ stash' = [l \in Lanes |-> IF l \in Waiting(cur) /\ cur \in prog.stores
                                      THEN (var[l] + 1) % Wrap ELSE var[l]]
         /\ ownValue' = [l \in Lanes |-> IF l \in Waiting(cur) THEN var[l] ELSE ownValue[l]]
    ELSE UNCHANGED <<stash, ownValue>>

(* The load of block def, in every lane, and the store to its slot. *)
Define ==
  IF cur = prog.def
    THEN /\ stash' = var
         /\ ownValue' = [l \in Lanes |-> IF l \in Waiting(cur) THEN var[l] ELSE ownValue[l]]
    ELSE UNCHANGED <<stash, ownValue>>

(* masked_store: the lanes that do not execute keep the old value. *)
MaskedStore ==
  var' = [l \in Lanes |->
            IF cur \in prog.stores /\ l \in Waiting(cur) THEN (var[l] + 1) % Wrap ELSE var[l]]

(* Variant: what is returned is loaded before the stores of the block.      *)
ReturnEarlyValue ==
  IF prog.out[cur] = {}
    THEN /\ ret' = [l \in Lanes |-> IF cur \in prog.returnsVar THEN var[l] ELSE ReturnOf(cur)]
         /\ ownRet' = [l \in Lanes |-> IF l \in Waiting(cur)
                                        THEN IF cur \in prog.returnsVar THEN var'[l] ELSE ReturnOf(cur)
                                        ELSE ownRet[l]]
    ELSE UNCHANGED <<ret, ownRet>>

(* OpReturnValue: every lane's result goes to its slot, unmasked; the      *)
(* variable is loaded after the stores of the block.                       *)
StoreReturnValue ==
  IF prog.out[cur] = {}
    THEN /\ ret' = [l \in Lanes |-> IF cur \in prog.returnsVar THEN var'[l] ELSE ReturnOf(cur)]
         /\ ownRet' = [l \in Lanes |-> IF l \in Waiting(cur) THEN ret'[l] ELSE ownRet[l]]
    ELSE UNCHANGED <<ret, ownRet>>

(* A basic block runs, then the branch at its end. *)
RunBlock ==
  /\ mode = "run"
  /\ ~Done
  /\ Define
  /\ MaskedStore
  /\ StoreReturnValue
  /\ BranchConditional \/ Branch \/ Return

DispatchValues == Dispatch /\ UNCHANGED <<var, stash, ret, ownValue, ownRet>>

VNext == RunBlock \/ DispatchValues

VSpec == VInit /\ [][VNext]_valueVars /\ WF_valueVars(VNext)

-----------------------------------------------------------------------------
(* Properties.                                                             *)

(***************************************************************************)
(* A lane that uses the value gets what it computed itself, when it last   *)
(* executed the defining block, and not what that block has computed in    *)
(* its place since, on behalf of other lanes.                              *)
(***************************************************************************)
UsesOwnValue ==
  (mode = "run" /\ ~Done /\ cur = prog.use) =>
    \A l \in Waiting(cur) : stash[l] = ownValue[l]

(* The caller gets from each lane the value that lane returned.            *)
ReturnsOwnValue ==
  Done => \A l \in Lanes : ownRet[l] # NoValue => ret[l] = ownRet[l]

-----------------------------------------------------------------------------
(* The programs that have these properties.                                *)

(* Every OpReturnValue returns what the variable then holds. *)
ReturnsVariable(p) == \A b \in p.blocks : p.out[b] = {} => b \in p.returnsVar

(***************************************************************************)
(* R has the blocks at whose beginning the value is live: they lead back   *)
(* to each other, and otherwise to the block that defines it. A loop       *)
(* around the definition has all of R in it.                               *)
(***************************************************************************)
LiveRange(p, R) ==
  /\ R \subseteq p.blocks
  /\ p.use \in R
  /\ p.def \in p.blocks \ R
  /\ p.entry \notin R
  /\ \A b \in R : \A a \in p.blocks : b \in p.out[a] => a \in R \/ a = p.def
  /\ \A b \in R : p.id[p.def] < p.id[b]
  /\ \A from, header \in p.blocks :
       /\ <<from, header>> \in p.back
       /\ p.id[header] <= p.id[p.def] /\ p.id[p.def] <= p.id[from]
       => \A b \in R : p.id[b] <= p.id[from]

DiesInItsTurn(p) == \E R \in SUBSET p.blocks : LiveRange(p, R)
=============================================================================
