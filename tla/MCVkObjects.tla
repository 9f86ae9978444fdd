---------------------------- MODULE MCVkObjects ----------------------------
(***************************************************************************)
(* The objects with pools of one slot, two for memory.                     *)
(***************************************************************************)
EXTENDS VkObjects

SmallPools == [k \in Kinds |-> IF k = "memory" THEN 2 ELSE 1]
=============================================================================
