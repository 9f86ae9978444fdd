---------------------------- MODULE MCLinearize ----------------------------
(***************************************************************************)
(* The sort on the graphs of the repository's tests and of common loops,   *)
(* and on every reducible graph of five blocks, one for each class of      *)
(* graphs that only differ in the names of the entry's successors.         *)
(***************************************************************************)
EXTENDS Linearize, ShaderCfgs

FiveBlocks == {"E", "A", "B", "C", "D"}

SmallShaders ==
  {g \in [blocks : {FiveBlocks}, entry : {"E"},
          out : [FiveBlocks -> {S \in SUBSET (FiveBlocks \ {"E"}) : Cardinality(S) <= 2}]] :
     g.out["E"] \in {{"A"}, {"A", "B"}} /\ IsShaderCfg(g)}

MCShaders == SmallShaders \cup TestShaders

DirectShaders == {DirectBreakContinue}
=============================================================================
