---------------------------- MODULE MCVectorizer ----------------------------
(***************************************************************************)
(* The vectorizer on the repository's test shaders, on common loops and on *)
(* every reducible graph of five blocks in which each block can come to a  *)
(* return: a shader that cannot return is not worth compiling, and the     *)
(* masked code tries blocks that no lane waits for, an endless loop among  *)
(* them.                                                                   *)
(***************************************************************************)
EXTENDS Vectorizer, ShaderCfgs

FiveBlocks == {"E", "A", "B", "C", "D"}

SmallShaders ==
  {g \in [blocks : {FiveBlocks}, entry : {"E"},
          out : [FiveBlocks -> {S \in SUBSET (FiveBlocks \ {"E"}) : Cardinality(S) <= 2}]] :
     /\ g.out["E"] \in {{}, {"A"}, {"A", "B"}}
     /\ IsShaderCfg(g)
     /\ \A b \in Live(g) : \E r \in Live(g) : g.out[r] = {} /\ Reachable(g, b, r)}

MCShaders == SmallShaders \cup TestShaders

(***************************************************************************)
(* No assertion of the lowering fails on what shader compilers emit: every *)
(* selection has a merge block of its own, every loop a header of its own, *)
(* and break and continue are unconditional.                               *)
(***************************************************************************)
TestShadersCompile == cfg \in TestShaders => phase # "aborted"
=============================================================================
