-------------------------- MODULE MCCommandBuffer ---------------------------
(***************************************************************************)
(* Programs with a command of every kind: a key alone, a structure, bytes  *)
(* behind it, one that is not executed. The first is a cell too long; the  *)
(* last draws without having bound what a draw needs.                      *)
(***************************************************************************)
EXTENDS CommandBuffer

CONSTANTS c1, c2

Command(op, args, bytes) == [op |-> op, args |-> args, bytes |-> bytes]

BindGraphics ==
  Command("BindPipeline", [pipelineBindPoint |-> "GRAPHICS", pipeline |-> "p1"], << >>)
BindCompute ==
  Command("BindPipeline", [pipelineBindPoint |-> "COMPUTE", pipeline |-> "p2"], << >>)
BindIndices ==
  Command("BindIndexBuffer", [buffer |-> "b", offset |-> 0, indexType |-> "UINT16"], << >>)
BindSet ==
  Command("BindDescriptorSets",
          [pipelineBindPoint |-> "GRAPHICS", firstSet |-> 1, pDescriptorSets |-> <<"s">>,
           pDynamicOffsets |-> << >>], << >>)
Begin ==
  Command("RenderPassBegin",
          [renderPass |-> "r", framebuffer |-> "f", renderArea |-> "whole"], << >>)
Viewport == Command("SetViewport", [firstViewport |-> 0, pViewports |-> <<"v">>], << >>)
End == Command("RenderPassEnd", Null, << >>)
Push == Command("PushConstants", [offset |-> 1], <<7, 8>>)
DrawIndices == Command("DrawIndexed", [indexCount |-> 3], << >>)
DrawVertices == Command("Draw", [vertexCount |-> 3], << >>)

MCPrograms ==
  [b \in {c1, c2} |->
     IF b = c1
       THEN {<<BindGraphics, BindIndices, Begin, DrawIndices, End>>, <<BindSet, DrawVertices>>}
       ELSE {<<Push, End, Begin, DrawIndices>>, <<BindCompute, Viewport>>}]

MCCommands == UNION {Range(p) : p \in MCPrograms[c1] \cup MCPrograms[c2]}

MCArgs == {c.args : c \in MCCommands}
=============================================================================
