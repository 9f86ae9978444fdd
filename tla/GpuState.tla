------------------------------ MODULE GpuState ------------------------------
(***************************************************************************)
(* The commands of vk.cpp and what each does to GPU_State when a command   *)
(* buffer is executed.                                                     *)
(*                                                                         *)
(* A command is what a vkCmd call records: its key, the structure behind   *)
(* the key, and the bytes behind the structure, which only PushConstants   *)
(* and UpdateBuffer have. RenderPassEnd has no structure.                  *)
(***************************************************************************)
EXTENDS Integers, Sequences

CONSTANTS
  Null,         \* the null pointer
  Commands,     \* the commands the application records
  Args,         \* the structures in them
  Bytes,        \* the bytes in them
  NumBindings,  \* the entries of the tables of GPU_State, 0x10
  NumConstants  \* the bytes of push_constants, 0x100

Executed == {"BindIndexBuffer", "BindVertexBuffers", "BindDescriptorSets", "BindPipeline",
             "RenderPassBegin", "RenderPassEnd", "PushConstants", "SetViewport", "CopyBuffer",
             "SetScissor", "DrawIndexed", "CopyBufferToImage"}

(* The keys that are written and that the switch does not know. *)
NotExecuted == {"SetLineWidth", "SetDepthBias", "SetBlendConstants", "SetDepthBounds",
                "SetStencilCompareMask", "SetStencilWriteMask", "SetStencilReference", "Draw",
                "DrawIndirect", "DrawIndexedIndirect", "Dispatch", "DispatchIndirect",
                "CopyImage", "CopyImageToBuffer", "UpdateBuffer", "ClearAttachments"}

Keys == Executed \cup NotExecuted

ASSUME CommandsAssumption ==
  /\ Commands \subseteq [op : Keys, args : Args, bytes : Seq(Bytes)]
  /\ \A c \in Commands : c.op \notin {"PushConstants", "UpdateBuffer"} => c.bytes = << >>
  /\ \A c \in Commands : c.op = "RenderPassEnd" => c.args = Null

(* reset_state. The buffer, offset and type of the indices are one entry.  *)
FreshState ==
  [graphics_pipeline |-> Null, compute_pipeline |-> Null,
   render_pass |-> Null, framebuffer |-> Null, render_area |-> Null,
   descriptor_sets |-> [i \in 0..(NumBindings - 1) |-> Null],
   index_buffer |-> Null,
   vertex_buffers |-> [i \in 0..(NumBindings - 1) |-> Null],
   viewports |-> Null,
   push_constants |-> [i \in 0..(NumConstants - 1) |-> 0]]

(* A table with items written to it from entry first on. *)
Bound(table, first, items) ==
  [i \in DOMAIN table |->
     IF i \in first..(first + Len(items) - 1) THEN items[i - first + 1] ELSE table[i]]

(* Commands that end the program: assertions, what the switch does not     *)
(* know, and draws that follow a null pointer.                             *)
Aborts(s, c) ==
  \/ c.op \in NotExecuted
  \/ /\ c.op = "BindDescriptorSets"
     /\ c.args.pipelineBindPoint # "GRAPHICS" \/ c.args.pDynamicOffsets # << >>
  \/ c.op = "RenderPassBegin" /\ c.args.renderPass = Null
  \/ c.op = "SetViewport" /\ Len(c.args.pViewports) # 1
  \/ c.op = "DrawIndexed" /\ Null \in {s.graphics_pipeline, s.index_buffer, s.render_pass}

(* One turn of the switch in execute_commands. *)
Apply(s, c) ==
  CASE c.op = "BindIndexBuffer" -> [s EXCEPT !.index_buffer = c.args]
    [] c.op = "BindVertexBuffers" ->
         [s EXCEPT !.vertex_buffers = Bound(@, c.args.firstBinding, c.args.pBuffers)]
    [] c.op = "BindDescriptorSets" ->
         [s EXCEPT !.descriptor_sets = Bound(@, c.args.firstSet, c.args.pDescriptorSets)]
    [] c.op = "BindPipeline" /\ c.args.pipelineBindPoint = "GRAPHICS" ->
         [s EXCEPT !.graphics_pipeline = c.args.pipeline]
    [] c.op = "BindPipeline" /\ c.args.pipelineBindPoint # "GRAPHICS" ->
         [s EXCEPT !.compute_pipeline = c.args.pipeline]
    [] c.op = "RenderPassBegin" ->
         [s EXCEPT !.render_pass = c.args.renderPass, !.framebuffer = c.args.framebuffer,
                   !.render_area = c.args.renderArea]
    [] c.op = "RenderPassEnd" ->
         [s EXCEPT !.render_pass = Null, !.framebuffer = Null, !.render_area = Null]
    [] c.op = "PushConstants" ->
         [s EXCEPT !.push_constants = Bound(@, c.args.offset, c.bytes)]
    [] c.op = "SetViewport" -> [s EXCEPT !.viewports = c.args.pViewports[1]]
    [] OTHER -> s

NoEffect == << >>

(* What a command does to memory, which the command and the state decide:  *)
(* clearing attachments, copying and drawing.                              *)
Effect(s, c) ==
  IF c.op \in {"RenderPassBegin", "CopyBuffer", "CopyBufferToImage", "DrawIndexed"}
    THEN <<c, s>> ELSE NoEffect
=============================================================================
