--------------------------- MODULE CommandBuffer ----------------------------
(***************************************************************************)
(* Command buffers as vk.hpp and vk.cpp have them: memory that commands    *)
(* are copied to, one cursor to write and one to read at. vkQueueSubmit    *)
(* executes buffers before it returns.                                     *)
(*                                                                         *)
(* A cell of memory holds a key, a command structure, or a byte that       *)
(* follows a structure; sizes count cells.                                 *)
(***************************************************************************)
EXTENDS GpuState, FiniteSets, SequencesExt

CONSTANTS
  CommandBuffers,
  DataSize,   \* the cells of a command buffer, 16 MB
  Programs,   \* bound: what the application records in each buffer
  MaxSubmit   \* bound: the buffers in one submission

ASSUME BoundsAssumption ==
  /\ DataSize \in Nat \ {0} /\ MaxSubmit \in Nat
  /\ \A b \in CommandBuffers : Programs[b] \subseteq Seq(Commands)

VARIABLES
  data,         \* the memory of each buffer
  data_cursor,  \* where the next command is written
  read_cursor,  \* where the next command is read
  log,          \* history: the commands recorded, and where each starts
  submitted,    \* the buffers vkQueueSubmit has still to execute
  executing,    \* whether execute_commands has the first of them
  gpu,          \* g_gpu_state
  effect,       \* what the last step did to memory
  dead          \* whether an assertion has ended the program

bufferVars == <<data, data_cursor, read_cursor, log>>
vars == <<data, data_cursor, read_cursor, log, submitted, executing, gpu, effect, dead>>

Key(op) == [kind |-> "key", op |-> op]
Struct(c) == [kind |-> "struct", op |-> c.op, args |-> c.args, size |-> Len(c.bytes)]
Byte(value) == [kind |-> "byte", value |-> value]
Unwritten == [kind |-> "unwritten"]

Cells == {Key(op) : op \in Keys} \cup {Struct(c) : c \in Commands}
           \cup {Byte(v) : v \in Bytes} \cup {Unwritten}

NoData == << >>

Live == {b \in CommandBuffers : data[b] # NoData}

Idle == ~dead /\ submitted = << >>

Recorded(b) == [k \in 1..Len(log[b]) |-> log[b][k].cmd]

TypeOK ==
  /\ data \in [CommandBuffers -> [0..(DataSize - 1) -> Cells] \cup {NoData}]
  /\ data_cursor \in [CommandBuffers -> 0..(DataSize - 1)]
  /\ read_cursor \in [CommandBuffers -> Nat]
  /\ \A b \in CommandBuffers : read_cursor[b] \in 0..data_cursor[b]
  /\ log \in [CommandBuffers -> Seq([at : Nat, cmd : Commands])]
  /\ submitted \in Seq(CommandBuffers)
  /\ executing \in BOOLEAN
  /\ DOMAIN gpu = DOMAIN FreshState
  /\ dead \in BOOLEAN

Init ==
  /\ data = [b \in CommandBuffers |-> NoData]
  /\ data_cursor = [b \in CommandBuffers |-> 0]
  /\ read_cursor = [b \in CommandBuffers |-> 0]
  /\ log = [b \in CommandBuffers |-> << >>]
  /\ submitted = << >>
  /\ executing = FALSE
  /\ gpu = FreshState
  /\ effect = NoEffect
  /\ dead = FALSE

-----------------------------------------------------------------------------
(* Recording.                                                              *)

(* Variant: the bytes behind a structure are not written. *)
EncodingCut(c) ==
  <<Key(c.op)>> \o (IF c.op = "RenderPassEnd" THEN << >> ELSE <<Struct(c)>>)

(* WRITE_CMD, and write for the bytes that follow some structures.         *)
Encoding(c) ==
  <<Key(c.op)>>
    \o (IF c.op = "RenderPassEnd" THEN << >> ELSE <<Struct(c)>>)
    \o [i \in 1..Len(c.bytes) |-> Byte(c.bytes[i])]

(* Variant: the assertion lets the cursor reach the size. *)
FitsExactly(b, c) == data_cursor[b] + Len(Encoding(c)) <= DataSize

(* The assertion behind each write wants the cursor below the size, so     *)
(* that the last cell is never used.                                       *)
Fits(b, c) == data_cursor[b] + Len(Encoding(c)) < DataSize

vkCmd(b, c) ==
  /\ Idle /\ b \in Live
  /\ \E p \in Programs[b] : IsPrefix(Append(Recorded(b), c), p)
  /\ IF Fits(b, c)
       THEN /\ data' = [data EXCEPT ![b] = Bound(@, data_cursor[b], Encoding(c))]
            /\ data_cursor' = [data_cursor EXCEPT ![b] = @ + Len(Encoding(c))]
            /\ log' = [log EXCEPT ![b] = Append(@, [at |-> data_cursor[b], cmd |-> c])]
            /\ UNCHANGED dead
       ELSE dead' = TRUE /\ UNCHANGED <<data, data_cursor, log>>
  /\ effect' = NoEffect
  /\ UNCHANGED <<read_cursor, submitted, executing, gpu>>

(* Variant: only the read cursor goes back to the start. *)
ResetToRewind(b) ==
  /\ read_cursor' = [read_cursor EXCEPT ![b] = 0]
  /\ log' = [log EXCEPT ![b] = << >>]
  /\ UNCHANGED data_cursor

Reset(b) ==
  /\ data_cursor' = [data_cursor EXCEPT ![b] = 0]
  /\ read_cursor' = [read_cursor EXCEPT ![b] = 0]
  /\ log' = [log EXCEPT ![b] = << >>]

(* vkBeginCommandBuffer and vkResetCommandBuffer: what was recorded stays  *)
(* in memory.                                                              *)
vkBeginCommandBuffer(b) ==
  /\ Idle /\ b \in Live
  /\ Reset(b)
  /\ effect' = NoEffect
  /\ UNCHANGED <<data, submitted, executing, gpu, dead>>

(* The memory comes from malloc. *)
vkAllocateCommandBuffers(b) ==
  /\ Idle /\ b \notin Live
  /\ data' = [data EXCEPT ![b] = [i \in 0..(DataSize - 1) |-> Unwritten]]
  /\ Reset(b)
  /\ effect' = NoEffect
  /\ UNCHANGED <<submitted, executing, gpu, dead>>

vkFreeCommandBuffers(b) ==
  /\ Idle /\ b \in Live
  /\ data' = [data EXCEPT ![b] = NoData]
  /\ Reset(b)
  /\ effect' = NoEffect
  /\ UNCHANGED <<submitted, executing, gpu, dead>>

-----------------------------------------------------------------------------
(* Submitting.                                                             *)

vkQueueSubmit ==
  /\ Idle
  /\ \E n \in 1..MaxSubmit : submitted' \in [1..n -> Live]
  /\ effect' = NoEffect
  /\ UNCHANGED <<data, data_cursor, read_cursor, log, executing, gpu, dead>>

Current == Head(submitted)

has_items == read_cursor[Current] < data_cursor[Current]

(* Variant: the state is that of the buffer before. *)
StartInherited ==
  /\ ~dead /\ submitted # << >> /\ ~executing
  /\ executing' = TRUE
  /\ effect' = NoEffect
  /\ UNCHANGED <<data, data_cursor, read_cursor, log, submitted, gpu, dead>>

(* execute_commands begins. *)
Start ==
  /\ ~dead /\ submitted # << >> /\ ~executing
  /\ executing' = TRUE
  /\ gpu' = FreshState
  /\ effect' = NoEffect
  /\ UNCHANGED <<data, data_cursor, read_cursor, log, submitted, dead>>

(* The cell i cells on from the read cursor. *)
Ahead(i) == data[Current][read_cursor[Current] + i]

(* What consume and read find at the read cursor is a command. *)
IsCommand ==
  /\ Ahead(0).kind = "key"
  /\ Ahead(0).op # "RenderPassEnd" =>
       /\ Ahead(1).kind = "struct" /\ Ahead(1).op = Ahead(0).op
       /\ Ahead(0).op = "PushConstants" =>
            \A i \in 1..Ahead(1).size : Ahead(1 + i).kind = "byte"

(* The structure to a key, and with PushConstants the bytes behind it. *)
CommandRead ==
  [op    |-> Ahead(0).op,
   args  |-> IF Ahead(0).op = "RenderPassEnd" THEN Null ELSE Ahead(1).args,
   bytes |-> IF Ahead(0).op = "PushConstants"
               THEN [i \in 1..Ahead(1).size |-> Ahead(1 + i).value] ELSE << >>]

(* Variant: the key of a command without a structure is not passed. *)
SizeReadShort == IF Ahead(0).op = "RenderPassEnd" THEN 0 ELSE 2 + Len(CommandRead.bytes)

SizeRead == IF Ahead(0).op = "RenderPassEnd" THEN 1 ELSE 2 + Len(CommandRead.bytes)

(* One turn of the loop in execute_commands. Reading asserts that the read *)
(* cursor does not pass the other.                                         *)
Execute ==
  /\ ~dead /\ executing /\ has_items
  /\ IF /\ IsCommand
        /\ read_cursor[Current] + SizeRead <= data_cursor[Current]
        /\ ~Aborts(gpu, CommandRead)
       THEN /\ gpu' = Apply(gpu, CommandRead)
            /\ effect' = Effect(gpu', CommandRead)
            /\ read_cursor' = [read_cursor EXCEPT ![Current] = @ + SizeRead]
            /\ UNCHANGED dead
       ELSE dead' = TRUE /\ UNCHANGED <<gpu, effect, read_cursor>>
  /\ UNCHANGED <<data, data_cursor, log, submitted, executing>>

(* Variant: the buffer is not rewound. *)
FinishInPlace ==
  /\ ~dead /\ executing /\ ~has_items
  /\ submitted' = Tail(submitted)
  /\ executing' = FALSE
  /\ effect' = NoEffect
  /\ UNCHANGED <<data, data_cursor, read_cursor, log, gpu, dead>>

(* execute_commands returns, and vkQueueSubmit rewinds the buffer. *)
Finish ==
  /\ ~dead /\ executing /\ ~has_items
  /\ read_cursor' = [read_cursor EXCEPT ![Current] = 0]
  /\ submitted' = Tail(submitted)
  /\ executing' = FALSE
  /\ effect' = NoEffect
  /\ UNCHANGED <<data, data_cursor, log, gpu, dead>>

-----------------------------------------------------------------------------

Next ==
  \/ \E b \in CommandBuffers :
       \/ \E c \in Commands : vkCmd(b, c)
       \/ vkBeginCommandBuffer(b)
       \/ vkAllocateCommandBuffers(b)
       \/ vkFreeCommandBuffers(b)
  \/ vkQueueSubmit
  \/ Start \/ Execute \/ Finish

Spec == Init /\ [][Next]_vars

(* The thread in vkQueueSubmit runs on; nothing makes it wait.             *)
FairSpec == Spec /\ WF_vars(Start \/ Execute \/ Finish)

-----------------------------------------------------------------------------
(* Properties.                                                             *)

(***************************************************************************)
(* Up to its cursor a buffer holds the commands recorded since it was      *)
(* begun, back to back, whatever was in the memory before.                 *)
(***************************************************************************)
EndOf(b, k) == IF k = Len(log[b]) THEN data_cursor[b] ELSE log[b][k + 1].at

DataIsLog ==
  \A b \in Live :
    /\ EndOf(b, 0) = 0
    /\ \A k \in 1..Len(log[b]) :
         LET code == Encoding(log[b][k].cmd)
         IN  /\ EndOf(b, k) = log[b][k].at + Len(code)
             /\ \A i \in 1..Len(code) : data[b][log[b][k].at + i - 1] = code[i]

(***************************************************************************)
(* Between two calls every buffer can be submitted, for the first time or  *)
(* again: the next reader starts at the first command.                     *)
(***************************************************************************)
RewoundWhenIdle == Idle => \A b \in CommandBuffers : read_cursor[b] = 0

(***************************************************************************)
(* A draw only uses what was bound before it in its own command buffer:    *)
(* nothing is left from another buffer or an earlier submission.           *)
(***************************************************************************)
ExecutedBefore(op) ==
  {log[Current][k].cmd.args :
     k \in {j \in 1..Len(log[Current]) :
              log[Current][j].at < read_cursor[Current] /\ log[Current][j].cmd.op = op}}

DrawsUseOwnBindings ==
  effect # NoEffect /\ effect[1].op = "DrawIndexed" =>
    /\ effect[2].graphics_pipeline \in {a.pipeline : a \in ExecutedBefore("BindPipeline")}
    /\ effect[2].index_buffer \in ExecutedBefore("BindIndexBuffer")
    /\ effect[2].framebuffer \in {a.framebuffer : a \in ExecutedBefore("RenderPassBegin")}
    /\ \A i \in DOMAIN effect[2].descriptor_sets :
         \/ effect[2].descriptor_sets[i] = Null
         \/ \E a \in ExecutedBefore("BindDescriptorSets") :
              effect[2].descriptor_sets[i] = a.pDescriptorSets[i - a.firstSet + 1]

(***************************************************************************)
(* The bytes and the cursors implement CommandQueue: a submission executes *)
(* the commands that were recorded, each once and in order.                *)
(***************************************************************************)
Done ==
  IF executing
    THEN Cardinality({k \in 1..Len(log[Current]) : log[Current][k].at < read_cursor[Current]})
    ELSE -1

Queue == INSTANCE CommandQueue WITH
  recorded <- [b \in CommandBuffers |-> Recorded(b)], done <- Done

ReplaysCommands == Queue!QueueSpec

(***************************************************************************)
(* vkQueueSubmit returns, or ends the program on an assertion.             *)
(***************************************************************************)
SubmitReturns == []<>(submitted = << >> \/ dead)
=============================================================================
