---------------------------- MODULE CommandQueue ----------------------------
(***************************************************************************)
(* What command buffers promise: a buffer is the sequence of the commands  *)
(* recorded since it was last begun, and to submit buffers is to execute   *)
(* the commands of each, in order, from a fresh state. A buffer may be     *)
(* submitted again.                                                        *)
(***************************************************************************)
EXTENDS GpuState

CONSTANTS CommandBuffers

NotStarted == -1

VARIABLES
  recorded,   \* the commands in each buffer
  submitted,  \* the buffers the submission in progress has still to execute
  done,       \* how many commands of the first are, or NotStarted
  gpu,        \* g_gpu_state
  effect,     \* what the last step did to memory
  dead        \* whether the program has ended on an assertion

queueVars == <<recorded, submitted, done, gpu, effect, dead>>

QueueInit ==
  /\ recorded = [b \in CommandBuffers |-> << >>]
  /\ submitted = << >>
  /\ done = NotStarted
  /\ gpu = FreshState
  /\ effect = NoEffect
  /\ dead = FALSE

Record(b, c) ==
  /\ ~dead /\ submitted = << >>
  /\ \/ recorded' = [recorded EXCEPT ![b] = Append(@, c)] /\ UNCHANGED dead
     \/ dead' = TRUE /\ UNCHANGED recorded
  /\ effect' = NoEffect
  /\ UNCHANGED <<submitted, done, gpu>>

Forget(b) ==
  /\ ~dead /\ submitted = << >>
  /\ recorded' = [recorded EXCEPT ![b] = << >>]
  /\ effect' = NoEffect
  /\ UNCHANGED <<submitted, done, gpu, dead>>

Submit ==
  /\ ~dead /\ submitted = << >>
  /\ submitted' \in Seq(CommandBuffers)
  /\ effect' = NoEffect
  /\ UNCHANGED <<recorded, done, gpu, dead>>

StartNext ==
  /\ ~dead /\ submitted # << >> /\ done = NotStarted
  /\ done' = 0
  /\ gpu' = FreshState
  /\ effect' = NoEffect
  /\ UNCHANGED <<recorded, submitted, dead>>

ExecuteNext ==
  /\ ~dead /\ submitted # << >> /\ done # NotStarted
  /\ done < Len(recorded[Head(submitted)])
  /\ LET c == recorded[Head(submitted)][done + 1]
     IN IF Aborts(gpu, c)
          THEN dead' = TRUE /\ UNCHANGED <<done, gpu, effect>>
          ELSE /\ gpu' = Apply(gpu, c)
               /\ effect' = Effect(gpu', c)
               /\ done' = done + 1
               /\ UNCHANGED dead
  /\ UNCHANGED <<recorded, submitted>>

FinishOne ==
  /\ ~dead /\ submitted # << >> /\ done # NotStarted
  /\ done = Len(recorded[Head(submitted)])
  /\ submitted' = Tail(submitted)
  /\ done' = NotStarted
  /\ effect' = NoEffect
  /\ UNCHANGED <<recorded, gpu, dead>>

QueueNext ==
  \/ \E b \in CommandBuffers : Forget(b) \/ \E c \in Commands : Record(b, c)
  \/ Submit \/ StartNext \/ ExecuteNext \/ FinishOne

QueueSpec == QueueInit /\ [][QueueNext]_queueVars
=============================================================================
