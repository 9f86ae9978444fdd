# A specification of vulkenstein

vulkenstein is a Vulkan driver that runs on the CPU. It translates each SPIR-V
shader to LLVM code that runs all lanes of a subgroup at once, records Vulkan
commands into buffers, replays them when they are submitted, and rasterizes
triangles in software. This directory models the parts whose correctness
depends on order, interleaving or long sequences of steps, checks the models
with TLC and proves the central ones with TLAPS.

## 1. Inventory

| Part | Source | State | Operations |
|---|---|---|---|
| Vectorizer, control-flow analysis | `spirv_to_llvm.cpp` 3664-3970 | `bb_cfg` (`in_bbs`, `out_bbs`), `reachable_cache`, `dom_cache`, `postdom_cache`, `back_edges` | build the graph, drop unreachable blocks, reachability, dominators, back edges |
| Vectorizer, block order | 3972-4045 | `to_visit`, `sorted_bbs`, `next`/`prev`/`id` of each node | the loop-aware topological sort |
| Vectorizer, masked control flow | 1030-1148, 1515-1698, 2528-2567, 4047-4221 | one mask register per block, `enabled_lanes_register` | lower `OpBranch`, `OpBranchConditional`, `OpReturn`, build the dispatch chain |
| Vectorizer, values between blocks | 3405-3662 | `shared_values_stash`, `returned_values`, function variables | outline each block (`wrap_bb`), call it (`call_bb`), masked stores |
| Vectorizer, first pass | `parse_meta`, 4560-5740 | type, constant, decoration and function tables, sizes, slots of inputs and outputs, offsets of private variables | read one instruction after the other, size the types, lay out a lane |
| Vectorizer, instructions and types | 578-1515, 1540-3400 | `llvm_types`, `llvm_values_per_lane`, `member_reloc`, `deferred_stores` | map types, set up a function, one LLVM sequence per SPIR-V instruction and lane |
| Shader standard library | `spv_stdlib/spv_stdlib.cpp` | none but the memory it is pointed to | what compiled code calls: arithmetic, atomics, images, the caller's buffers |
| Vulkan objects | `vk.hpp` 53-511, `vk.cpp` 130-193, 1070-1730 | fixed pools of 1000 slots per type, a reference count per object, the references objects hold | `vkCreate*`, `vkDestroy*`, `vkBind*Memory`, `vkUpdateDescriptorSets`, the cascading `release` |
| Command buffers, GPU state | `vk.hpp` 434-531, `vk.cpp` 220-540, 1054-1064, 1752-2216 | bytes with a write and a read cursor; one global `GPU_State` | `vkCmd*` record, `vkQueueSubmit` replays, `vkBeginCommandBuffer` resets |
| Swapchain | `vk.cpp` 2219-2400 | images embedded in the swapchain object, `cur_image` | create, acquire, present (an X11 call) |
| Rasterizer | `raster.cpp` 1200-1600, 2130-2900 | blocks of the temporary storage, the current tile, depth and colour images | `draw_indexed`: assemble and shade vertices, then tile by tile find the pixels, shade them in subgroups, merge depth and colour; `clear_attachment` |
| Memory, containers | `utils.hpp` | bump allocator with a stack of cursors, growing arrays, hash tables | `alloc`, `enter_scope`, `exit_scope`, `push`, ... |
| S-expression shell, `uedit`, generators | `ll.cpp`, `uedit.cpp`, `spv_stdlib/*.py` | a developer's tools | not part of the running driver |

How they interact. An application calls the Vulkan entry points. Creating a
shader module compiles it (vectorizer). Recording a command copies a record with
raw object pointers into a command buffer. `vkQueueSubmit` replays the buffer
synchronously into the global GPU state; a draw runs the compiled vertex shader
on whole subgroups, rasterizes triangles tile by tile, runs the compiled fragment
shader with a mask of the covered pixels and merges the results. There are no
threads inside the driver: fences, semaphores and queue waits are stubs. The
concurrency of the system is that of the lanes.

What is hard. (1) The lanes of a subgroup diverge at every condition and return
one by one; what keeps them apart are masks that every branch updates, and a
list of blocks whose order depends on heap addresses. (2) Values and results
cross block boundaries in slots shared by all turns of a loop. (3) Object
lifetimes: pools that reuse slots at once, counts that cascade, raw pointers in
recorded commands. (4) Limits: pool slots, command buffer bytes, scopes.

## 2. What makes the parts correct

* Sort: it ends, lists each live block once, forward edges point forward, and
  an outermost loop is contiguous in the list.
* Masked execution: no lane is lost, runs twice or waits behind the point of
  execution; the function returns when all lanes have; each lane runs the
  shader as a scalar program would; lanes reconverge after selections and
  loops; the code makes progress.
* Values: a lane uses the value it computed, and its caller gets the value it
  returned.
* Objects: a count is the number of holders; a reference never dangles; when
  everything is destroyed every slot is free again.
* Command buffers: a submission replays what was recorded, in order, from a
  fresh state.
* Draws: every pixel takes the triangles that hold its centre in the order of
  the index list, each once, with the values its pixel shader asked for by
  location; blocks of the temporary storage do not meet, and all are given back.
* Compiled instructions: each enabled lane computes what a scalar invocation of
  the SPIR-V module does, whatever the other lanes hold; data is where the
  module's decorations and the two layout passes say.

## 3. Modules

```
ControlFlow          graphs and the relations the sort uses
  ControlFlowProofs
  Linearize          the sort
    Vectorizer       sort, lowering assertions and masked execution composed
      VectorizerProofs      (with ControlFlowProofs and MaskMachineProofs)
  MaskMachine        the masked code on any linear list
    MaskMachineProofs
    LaneValues       the same with variables, the stash and returned values
      LaneValuesProofs      (with MaskMachineProofs)
LaneSemantics        what the vectorizer promises: scalar lanes
VkObjects            pools, reference counts, release cascades
  VkObjectsProofs
GpuState             commands and what each does to the GPU state
  CommandBuffer      command buffers: memory, cursors, execution
    CommandBufferProofs
  CommandQueue       what command buffers promise: sequences of commands
TemporaryStorage     the arena of a draw call
Ranks                going over a set of numbers in order
ShaderInterface      slots of the inputs and outputs of a shader
Rasterizer           which pixels of a tile a triangle has
  Draw               a draw call, composed of these
    DrawProofs
      RasterOrderProofs     (with RasterOrder and Scene)
Scene                what a draw call says, in exact geometry
  RasterOrder        what a draw promises: Draw's abstract specification
SpirvModule          the first pass over a SPIR-V module
  ShaderTypes        sizes, slots and LLVM types (with ShaderInterface)
    ShaderLowering   the second pass: its order and its refusals
                     (with LaneOperations: what the emitted code computes)
      ScalarLanes    the same program as scalar invocations
                     (with SpirvSemantics: what SPIR-V defines)
        Shader       all of it, and the emitted code run for a subgroup
ShaderCfgs           graphs of the repository's test shaders and common ones
MC*                  instances for TLC
```

**ControlFlow.** A function is a record `[blocks, entry, out]`. `Reachable`,
`Dominators` and `BackEdges` are `reachable()`, `dom_cache` and `back_edges`
of the code, by their definition: paths, and domination by deletion. Two traits of
the code are kept: the entry block is no candidate for a dominator, and
a block that cannot be reached is dominated by everything. The worklists that
compute these relations are not modelled yet. `IsShaderCfg` says what
graphs are considered: reducible ones whose entry is no branch target. SPIR-V
demands structured control flow, and the comment at line 3664 takes it for granted.

**Linearize.** `to_visit` and `sorted` are the code's deque and list;
`SkipPlaced`, `Defer` and `Place` are the three ways through the body of its loop. The
successors of a block come out of a `std::set` of pointers, so `Place` takes them
in any order. `List` is what the loop leaves in `next` and `id`.

**MaskMachine.** `mask[b]` is the mask register of block `b`, `enabled` is
`enabled_lanes_register`. A step executes one LLVM block: `Dispatch` a block of
the dispatch chain, `BranchConditional`, `Branch` and `Return` the pseudo block of
a basic block (which masks the register by the enabled lanes) with the branch
code the lowering appends. Conditions are left open, so every split of the
lanes is explored. `Programs` is any set of lists with `IsLinear`.

**LaneSemantics** is the abstract specification: each lane has a place in the
source graph and moves along its edges. `MaskMachine!LanesRunAsScalars` is this
specification under the mapping that puts a lane where it waits.

**Vectorizer** composes: the sort runs, `CompileAssertions` are the assertions
of the lowering (`Abort` is the trap they raise), then the machine runs on the list
the sort has made. Its abstract specification is `LaneSemantics` over the *source*
graph.

**LaneValues** adds data: a function variable stored to under the mask, one SSA
value defined in one block and used in another (stashed for all lanes), and
returned values (stored for all lanes). `ownValue` and `ownRet` are history
variables that the step relation never reads.

**VkObjects** has sixteen kinds of objects, each with its pool. An object is its slot;
`refs` holds the pointers of the `_Impl` structure, an array cut to one element.
`Create` is `Pool::alloc` together with what the entry point stores and counts up; `FoundSlot` is
`find_next_free_slot`. `release()` recurses through pointers, and a descriptor write releases
before it stores; so a destroying or writing call runs over several steps, and `todo` is
what it still has to do: one `Release` is one call of `release()`. The application
makes one call at a time. `fault` says how the driver died: following a null pointer
(an unbound buffer or image destroyed, line 115; a descriptor written without a sampler, line 1632)
or the assertion that a slot is found. `Orderly` is an assumption about the application: it frees
descriptor sets before their pool and destroys views before their swapchain. Vulkan
does not demand the first, and the driver cannot do without it (section 7).

**GpuState** is `execute_commands` as operators: `Apply` is one turn of its switch, `Aborts` says
which commands end the program (an assertion, a key the switch does not know, a null
pointer), `Effect` names those that touch memory. **CommandQueue** is the abstract specification:
a buffer is a sequence of commands, a submission executes each from a fresh state. **CommandBuffer**
has the memory: `data` is cells that hold a key, a structure or a byte behind a structure, so a reader
that is not where the writer was finds the wrong kind of cell. What was written stays there after a reset, and
memory from `malloc` is `Unwritten`. `log` is a history variable with the recorded commands and where
they start; only the properties and the bound on the application read it. What a draw
needs beyond a pipeline, indices and a render pass (vertex buffers, descriptors, both
shaders) depends on the contents of the pipeline and is left out of `Aborts`.

**TemporaryStorage** is the allocator as operators on a record of a cursor and the saved
cursors. `page_align_up` is kept as the code has it (it subtracts), and `Holds` is what the allocator
asserts. **ShaderInterface** is the layout of inputs and outputs by location: 16-byte slots, gaps, and
the stride of a lane; **Ranks** is going over the entries of an array that are in use, in order. **Rasterizer** classifies small tiles with the three edge functions and then goes over their
pixels, in exact arithmetic on half pixels; for a triangle that turns the other way the edge functions
are stepped with the normals in the original order, as the code does.

**Draw** is `draw_indexed`, one action per stage, per triangle rasterized, per subgroup shaded and per pixel
merged. `block` is where each buffer of the call is, `cur_tile` the current tile with its pixel invocations. `taken` is a history
variable: the triangles each pixel took. Idle lanes of the last subgroup read and write `Junk`. Its abstract specification is
**RasterOrder** over **Scene**, which has no tiles, no subgroups and no order among pixels; `InRasterOrder` is the refinement. Where RasterOrder
leaves a choice is listed at its head.

**SpirvModule** is `parse_meta`, one action per kind of instruction; **ShaderTypes** goes on with the sizes, the slots and
the private variables, and then has the types of LLVM: `LlvmType` is the size of a value and the offsets of its
scalars, so that the two layouts can be compared. `PaddingBefore` is the running offset of line 937, which counts members and
not the padding put in before. **ShaderLowering** is the second pass as far as it decides anything: which variables a
function can use, which instructions have all their operands and the types they assert, the open block and the pending merge. Everything
that makes the compiler give up is there, ending in `pc = "trap"`. **LaneOperations** is what the emitted instructions and the
library functions compute, one definition per instruction; **Shader** runs them: `vals` is `llvm_values_per_lane`, `mem` the scalars
at addresses. An instruction computes for all lanes and goes through the addresses of all lanes; `masked_store` and image writes look at the mask.

**ScalarLanes** runs the same program beside it as the SPIR-V specification has it: references are a variable and the indices from it,
values come from **SpirvSemantics**, only enabled lanes act, one after the other, and nothing there knows LLVM's types. `LanesAreScalar` compares the two. Where the code is
known to differ, `Strays` and `Diverges` name the cause (section 7); from the step that meets one, the comparison of that execution ends. Each
disjunct of `Strays` is needed: without it TLC finds the difference.

Where the model departs from the text of the code: line 4212 forms the
complement of a 64-bit register with a 32-bit constant; the model takes the
complement of the register, which the code names `not_mask`. Calls between functions, phi nodes,
discards in fragment shaders and `OpSwitch` (which the code handles only with a default) are
left out of the control-flow modules. A back edge of a conditional branch, and a conditional branch or a return that
cannot be reached, abort the compiler; `Vectorizer!Abort` covers that, and
`IsLinear` excludes it.

## 4. Runs

| Run | Configuration | Shows |
|---|---|---|
| `linearize` | `MCLinearize.cfg` | On every reducible graph of five blocks and eight larger graphs, the sort ends (`SortTerminates`) with a list that holds each live block once (`EveryLiveBlockPlaced`), in topological order but for back edges (`TopologicalOrder`), outermost loops contiguous (`LoopsContiguous`) |
| `linearize_direct` | `MCLinearizeDirect.cfg` | Fails: `BranchFollowedByTarget`, the comment and assertion at line 4154, see section 7 |
| `machine` | `MCMaskMachine.cfg` | Three lanes on all topological orders of six graphs: `OneHome`, `NoLaneLost`, `NothingBehind`, `ReturnsWithAllLanes`, `Reconvergence`, and the refinement `LanesRunAsScalars` |
| `vectorizer` | `MCVectorizer.cfg` | Two lanes from source graph to execution: the list is what the machine needs (`ListIsLinear`), the shaders of the tests compile (`TestShadersCompile`), lanes meet after outermost loops (`LoopReconvergence`), follow the source graph (`CompiledCodeFollowsSource`), and the code makes progress (`NeverSpins`) |
| `values` | `MCLaneValues.cfg` | With values that do not outlive a turn of a loop and returns of one variable, every lane uses and returns its own values |
| `value_out_of_loop` | `MCValueOutOfLoop.cfg` | Fails: `UsesOwnValue`, see section 7 |
| `get_num_returns` | `MCGetNumReturns.cfg` | Fails: `ReturnsOwnValue`, see section 7 |
| `objects` | `MCVkObjects.cfg` | An orderly application in any order of calls: counts are the number of holders (`CountsAreExact`), objects live exactly as long as a handle leads to them (`LiveIffNeeded`), no call follows a pointer to a freed slot (`NoUseAfterFree`), sets fit as long as slots are left (`DescriptorSetsFit`) |
| `objects_disorderly` | `MCVkObjectsDisorderly.cfg` | Fails: `DescriptorSetsFit`, see section 7 |
| `commands` | `MCCommandBuffer.cfg` | Two buffers recorded, begun again, freed and submitted at will: memory holds what was recorded (`DataIsLog`), buffers can be submitted again (`RewoundWhenIdle`), draws use only their own buffer's bindings (`DrawsUseOwnBindings`), the bytes implement `CommandQueue` (`ReplaysCommands`), submissions return (`SubmitReturns`) |
| `draw` | `MCDraw.cfg` | Draws and clears on two tiles, one half outside: the storage is given back (`StorageGivenBack`), buffers of a call do not overlap though idle lanes write too (`BlocksApart`), pixel shaders get the vertex outputs of the same location (`PixelInputsMatch`), and the result is that of the triangles in order (`InRasterOrder`) |
| `shader` | `MCShader.cfg` | Sixteen shaders compiled and run under four masks, 21 modules refused: slots and private variables do not meet (`LayoutSound`), pointers into blocks are where the decorations say (`ChainsInPlace`), each lane is a scalar invocation (`LanesAreScalar`), operations differ from SPIR-V exactly where `Diverges` says (`OperationsAgree`) |

**Bounds.** Five blocks hold every way two branches, a merge and a loop can
meet; graphs that only swap the names of the entry's successors are taken once.
The larger graphs add nested loops, a loop with break, continue and return, a short-circuit
condition and a dead continue block. Two lanes are enough to diverge
and to meet; the third in `machine` lets one pair stay together while another lane
is elsewhere. `Wrap = 3` makes three successive values of a variable differ, which
is what tells a value of this turn from the last and the next one's. In `objects` a pool has one slot
instead of 1000, two for memory, so that slots are reused at once and pools are full soon; `MaxLive = 7`
is room for the longest chains (a written set with pool, layout, sampler, view, image and memory; a
framebuffer on an image of a swapchain). In `commands` nine cells hold a complete draw and
are one too few for the first program, so that recording meets the end; `Programs` are what each
buffer is recorded from, with every prefix; `MaxSubmit = 2` allows a buffer twice in one submission. In `draw` a framebuffer of 6 by 4 pixels has two tiles of 4 by 4 pixels
with small tiles of 2 by 2 (256 and 4 in the code), so that triangles cross the border of tiles, the last tile is half outside, and
subgroups are partly idle; three layers and three calls in a row (`MaxCalls`) let pixels depend on order. The pages of 32 words are larger than what a tile's
smaller blocks take, as in the code. In `shader` words have three bits (`IntBits`), enough for signed and unsigned
operations to differ and wrap; floats are integers or NaN, an inexact result is NaN on both sides; a subgroup has the four lanes of the code. The shaders
are functions of one block, since the blocks a lane goes through are the subject of the machine; a shader with a branch is compiled and not run. `OperationsAgree` takes all pairs of
words, and floats around zero. Deadlock is not checked: compiled functions and the sort stop, a shader ends, and the driver stops on an assertion or when the
bounded number of draws is done.

**Fairness.** Weak fairness of the whole next-state relation, nothing more: the
compiler and the code it makes are sequential programs, which do not stop between
two steps. `CommandBuffer` is weakly fair to the steps
inside `vkQueueSubmit`, which runs on its caller's thread and waits for nothing; the calls of an application
are never assumed, and `VkObjects` has no fairness at all. Which way a condition goes is never assumed fair; `NeverSpins` therefore
says that code runs for some lane again and again, not that loops end.

## 5. Proofs

All theorems are checked by TLAPS, for every value of the constants that satisfies the assumptions named below. TLC evaluates
the assumptions on the instances, and checked each inductive invariant there before it was proved.

### Control-flow graphs: `ControlFlowProofs`

Lemmas only, used by the modules below. The walks of `ControlFlow` are recursive functions on numbers; induction is done by
least counterexample (`LeastNat`), since a theorem about induction for an arbitrary predicate cannot be instantiated. `VisitedClosed` and
`VisitedLeast` say that a walk visits the least set that no edge leaves. From them come, for reducible graphs of any size, the facts the sort
rests on: loops divide the blocks (`ComponentsDivide`), each loop has one header that it is entered at (`LoopsHaveHeaders`,
`EnteredAtHeader`), and while a live block is missing in the list, some block is ready (`SomeBlockIsReady`).

### The sort and the compiled code: `VectorizerProofs`

For every set of shader graphs with `ShadersAssumption` (reducible, entry no branch target) and every order of the successors of a block:

| Theorem | Statement |
|---|---|
| `SortTypes` | `Spec => []TypeOK` |
| `SortIsTopological` | `Spec => []TopologicalOrder` |
| `SortIsComplete` | `Spec => []EveryLiveBlockPlaced` |
| `LoopsStayTogether` | `Spec => []LoopsContiguous` |
| `SortedListIsLinear` | `VSpec => []ListIsLinear` |
| `CompiledCodeIsSource` | `VSpec => CompiledCodeFollowsSource` |
| `LanesLeaveLoopsTogether` | `VSpec => []LoopReconvergence` |

The argument. A block is listed when its predecessors are, except over edges the sort takes for back edges. So the order is topological
if the source of a back edge is not listed before its target, which is `ListedWithout`: as long as a block is not listed, everything listed can be
reached without it (an edge from a block that could not be is a back edge by definition, and there is none yet). `SortInv` joins this with what
the queue holds. That the list is complete when the queue is empty follows from `NoneForgotten`. `LoopInv` is about outermost loops: while one is partly listed,
what is ready of it is in front of everything else in the queue (the code puts successors in the same loop in front, and others behind); that something of it is ready is
`ReadyAfterHeader`, an argument on the graph cut at the header. `ListLinear` puts these together: the list of a sort that ended is one `MaskMachine` can run. Its theorems
are then used through an instance (`MP`), and `CompiledCodeIsSource` composes the two: each step of the compiler or of the code it made is a step of some lanes of the source graph, or
none. `LanesLeaveLoopsTogether` uses that no lane waits behind the point of execution, and that from a block behind a loop no forward edge leads into it (`BehindStaysBehind`).

### Masked execution: `MaskMachineProofs`

For every set of lanes, every set of linear lists (`ProgramsAssumption`, which `SortedListIsLinear` discharges for compiled functions) and every mask the function is entered with:

| Theorem | Statement |
|---|---|
| `TypeCorrect` | `Spec => []TypeOK` |
| `LanesHaveOneHome` | `Spec => []OneHome` |
| `LanesAreKept` | `Spec => []NoLaneLost` |
| `NoLaneIsPassed` | `Spec => []NothingBehind` |
| `ReturnIsComplete` | `Spec => []ReturnsWithAllLanes` |
| `LanesReconverge` | `Spec => []Reconvergence` |
| `ImplementsScalars` | `Spec => LanesRunAsScalars` |

The argument. None of the invariants is inductive alone: that no lane is lost when a branch
falls through needs that no lane waits behind the point of execution, and that
needs that a forward edge leads to a later block. The inductive invariant `IndInv` is the
conjunction of type correctness with four others. The lemmas
`ForwardBranchHasNext`, `BeforeNext` and `BeforeEnd` are about the numbering of the list (from
`IsLinear`); `MovedWaiting` and `MovedHomes` say where the lanes are after a branch,
once for both kinds of branch; then there is one lemma per action. The
refinement uses the invariant: `LaneAtHome` says that the mapping finds the one block
a lane waits for, so that a dispatch step maps to a stutter and a branch or a return to a
move of exactly the lanes that were waiting. `LanesReconverge` follows from the invariant and `ForwardIsLater`: what forward edges lead to is later in the list.

### Values between blocks: `LaneValuesProofs`

| Theorem | Statement |
|---|---|
| `ReturnsAreOwn` | if every return of every function returns the variable, `[]ReturnsOwnValue` |
| `ValuesAreOwn` | if every value dies in its turn, `[]UsesOwnValue` |

The hypotheses are conditions on the program, `ReturnsVariable` and `DiesInItsTurn`, and they are exactly what the findings `get_num_returns` and `value_out_of_loop`
of section 7 violate; the module `MCLaneValues` assumes them of the functions of the run `values`. `DiesInItsTurn` says that there is a live range `R`
(`LiveRange`): blocks that are only entered from the definition or from `R`, all after the definition, and before the end of every loop that the definition is in. `LiveInv` then says that every lane waiting
in `R` finds its own value in the stash: the definition does not run again for any lane before all lanes have left `R`, since the list goes
through `R` before it comes to the back edge.

### Vulkan objects: `VkObjectsProofs`

For pools of any size and any number of objects, of an orderly application (`Orderly`):

| Theorem | Statement |
|---|---|
| `TypeCorrect` | `Spec => []TypeOK` |
| `CountsHold` | `Spec => []IInv` |
| `CountsAreExactThm` | `Spec => []CountsAreExact` |
| `NoUseAfterFreeThm` | `Spec => []NoUseAfterFree` |
| `LiveIffNeededThm` | `Spec => []LiveIffNeeded` |
| `DescriptorSetsFitThm` | `Spec => []DescriptorSetsFit` |

The argument. Counts are exact only between two calls. In the middle of one, `CountsMidCall`: a count is the number of pointers that will stay (those about to be
overwritten by a pending store no longer count), plus the releases still in `todo`, plus one for the handle. It needs that a free slot points to nothing (`FreeIsBlank`), that
pointers lead from shallower kinds to deeper ones (`Downward`, so that no object leads to itself and a release ends), that a swapchain and its images come and go
together (`SwapchainWhole`, `SwapchainGoes`: an image is not released by the code, but cleared with its swapchain), and that a pending
store is into a set that is held (`StoresHeld`, `StoresDiffer`). `LiveIffNeeded` goes along the pointers to an object from the shallowest.
`Orderly` is needed: without it the run `objects_disorderly` shows the counterexample.

### Command buffers: `CommandBufferProofs`

For command buffers of any number and size, any commands, and any order of recording, resetting, freeing and submitting:

| Theorem | Statement |
|---|---|
| `TypeCorrect` | `Spec => []TypeOK` |
| `MemoryHoldsLog` | `Spec => []DataIsLog` |
| `BuffersRewound` | `Spec => []RewoundWhenIdle` |
| `DrawsAreOwn` | `Spec => []DrawsUseOwnBindings` |
| `SubmissionReplaysCommands` | `Spec => ReplaysCommands` |

The argument. To execute what was recorded, the reader must find a command where it stands; that it does is `DataIsLog`
if it stands where a logged command starts (`AtCommand`), and it moves from one start to the next
only if it reads as many cells as were written. `EncodingShape` says what a command looks like in memory, and
`ReadsCommand` that reading gives back the command and its size: the heart of the proof. A new command must
not touch the cells of the others, which end below the cursor (`EndsInBuffer`, `LogExtended`). When a
submission starts, its buffer must be rewound: `OthersRewound` says that every buffer but the one in execution is.
`IndInv` joins these facts with the order of the log (`LogInOrder`), from which the refinement gets how many commands
are done: those that start below the read cursor are exactly the first ones (`DoneBelowEnd`). A free
buffer has an empty log (`FreedEmpty`), and only live buffers are submitted (`SubmittedLive`). `BindingInv` adds, for each entry of the GPU state, that what is
bound was an argument of a command its buffer has executed since the submission began (`ApplyIsOwn`).

The assumptions: `BoundsAssumption` (a buffer has at least one cell), and `CommandsAssumption` (only the two commands that copy
bytes behind their structure have such bytes, and `RenderPassEnd` has no structure). `UpdateBuffer` writes bytes that
execution would not skip; the theorem holds because its key is one the switch does not know.

### Draw calls: `DrawProofs`, `RasterOrderProofs`

For framebuffers, tiles, subgroups and calls of any size:

| Theorem | Statement |
|---|---|
| `ScopesNest` | `Spec => []ScopesOpen` |
| `StorageIsGivenBack` | `Spec => []StorageGivenBack` |
| `BlocksStayApart` | `Spec /\ []TileFits => []BlocksApart` |
| `PixelInputsAreMatched` | `Spec => []PixelInputsMatch` |
| `DrawTypes` | `Spec => []TypeOK`, if the triangles have an area |
| `DrawIsInRasterOrder` | `Spec => InRasterOrder`, if the calls are `Regular` |

The argument. `StorageGivenBack` speaks of the state between calls only; what is inductive is `ScopesOpen`: from the start of a call to its end the
first saved cursor is 0, and from the start of a tile to its end there is exactly one more. `Nested` says this of a storage whatever its cursor is; `AllocKeepsScopes` that
allocating keeps it, and `EnterTile`, `LeaveTile`, `EnterCall`, `LeaveCall` what opening and closing a scope makes of it. A stage that ends in a failed assertion leaves no obligation.

`BlocksApart` is about what was filled of a block. `BlocksInv` says more: each block has room for its `Extent`, a size that does not depend on what was filled so far; the
extents lie one above the other, below the cursor (`Laid`); what is filled is within them; and the blocks of the call lie below the cursor saved for the
tile (`CallBelowTile`), so that giving the tile's storage back does not free them. The output of a subgroup is one value per lane, and there are `Units` of lanes, a whole number of subgroups
(`OutputsGrow`, `SizesAre`). `LayoutIs` shows of the layout of an interface, by the recursion over its locations, that a
lane's share is a whole number of slots and that the slots of different locations are apart; `AlignedAlloc` and `PageAlloc` say where the two allocators put a block.

The hypothesis `TileFits` is a limit the code has and does not check: the pixel invocations found in a tile fit the block `begin_tile` takes for them, less two pages. The two pages
are those that `alloc_page_aligned` reserves too little; the block is the largest one, and what comes behind it begins there. The run `draw` keeps within it. The
assumptions on the constants are `StorageAssumption`, `TileAssumption` and `DrawAssumption` (the framebuffer has an extent and a subgroup has lanes; indices are counted; interfaces and
descriptor sets are sequences; the vertex shader has the position and what it puts out among its inputs, and the pixel shader what it makes a colour of; the vertices that the
index list names are there, with whole coordinates and a positive `w`, since nothing is clipped; a position of three floats gets 1 for `w`; attributes and the colours of clears are between 0 and `Full`).

`PixelInputsMatch` is about two ends of a long way: an attribute of a vertex, and what an invocation of the pixel shader reads. `StagesMatch` has one part for each
stop between them, saying what the stage finds in the buffer of the one before: the attributes of each unit in place (`AttributesInPlace`), the outputs and positions of the
vertex shader (`OutputsInPlace`, `PositionsInPlace`), corners that are numbers (`CornersAreNumbers`), enough units for the indices (`UnitsSuffice`), and pixels of the
tile that are of triangles of the call (`PixelsAreOfCall`, `NextPixels`). Going through a buffer rests on three lemmas. `SlotsAre`: the table of an interface has one slot for each
location, found by going through the locations in order (`RanksAre`). `PlaceOf`: the address a lane reads at is the place at which the writer put that slot, and no
other slot lies there, since `LayoutIs` has them apart within the stride. `MatchingSlotIs`: the table of the outputs has a slot for every input of the pixel shader, because the
set-up asserted that it has. A slot of the pixel shader's table is thus filled from the slot of the same location of the vertex shader's, though strides and offsets differ. `InvocationsAre`
(with `OfTriangles`) says that the invocations of a tile come from the triangles rasterized into it.

`InRasterOrder` says that `Draw` implements `RasterOrder`, and joins three arguments.

*Geometry: the rasterizer finds the pixels that the triangle holds.* `Scene` decides by areas whether a triangle holds a point; the code steps edge functions from the corner of a box, over
small tiles and then over their pixels. `EdgeIsCross` makes an edge function an area, `EdgeSteps` says what stepping adds. No pixel that the triangle holds is missed: its small tile is within the
box (`CornersAround`, `AxisHolds`, `InsideInBox`) and has its bit in the mask (`ClassifiedHas`, `MaskHas`). None is found twice, since the small tiles and the bits in them come in order, once each
(`RanksDiffer`, `FlattenJoins`). A triangle that turns the other way is stepped with normals of the reverse order; so inside a small tile its
weights belong to other vertices (the hazard at line 2544). `NormalsClose` (the normals of a triangle add up to nothing) shows that their sum is the area all the same, so that they can be divided by it (`EdgeWeightsAre`); they are not negative,
as the code replaces those that are, and `RasterOrder` allows for such a triangle every value between those of its corners. `FoundAre` sums it up for one triangle and one tile. A tile works with positions moved to its own corner: `MovedTriangle`, `MovedHolds` and `MovedWeights` take that back, and `CulledIsDiscarded` relates culling to the turn of
the triangle on the framebuffer.

*Stages: what is merged are the fragments of the scene.* `DrawInv` has one part per buffer: positions in place (`Placed`); the pixel invocations of the tile are, in order, the fragments of the triangles rasterized so far (`Found`, by
`AreFragments`, which `FragmentsAdded` extends by a triangle); the outputs of the subgroups that ran are the values that `Scene` allows (`Shaded`: `PixelIsShaded` for one pixel, `MixIsValue` for its
interpolation, and `MeanBetween` for its range); and what each pixel has taken (`Taken`): all its triangles if its tile has been drawn, the ones merged so far if it is of the tile under way, else none. That
no pixel is left out when the last tile is done, and none is of two tiles, is `TilesReach`, `TileOf` and `AllMerged`.

*Steps.* `MergeIsTake`: the merge of one pixel is a step of `RasterOrder`, whose depth tests the ones of the code are (`TestsAre`). In `NextOrder` the begin of a call, a clear and the end of a call are the other steps, and every stage before the merge
stutters: in particular the end of a call finds every pixel complete, which is what `RasterOrder` asks for.

`TypeOK` has the range of colours: a blend of two colours in range is in range (`BlendedIs`), and what is interpolated is between the values at the corners, for which weights must have one sign and a sum other than 0. `TypesInv` is its inductive form; it rests on `DrawInv`, hence the
same hypothesis about areas.

`Regular` is two things about a call. Its triangles have an area (`HasArea`): the code divides the weights by their sum, and for three corners on one line divides 0 by 0. And it is culled as meant (`CullsAsMeant`): for
back faces with front faces that turn against the clock the code culls the front faces (section 7). The theorem would be false without either. `MCDraw` has TLC check that the calls of the instance are regular (`RegularCalls`).

### Model-checked only

* Liveness (`SortTerminates`, `NeverSpins`, `SubmitReturns`): beyond the prover.
* `Shader`: `TypeOK`, `LayoutSound`, `ChainsInPlace`, `LanesAreScalar`, `OperationsAgree`. The sizes and layouts of types are recursive operators, which
  the prover cannot reason about.
* `TestShadersCompile` is about the graphs of the repository's tests, all of which the run has.

## 6. Not modelled, and the plan

Every property of the runs that the prover can reach is proved. What is left to prove comes with what is left to model (and, for `Shader`, with sizes and layouts
written as recursive functions over a set of types).

Next to model:

1. `Rendering`: objects and command buffers together. `GPU_State` and recorded commands
   do not count references; the statement is that an application which keeps what it has recorded never makes
   `execute_commands` follow a pointer to a freed slot.
2. `CfgAnalysis`: the caches of `reachable()` and the dominator worklists against the
   definitions in `ControlFlow`.
3. Straight-line functions in the masked machine: `Shader` for the blocks, `LaneValues` for what passes between them.
4. Image sampling: the quad derivatives and the level a sample is taken from.

Left out of the modules above. Objects: texel buffer views (whose descriptor keeps a pointer into the caller's
memory, line 1650); objects without references to others and without users, such as fences, semaphores,
queues and command pools; creation from several threads at once, which nothing locks; compute pipelines,
whose creation is a stub; presentation. Rasterizer: what rounding does to the edge functions; the SIMD variants of
`rasterize_triangle_tiled_*`, which `draw_indexed` does not call; the viewport, which the code takes to be
the framebuffer; clipping, of which there is none. Compiler: rounding, bit casts between
floats and integers, operations on a subgroup (which take elements of the mask register's address and never get
through LLVM), image sampling, debug output, the JIT. A disabled lane whose address is undefined reads or
writes nowhere in the model; the compiled code may fault there.

Not planned: information queries and stubs (constants), the hash tables and arrays of `utils.hpp` (ordinary
containers, used by one thread), generated tables, the S-expression shell and the editor (a developer's tools that the driver
does not use), tests, vendored code.

## 7. Disagreements found

* **The order of blocks and the assertion at 4155.** "The way we sort enforces this
  ordering": a conditional branch is followed by one of its targets. It does not when break and continue
  are the direct targets of one conditional branch at the end of a loop
  body while another arm is still queued (`DirectBreakContinue`). The compiler then aborts.
* **Values that leave a loop.** Every block stores its results for all lanes (3580-3583),
  against the comment "Every bit of observable behavior should be masked" (4072). A lane that left the
  loop early and uses a value of the loop later gets a later turn's.
* **Returned values.** `OpReturnValue` stores all lanes' results unmasked (2535), with the masked
  store commented out (2538). `get_num` of `branch_1.comp.py` then returns the wrong value
  for lanes that took the first return, which the test's inputs never bring about.
* **Sets of a destroyed pool.** `vkDestroyDescriptorPool` (1581) counts the pool down and `vkResetDescriptorPool`
  (1586) does nothing; the pool's sets keep their slots and all they refer to. An application that
  relies on either and holds no set runs into `ASSERT_ALWAYS(first_attempt)` (138) when the slots
  are used up.

The following were met while modelling. No text of the repository says otherwise, so no run is expected to fail on them; the models have
them as the code does, and `Strays`, `Diverges` or `RasterOrder` name them.

* Culling (`raster.cpp` 2499-2503): the sign of the front face is multiplied by itself for back faces, so it is positive whatever `frontFace` says. Triangles of one
  turn are culled, the front faces if these turn against the clock. No instance has such a call; `CullsAsMeant` excludes it from the theorem.
* Triangles without an area (2567-2571): pixels whose centres lie on the line have weights 0 with sum 0.
* Depth (`raster.cpp` 2729-2743): `LESS` lets a fragment of equal depth pass and `LESS_OR_EQUAL` does not; so for `GREATER`.
* Structures with holes (937): padding put in is not added to the running offset. The member right behind the
  first hole is in place, and those that follow it get the hole once more.
* Access chains (1593-1605): an index into an array or matrix that is not the last one steps by the size of the whole; array and matrix
  strides other than LLVM's are not looked at.
* Matrices are kept by rows in registers, but `OpCompositeConstruct`, `OpConstantComposite` and `OpCompositeExtract` treat
  what they get as columns; `OpMatrixTimesScalar` scales the last row only and drops the others.
* `FSign` of a scalar is always -1; `spv_fabs_f4` takes the third component for the fourth; `OpSMod` and `OpFMod`
  are remainders; `OpFOrdGreaterThan` is true for NaN; `OpFOrdGreaterThanEqual` is false for equal operands.
* Atomics are called for disabled lanes as well (1868); outputs stored in a function other than the entry point are
  lost (1338); `OpKill` leaves its block open, and the next label stops the compiler.
* A tile has room for four pixel invocations per pixel (2573), and nothing counts them.
