-------------------------------- MODULE Draw --------------------------------
(***************************************************************************)
(* draw_indexed of raster.cpp: input assembly, vertex shading, primitive   *)
(* assembly, then tile after tile of the framebuffer rasterization, the    *)
(* set-up and the shading of the pixels, and the merge into the            *)
(* attachments. One action per stage, per triangle that is rasterized, per *)
(* subgroup that is shaded and per pixel that is merged.                   *)
(*                                                                         *)
(* A call is a record of the arguments of draw_indexed and of what the GPU *)
(* state holds: the pipeline, the vertex buffer with its formats, the      *)
(* descriptor sets. Its two shaders are what their interfaces say: the     *)
(* vertex shader puts its input at location 0 out as the position and its  *)
(* input at l + 1 as its output at l; the pixel shader interpolates its    *)
(* inputs and puts one of them out as the colour's value, and possibly     *)
(* another as its alpha. Sizes in memory are in words, buffers of slots in *)
(* units of SlotAlign words.                                               *)
(***************************************************************************)
EXTENDS TemporaryStorage, ShaderInterface, Rasterizer

CONSTANTS
  Calls, Clears, Full, NoCall,   \* as in RasterOrder
  Width, Height,                 \* of the framebuffer and its attachments
  SubgroupSize,                  \* lanes that run together
  MaxInvocations,                \* pixels a tile has room for, 256 * 256 * 4 in the code
  MaxTiles,                      \* small tiles there is room for, 1 << 20 in the code
  MaxHandles,                    \* handles of one kind in a draw call, 0x100 in the code
  MaxCalls,                      \* bound: draws and clears of a run
  Junk                           \* what memory holds that was never written

InterfaceVariables == Seq([location : Nat, format : Formats])

(* Sets, each of slots that have a type and something bound or nothing.    *)
DescriptorSets == Seq(Seq([type : STRING, bound : BOOLEAN]))

(* get_index, and the offset added to it. *)
VertexOf(c, k) == c.vertices[c.indices[c.firstIndex + k + 1] + c.vertexOffset + 1]

(* Colours are shown in steps of one of Full. The vertex shader has a      *)
(* position and what it puts out. The vertices are there, in front of the  *)
(* eye and in the range of the depths: nothing is clipped; and a position  *)
(* of three floats is one of w 1.                                          *)
ASSUME DrawAssumption ==
  /\ Width \in Nat \ {0} /\ Height \in Nat \ {0} /\ Full \in Nat \ {0}
  /\ SubgroupSize \in Nat \ {0} /\ MaxInvocations \in Nat \ {0} /\ MaxTiles \in Nat
  /\ NoCall \notin Calls
  /\ \A c \in Clears : c.color \in [value : 0 .. Full, alpha : 0 .. Full] /\ c.depth \in Nat
  /\ \A c \in Calls :
       /\ c.indexCount \in Nat /\ c.firstIndex \in Nat /\ c.sets \in DescriptorSets
       /\ {c.vs_inputs, c.vs_outputs, c.ps_inputs} \subseteq InterfaceVariables
       /\ {0} \cup {loc + 1 : loc \in Locations(c.vs_outputs)} \subseteq Locations(c.vs_inputs)
       /\ c.valueLocation \in Locations(c.ps_inputs)
       /\ c.opacityLocation \in Locations(c.ps_inputs) \cup {NoCall}
       /\ \A k \in 0 .. c.indexCount - 1 :
            LET v == VertexOf(c, k) IN
            /\ {v.x, v.y} \subseteq Int /\ v.z \in Nat /\ v.w \in Nat \ {0}
            /\ c.formats[0] = "f4" \/ v.w = 1
            /\ \A loc \in Locations(c.vs_outputs) : v.attr[loc] \in 0 .. Full

VARIABLES
  pc,        \* the stage that comes next
  call,      \* the draw call under way
  ts,        \* the temporary storage of the rasterizer
  block,     \* where the blocks of the call are in it
  ia,        \* the attributes, one unit after another
  vs,        \* output and positions of the vertex shader
  assembly,  \* the positions of the corners on the framebuffer
  cur_tile,  \* the tile being drawn
  next,      \* the triangle, the subgroup or the pixel whose turn it is
  color,     \* the color attachment
  depth,     \* the depth attachment
  taken,     \* history: the triangles merged into each pixel
  left       \* calls the application still makes

vars == <<left, pc, call, ts, block, ia, vs, assembly, cur_tile, next, color, depth, taken>>
target == <<left, color, depth, taken>>
geometry == <<ia, vs, assembly>>

FramePixels == (0 .. Width - 1) \X (0 .. Height - 1)

NoTile == [x |-> 0, y |-> 0, pinfos |-> <<>>, tiles |-> 0, input |-> <<>>, positions |-> <<>>,
           output |-> <<>>, depth_output |-> <<>>]

Init ==
  /\ pc = "idle" /\ call = NoCall /\ left = MaxCalls
  /\ ts = create /\ block = <<>>
  /\ ia = <<>> /\ vs = [output |-> <<>>, positions |-> <<>>] /\ assembly = <<>>
  /\ cur_tile = NoTile /\ next = 0
  /\ \E c \in Clears : color = [p \in FramePixels |-> c.color] /\ depth = [p \in FramePixels |-> c.depth]
  /\ taken = [p \in FramePixels |-> {}]

(* The storage becomes s; an assertion that failed is the end.             *)
Proceed(s, asserted, stage) ==
  /\ ts' = s
  /\ pc' = IF asserted /\ Holds(s) THEN stage ELSE "trap"

(* One more block is taken. *)
WithBlock(blocks, name, at) ==
  [b \in DOMAIN blocks \cup {name} |-> IF b = name THEN at ELSE blocks[b]]

-----------------------------------------------------------------------------
(* Between the calls and at their start.                                   *)

(* clear_attachment, at the start of a render pass. *)
clear_attachment ==
  /\ pc = "idle" /\ left > 0 /\ left' = left - 1
  /\ \E c \in Clears : color' = [p \in FramePixels |-> c.color] /\ depth' = [p \in FramePixels |-> c.depth]
  /\ UNCHANGED <<pc, call, ts, block, geometry, cur_tile, next, taken>>

begin_draw_indexed ==
  /\ pc = "idle" /\ left > 0 /\ left' = left - 1
  /\ call' \in Calls
  /\ Proceed(enter_scope(ts), TRUE, "descriptors")
  /\ taken' = [p \in FramePixels |-> {}]
  /\ block' = <<>>
  /\ next' = 1
  /\ UNCHANGED <<geometry, cur_tile, color, depth>>

(* The slots of the sets looked at so far, each a record of its type and   *)
(* of whether the application put something there.                         *)
SlotsOf(types) ==
  {s \in UNION {{i} \X DOMAIN call.sets[i] : i \in 1 .. next} : call.sets[s[1]][s[2]].type \in types}

(* Each handle is taken from an array, and there must be one more to take. *)
HandlesSuffice ==
  /\ Cardinality(SlotsOf({"sampler", "combined"})) < MaxHandles
  /\ \A j \in DOMAIN call.sets[next] :
       LET slot == call.sets[next][j] IN
       /\ slot.type \in {"sampler", "uniform", "combined"}
       /\ slot.type # "sampler" => slot.bound

(* The table of the next descriptor set. *)
setup_descriptors ==
  /\ pc = "descriptors"
  /\ IF next <= Len(call.sets)
       THEN /\ Proceed(alloc_align(ts, 2 * Len(call.sets[next]), 8), HandlesSuffice, "descriptors")
            /\ next' = next + 1
       ELSE pc' = "IA" /\ UNCHANGED <<ts, next>>
  /\ UNCHANGED <<call, block, geometry, cur_tile, target>>

-----------------------------------------------------------------------------
(* Vertices.                                                               *)

Subgroups(n) == (n + SubgroupSize - 1) \div SubgroupSize

Units(n) == Subgroups(n) * SubgroupSize

(* Which slots lie at place a of a buffer: one or none. *)
SlotsAt(slots, stride, a) ==
  {j \in DOMAIN slots : slots[j].offset = SlotAlign * (a % (stride \div SlotAlign))}

SlotAt(slots, stride, a) == CHOOSE j \in SlotsAt(slots, stride, a) : TRUE

(* A buffer of n units of `stride` words, each filled by value(unit, i) at *)
(* the offset of slots[i].                                                 *)
Buffer(n, slots, stride, value(_, _)) ==
  [a \in 0 .. (n * stride) \div SlotAlign - 1 |->
     IF SlotsAt(slots, stride, a) = {} THEN Junk
     ELSE value(a \div (stride \div SlotAlign), SlotAt(slots, stride, a))]

(* What a lane finds at an offset of its unit in a buffer. *)
Fetch(buffer, stride, unit, offset) == buffer[(unit * stride + offset) \div SlotAlign]

InputSlots == Slots(call.vs_inputs)
InputStride == Stride(call.vs_inputs)
OutputSlots == Slots(call.vs_outputs)
OutputStride == Stride(call.vs_outputs)

Vertex(k) == VertexOf(call, k)

(* What the vertex buffer gives for a location. A position of three floats *)
(* gets a 1 for its w; a colour of four bytes becomes four floats.         *)
Attribute(k, loc) ==
  IF loc = 0
    THEN LET w == IF call.formats[0] = "f4" THEN Vertex(k).w ELSE 1
         IN [x |-> Vertex(k).x * w, y |-> Vertex(k).y * w, z |-> Vertex(k).z * w, w |-> w]
    ELSE Vertex(k).attr[loc - 1]

Convertible(format, from) == from = format \/ (format = "f4" /\ from \in {"f3", "unorm8"})

IA_stage ==
  LET n == call.indexCount IN
  /\ pc = "IA"
  /\ Proceed(alloc_align(ts, Units(n) * InputStride, 8),
             /\ call.indexType \in {"uint16", "uint32"}
             /\ \A i \in DOMAIN InputSlots :
                  Convertible(InputSlots[i].format, call.formats[InputSlots[i].location]),
             "VS")
  /\ block' = WithBlock(block, "attributes", AlignedBlock(ts, 8))
  /\ ia' = Buffer(Units(n), InputSlots, InputStride,
                  LAMBDA k, i : IF k < n THEN Attribute(k, InputSlots[i].location) ELSE Junk)
  /\ UNCHANGED <<call, vs, assembly, cur_tile, next, target>>

(* Variant: room for the vertices only. *)
OutputWordsExact(n) == n * OutputStride

(* What the outputs of n vertices take, those of idle lanes included. *)
OutputWords(n) == Units(n) * OutputStride

(* spv_main of the vertex shader, for a subgroup at a time with all lanes. *)
VS_stage ==
  LET units == Units(call.indexCount)
      in(k, loc) == Fetch(ia, InputStride, k, Offset(call.vs_inputs, loc))
      output == alloc_align(ts, OutputWords(call.indexCount), 8)
  IN
  /\ pc = "VS"
  /\ Proceed(alloc_align(output, units * 4, 8), Holds(output), "PA")
  /\ block' = WithBlock(WithBlock(block, "vs_output", AlignedBlock(ts, 8)),
                       "vs_positions", AlignedBlock(output, 8))
  /\ vs' = [output |-> Buffer(units, OutputSlots, OutputStride,
                              LAMBDA k, i : in(k, OutputSlots[i].location + 1)),
            positions |-> [k \in 0 .. units - 1 |-> in(k, 0)]]
  /\ UNCHANGED <<call, ia, assembly, cur_tile, next, target>>

(* The perspective division; nothing is clipped. *)
Screenspace(v) == [x |-> v.x \div v.w, y |-> v.y \div v.w, z |-> v.z \div v.w, w |-> v.w]

PA_stage ==
  LET n == call.indexCount IN
  /\ pc = "PA"
  /\ Proceed(alloc_align(ts, 4 * n * 6, 8),
             call.topology = "triangle_list" /\ n % 3 = 0 /\ call.subpassCount = 1, "begin_tile")
  /\ block' = WithBlock(block, "screenspace", AlignedBlock(ts, 8))
  /\ assembly' = [k \in 0 .. n - 1 |-> Screenspace(vs.positions[k])]
  /\ cur_tile' = NoTile
  /\ UNCHANGED <<call, ia, vs, next, target>>

-----------------------------------------------------------------------------
(* One tile.                                                               *)

begin_tile ==
  LET scope == enter_scope(ts)
      pinfos == alloc_page_aligned(scope, 7 * MaxInvocations)
  IN
  /\ pc = "begin_tile"
  /\ Proceed(alloc_align(pinfos, 4 * MaxTiles, 8), Holds(scope) /\ Holds(pinfos), "rasterize")
  /\ block' = WithBlock(WithBlock(block, "pinfos", PageBlock(scope)), "tiles", AlignedBlock(pinfos, 8))
  /\ next' = 1
  /\ UNCHANGED <<call, geometry, cur_tile, target>>

(* The corner of triangle k, relative to the tile. *)
TileCorner(k, i) ==
  LET v == assembly[3 * (k - 1) + i]
  IN [v EXCEPT !.x = @ - 2 * Tile * cur_tile.x, !.y = @ - 2 * Tile * cur_tile.y]

(* How many small tiles the pixels of a triangle were found in. *)
SmallTiles(found) ==
  Cardinality({<<found[i].x \div Small, found[i].y \div Small>> : i \in DOMAIN found})

rasterize_current_tile ==
  LET v == <<TileCorner(next, 0), TileCorner(next, 1), TileCorner(next, 2)>>
      found == IF Culled(call.cullMode, call.frontFace, Area(v)) THEN <<>>
               ELSE Invocations(next, v, cur_tile.x, cur_tile.y)
  IN
  /\ pc = "rasterize"
  /\ IF next <= call.indexCount \div 3
       THEN /\ cur_tile' = [cur_tile EXCEPT !.pinfos = @ \o found,
                                            !.tiles = Max({@, SmallTiles(found)})]
            /\ next' = next + 1
            /\ pc' = pc
       ELSE pc' = "setup" /\ UNCHANGED <<cur_tile, next>>
  /\ UNCHANGED <<call, ts, block, geometry, target>>

PixelSlots == Slots(call.ps_inputs)
PixelStride == Stride(call.ps_inputs)

(* Variant: the stride of the pixel shader. *)
VertexOutputStrided(unit, offset) == Fetch(vs.output, PixelStride, unit, offset)

(* An output of a vertex. *)
VertexOutput(unit, offset) == Fetch(vs.output, OutputStride, unit, offset)

(* Each pixel gets the outputs of the three vertices of its triangle, in   *)
(* the slots of the pixel shader's inputs at the same locations.           *)
setup_pixel_input_current_tile ==
  LET n == Len(cur_tile.pinfos)
      units == Units(n)
      output == alloc_align(ts, 4 * units, 8)
      positions == alloc_align(output, 4 * units * 3, 8)
      depths == alloc_align(positions, units, 8)
      from(i) == MatchingSlot(OutputSlots, PixelSlots[i].location)
      vertex(u) == 3 * (cur_tile.pinfos[(u \div 3) + 1].triangle_id - 1) + (u % 3)
  IN
  /\ pc = "setup"
  /\ IF n = 0
       THEN /\ pc' = "end_tile"
            /\ UNCHANGED <<ts, block, cur_tile, next>>
       ELSE /\ Proceed(alloc_align(depths, 3 * PixelStride * units, 8),
                       /\ Holds(output) /\ Holds(positions) /\ Holds(depths)
                       /\ \A i \in DOMAIN PixelSlots : from(i).format = PixelSlots[i].format,
                       "shade")
            /\ block' = WithBlock(WithBlock(WithBlock(WithBlock(block,
                           "pixel_output", AlignedBlock(ts, 8)),
                           "pixel_positions", AlignedBlock(output, 8)),
                           "pixel_depth", AlignedBlock(positions, 8)),
                           "pixel_input", AlignedBlock(depths, 8))
            /\ cur_tile' = [cur_tile EXCEPT
                 !.input = Buffer(3 * units, PixelSlots, PixelStride,
                             LAMBDA u, i : IF u < 3 * n
                                           THEN VertexOutput(vertex(u), from(i).offset)
                                           ELSE Junk),
                 !.positions = [u \in 0 .. 3 * units - 1 |->
                                  IF u < 3 * n THEN assembly[vertex(u)] ELSE Junk]]
            /\ next' = 0
  /\ UNCHANGED <<call, geometry, target>>

(* A mean of three values, in whole units of what the target can show.     *)
Mix(b, val(_)) ==
  (b[1] * val(0) + b[2] * val(1) + b[3] * val(2)) \div (b[1] + b[2] + b[3])

(* spv_main of the pixel shader for one pixel: the colour and the depth.   *)
(* get_barycentrics, get_pixel_position, pixel_store_depth.                *)
PixelColor(i) ==
  LET mixed(loc) == Mix(cur_tile.pinfos[i + 1].b,
                        LAMBDA k : Fetch(cur_tile.input, PixelStride, 3 * i + k, Offset(call.ps_inputs, loc)))
  IN [value |-> mixed(call.valueLocation),
      alpha |-> IF call.opacityLocation = NoCall THEN Full ELSE mixed(call.opacityLocation)]

PixelDepth(i) == Mix(cur_tile.pinfos[i + 1].b, LAMBDA k : cur_tile.positions[3 * i + k].z)

(* One subgroup. All its lanes run, also those past the last pixel, which  *)
(* read pixel invocations of earlier tiles and calls.                      *)
shade_current_tile ==
  LET n == Len(cur_tile.pinfos)
      lane(j) == next * SubgroupSize + j - 1
      ofLane(f(_)) == [j \in 1 .. SubgroupSize |-> IF lane(j) < n THEN f(lane(j)) ELSE Junk]
  IN
  /\ pc = "shade"
  /\ IF next < Subgroups(n)
       THEN /\ cur_tile' = [cur_tile EXCEPT !.output = @ \o ofLane(PixelColor),
                                            !.depth_output = @ \o ofLane(PixelDepth)]
            /\ next' = next + 1
            /\ pc' = pc
       ELSE /\ pc' = "merge" /\ next' = 1
            /\ UNCHANGED cur_tile
  /\ UNCHANGED <<call, ts, block, geometry, target>>

-----------------------------------------------------------------------------
(* The merge.                                                              *)

(* The test is written as what makes a pixel be skipped. *)
DepthSkips(new, old) ==
  CASE call.depthCompareOp = "less" -> new > old
    [] call.depthCompareOp = "less_or_equal" -> new >= old
    [] call.depthCompareOp = "greater" -> new < old
    [] call.depthCompareOp = "greater_or_equal" -> new <= old

DepthOps == {"less", "less_or_equal", "greater", "greater_or_equal"}

(* Variant: what is there is not faded. *)
BlendedBright(dst, src) ==
  IF call.blend
    THEN [value |-> dst.value + (src.value * src.alpha) \div Full,
          alpha |-> (src.alpha * (Full - src.alpha)) \div Full]
    ELSE src

Blended(dst, src) ==
  IF call.blend
    THEN [value |-> (dst.value * (Full - src.alpha) + src.value * src.alpha) \div Full,
          alpha |-> (src.alpha * (Full - src.alpha)) \div Full]
    ELSE src

merge_pixel ==
  LET info == cur_tile.pinfos[next]
      p == <<info.x, info.y>>
      z == cur_tile.depth_output[next]
      take == taken' = [taken EXCEPT ![p] = @ \cup {info.triangle_id}] /\ pc' = pc
  IN
  \/ /\ p \notin FramePixels
     /\ UNCHANGED <<pc, target>>
  \/ /\ p \in FramePixels
     /\ call.depthTest /\ call.depthCompareOp \notin DepthOps
     /\ pc' = "trap" /\ UNCHANGED target
  \/ /\ p \in FramePixels
     /\ call.depthTest /\ call.depthCompareOp \in DepthOps /\ DepthSkips(z, depth[p])
     /\ take /\ UNCHANGED <<left, color, depth>>
  \/ /\ p \in FramePixels
     /\ call.depthTest => call.depthCompareOp \in DepthOps /\ ~DepthSkips(z, depth[p])
     /\ take
     /\ depth' = [depth EXCEPT ![p] = IF call.depthWrite THEN z ELSE @]
     /\ color' = [color EXCEPT ![p] = Blended(@, cur_tile.output[next])]
     /\ left' = left

merge_current_tile ==
  /\ pc = "merge"
  /\ \/ next <= Len(cur_tile.pinfos) /\ merge_pixel /\ next' = next + 1
     \/ next > Len(cur_tile.pinfos) /\ pc' = "end_tile" /\ UNCHANGED <<next, target>>
  /\ UNCHANGED <<call, ts, block, geometry, cur_tile>>

TileBlocks == {"pinfos", "tiles", "pixel_output", "pixel_positions", "pixel_depth", "pixel_input"}

XTiles == (Width + Tile - 1) \div Tile
YTiles == (Height + Tile - 1) \div Tile

(* Variant: a tile without pixels is left early. *)
tile_released_late == IF cur_tile.pinfos = <<>> THEN ts ELSE exit_scope(ts)

tile_released == exit_scope(ts)

(* The storage of the tile is given back; the next tile, row by row. *)
end_tile ==
  LET x == (cur_tile.x + 1) % XTiles
      y == IF x = 0 THEN cur_tile.y + 1 ELSE cur_tile.y
  IN
  /\ pc = "end_tile"
  /\ Proceed(tile_released, TRUE, IF y < YTiles THEN "begin_tile" ELSE "end_draw")
  /\ block' = [b \in DOMAIN block \ TileBlocks |-> block[b]]
  /\ cur_tile' = [NoTile EXCEPT !.x = x, !.y = y]
  /\ next' = 0
  /\ UNCHANGED <<call, geometry, target>>

end_draw ==
  /\ pc = "end_draw"
  /\ Proceed(exit_scope(ts), TRUE, "idle")
  /\ call' = NoCall /\ block' = <<>>
  /\ ia' = <<>> /\ vs' = [output |-> <<>>, positions |-> <<>>] /\ assembly' = <<>>
  /\ cur_tile' = NoTile /\ next' = 0
  /\ UNCHANGED target

Next ==
  \/ clear_attachment \/ begin_draw_indexed \/ setup_descriptors
  \/ IA_stage \/ VS_stage \/ PA_stage
  \/ begin_tile \/ rasterize_current_tile \/ setup_pixel_input_current_tile
  \/ shade_current_tile \/ merge_current_tile \/ end_tile
  \/ end_draw

Spec == Init /\ [][Next]_vars

-----------------------------------------------------------------------------
(* Properties.                                                             *)

Order == INSTANCE RasterOrder WITH drawing <- call

Stages == {"idle", "descriptors", "IA", "VS", "PA", "begin_tile", "rasterize", "setup", "shade",
           "merge", "end_tile", "end_draw", "trap"}

Values == 0 .. Full

TypeOK ==
  /\ pc \in Stages
  /\ call \in Calls \cup {NoCall}
  /\ ts \in Storages
  /\ color \in [FramePixels -> [value : Values, alpha : Values]]
  /\ depth \in [FramePixels -> Nat]
  /\ cur_tile.x \in 0 .. XTiles /\ cur_tile.y \in 0 .. YTiles
  /\ \A i \in DOMAIN cur_tile.pinfos : cur_tile.pinfos[i].triangle_id \in Nat \ {0}

(***************************************************************************)
(* Whatever tiles a draw call went through, it gives back the temporary    *)
(* storage it took, so that the next call finds all of it (enter_scope in  *)
(* begin_draw_indexed and begin_tile, exit_scope in end_tile and end_draw).*)
(***************************************************************************)
StorageGivenBack == pc = "idle" => ts = create

(* The words a stage has filled, or will read, of each block. *)
Filled(b) ==
  CASE b = "attributes" -> Cardinality(DOMAIN ia) * SlotAlign
    [] b = "vs_output" -> Cardinality(DOMAIN vs.output) * SlotAlign
    [] b = "vs_positions" -> Cardinality(DOMAIN vs.positions) * 4
    [] b = "screenspace" -> Cardinality(DOMAIN assembly) * 4
    [] b = "pinfos" -> Len(cur_tile.pinfos) * 7
    [] b = "tiles" -> cur_tile.tiles * 4
    [] b = "pixel_output" -> Len(cur_tile.output) * 4
    [] b = "pixel_depth" -> Len(cur_tile.depth_output)
    [] b = "pixel_positions" -> Cardinality(DOMAIN cur_tile.positions) * 4
    [] b = "pixel_input" -> Cardinality(DOMAIN cur_tile.input) * SlotAlign

(***************************************************************************)
(* What the stages write stays inside the blocks they were given: no two   *)
(* blocks of a call meet in a word that was filled, though subgroups run   *)
(* with lanes that no vertex or pixel is for, and alloc_page_aligned moves *)
(* the cursor by less than the block it returns. As long as a tile has no  *)
(* more pixel invocations than the calls of the instance make.             *)
(***************************************************************************)
BlocksApart ==
  pc # "trap" =>
    /\ \A a, b \in DOMAIN block : a # b =>
         \/ block[a] + Filled(a) <= block[b]
         \/ block[b] + Filled(b) <= block[a]
    /\ \A a \in DOMAIN block : block[a] + Filled(a) <= Top(ts)

(***************************************************************************)
(* A pixel shader reads, for every one of its inputs, what the vertex      *)
(* shader put out at the same location for the corners of the triangle the *)
(* pixel is of: through two layouts made by two compilations, three copies *)
(* and the index list.                                                     *)
(***************************************************************************)
PixelInputsMatch ==
  pc = "shade" =>
    \A i \in DOMAIN cur_tile.pinfos, s \in DOMAIN call.ps_inputs, c \in 0 .. 2 :
      LET loc == call.ps_inputs[s].location IN
      Fetch(cur_tile.input, PixelStride, 3 * (i - 1) + c, Offset(call.ps_inputs, loc))
        = Order!Corner(call, cur_tile.pinfos[i].triangle_id, c).attr[loc]

(* Calls whose triangles have an area: of others the weights of a pixel    *)
(* are divided by 0. And that are culled as meant: the code squares the    *)
(* sign that stands for the front face when it culls back faces, so that   *)
(* it culls the ones that turn against the clock, whichever faces those    *)
(* are.                                                                    *)
HasArea(c, k) == Order!Turn(c, k) # 0

CullsAsMeant(c) ==
  /\ c.cullMode \in {"none", "back", "front"}
  /\ c.cullMode = "back" => c.frontFace = "clockwise"

Regular(c) == CullsAsMeant(c) /\ \A k \in Order!Triangles(c) : HasArea(c, k)

(***************************************************************************)
(* The framebuffer is what RasterOrder promises: each pixel takes the      *)
(* triangles that hold its centre once, in order, with the interpolated    *)
(* depth and colour, whichever tiles and subgroups it was drawn in.        *)
(***************************************************************************)
InRasterOrder == Order!Spec
=============================================================================
