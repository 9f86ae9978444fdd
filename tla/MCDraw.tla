------------------------------- MODULE MCDraw -------------------------------
(***************************************************************************)
(* Draw calls onto a framebuffer of 6x4 pixels, in tiles of 4x4 and small  *)
(* tiles of 2x2: two tiles, of which the second lies half outside. The     *)
(* triangles cover all of it, cross the border of the tiles, stick out of  *)
(* the framebuffer, pass exactly through the centres of pixels, overlap,   *)
(* meet at equal depth and turn either way.                                *)
(***************************************************************************)
EXTENDS Draw, TLC

Corner(x, y, z, w, value, opacity) ==
  [x |-> x, y |-> y, z |-> z, w |-> w, attr |-> (0 :> value) @@ (1 :> opacity)]

Flat(x, y, z, value, opacity) == Corner(x, y, z, 1, value, opacity)

(* Two triangles over the whole framebuffer. *)
Quad(z, value, opacity) ==
  [vertices |-> <<Flat(0, 0, z, value, opacity), Flat(12, 0, z, value, opacity),
                  Flat(0, 8, z, value, opacity), Flat(12, 8, z, value, opacity)>>,
   indices |-> <<0, 1, 2, 2, 1, 3>>]

(* Three of them over each other. *)
Layers == [Quad(1, 4, 2) EXCEPT !.indices = @ \o @ \o @]

(* In perspective, over the border of the tiles, with corners and edges on *)
(* the centres of pixels.                                                  *)
Leaning ==
  [vertices |-> <<Corner(3, 1, 2, 1, 0, 4), Corner(10, 3, 2, 2, 4, 4), Corner(5, 7, 2, 1, 2, 4)>>,
   indices |-> <<0, 1, 2>>]

Reversed == [Leaning EXCEPT !.indices = <<0, 2, 1>>]

(* Two triangles one after the other over the same pixels, the second one  *)
(* half outside, drawn from the middle of an index list.                   *)
Overlapping ==
  [vertices |-> <<Flat(7, 0, 1, 3, 2), Flat(12, 0, 1, 3, 2), Flat(7, 8, 1, 3, 2),
                  Flat(-5, -3, 2, 1, 3), Flat(9, 2, 2, 1, 3), Flat(2, 13, 2, 1, 3)>>,
   indices |-> <<9, 0, 1, 2, 3, 4, 5>>]

Location(loc, format) == [location |-> loc, format |-> format]

(* A position and two attributes; the outputs are not declared in order.   *)
Interfaces ==
  [vs_inputs |-> <<Location(0, "f4"), Location(2, "f1"), Location(1, "f4")>>,
   vs_outputs |-> <<Location(1, "f1"), Location(0, "f4")>>,
   ps_inputs |-> <<Location(0, "f4"), Location(1, "f1")>>,
   valueLocation |-> 0, opacityLocation |-> 1]

(* A pixel shader that reads one output of three. *)
Sparse ==
  [vs_inputs |-> <<Location(0, "f4"), Location(1, "f2"), Location(2, "f4")>>,
   vs_outputs |-> <<Location(0, "f2"), Location(1, "f4")>>,
   ps_inputs |-> <<Location(1, "f4")>>,
   valueLocation |-> 1, opacityLocation |-> NoCall]

Pipeline(cullMode, frontFace, op, depthWrite, blend) ==
  [cullMode |-> cullMode, frontFace |-> frontFace, depthTest |-> op # "off",
   depthCompareOp |-> op, depthWrite |-> depthWrite, blend |-> blend]

Opaque(op) == Pipeline("none", "clockwise", op, TRUE, FALSE)

Slot(type, bound) == [type |-> type, bound |-> bound]

Rest ==
  [firstIndex |-> 0, vertexOffset |-> 0, indexType |-> "uint32", topology |-> "triangle_list",
   subpassCount |-> 1, formats |-> (0 :> "f4") @@ (1 :> "f4") @@ (2 :> "f1"),
   sets |-> <<<<Slot("uniform", TRUE)>>, <<Slot("combined", TRUE), Slot("sampler", FALSE)>>>>]

Drawing(shape, interfaces, pipeline) ==
  [indexCount |-> Len(shape.indices)] @@ shape @@ interfaces @@ pipeline @@ Rest

DrawOverlapping(pipeline) ==
  [Drawing(Overlapping, Interfaces, pipeline) EXCEPT
     !.indexCount = 6, !.firstIndex = 1, !.indexType = "uint16",
     !.formats = (0 :> "f3") @@ (1 :> "unorm8") @@ (2 :> "f1")]

SparseFormats == (0 :> "f4") @@ (1 :> "f2") @@ (2 :> "unorm8")

(* vertexOffset and the first index cancel. *)
Shifted(c) == [c EXCEPT !.indices = [i \in DOMAIN c.indices |-> c.indices[i] + 5], !.vertexOffset = -5]

GoodCalls ==
  {Drawing(Quad(2, 3, 4), Interfaces, Opaque(op)) :
     op \in {"off", "less", "less_or_equal", "greater", "greater_or_equal"}}
  \cup {Drawing(Leaning, Interfaces, Opaque("less")),
        Shifted(Drawing(Leaning, Interfaces, Pipeline("back", "clockwise", "off", FALSE, FALSE))),
        Drawing(Leaning, Interfaces, Pipeline("front", "clockwise", "less", TRUE, FALSE)),
        Drawing(Reversed, Interfaces, Pipeline("front", "clockwise", "greater", TRUE, FALSE)),
        Drawing(Reversed, Interfaces, Pipeline("front", "counter_clockwise", "less", TRUE, FALSE)),
        Drawing(Leaning, Interfaces, Pipeline("front", "counter_clockwise", "off", TRUE, FALSE)),
        Drawing(Reversed, Interfaces, Pipeline("back", "clockwise", "less", TRUE, FALSE)),
        [Drawing(Quad(1, 2, 1), Sparse, Pipeline("none", "clockwise", "greater", FALSE, FALSE))
           EXCEPT !.formats = SparseFormats],
        Drawing(Layers, Interfaces, Pipeline("none", "clockwise", "off", TRUE, TRUE)),
        DrawOverlapping(Opaque("less")),
        DrawOverlapping(Opaque("greater_or_equal")),
        DrawOverlapping(Pipeline("none", "clockwise", "less_or_equal", FALSE, TRUE))}

(* Calls the rasterizer stops at. *)
BadCalls ==
  LET good == Drawing(Leaning, Interfaces, Opaque("less"))
      exhausted == [i \in 1 .. MaxHandles |-> Slot("sampler", FALSE)]
  IN {[good EXCEPT !.depthCompareOp = "always"],
      [good EXCEPT !.indexType = "none"],
      [good EXCEPT !.topology = "triangle_strip"],
      [good EXCEPT !.formats[2] = "f2"],
      [good EXCEPT !.ps_inputs = @ \o <<Location(3, "f4")>>],
      [good EXCEPT !.sets = <<exhausted>>],
      [good EXCEPT !.sets = <<<<Slot("uniform", FALSE)>>>>],
      [good EXCEPT !.sets = <<<<Slot("storage_image", TRUE)>>>>]}

MCCalls == GoodCalls \cup BadCalls

MCClears ==
  {[color |-> [value |-> 1, alpha |-> 4], depth |-> 3], [color |-> [value |-> 4, alpha |-> 0], depth |-> 0]}

(* What InRasterOrder is proved for. *)
ASSUME RegularCalls == \A c \in MCCalls : Regular(c)
=============================================================================
