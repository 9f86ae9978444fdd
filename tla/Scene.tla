-------------------------------- MODULE Scene -------------------------------
(***************************************************************************)
(* What a draw call says, read from the vertices themselves: the triangles *)
(* of its index list, where they lie on the framebuffer, which pixels they *)
(* hold, which of them face away. A reference to compare Draw with, in     *)
(* exact arithmetic; nothing here is translated from the rasterizer.       *)
(*                                                                         *)
(* Coordinates are in half pixels: the centre of pixel <<x, y>> is         *)
(* <<2x + 1, 2y + 1>>. A vertex has a place on the framebuffer, x and y,   *)
(* a depth z, a w, and attr, a value for each location. A call is a record *)
(* of its vertices, its indices and the state of the pipeline.             *)
(***************************************************************************)
EXTENDS Integers, Sequences, FiniteSets

CONSTANTS Width, Height   \* of the framebuffer

Pixels == (0 .. Width - 1) \X (0 .. Height - 1)

Triangles(c) == 1 .. (c.indexCount \div 3)

(* Vertex i of triangle k, i in 0 .. 2. *)
Corner(c, k, i) ==
  c.vertices[c.indices[c.firstIndex + 3 * (k - 1) + i + 1] + c.vertexOffset + 1]

Centre(p) == [x |-> 2 * p[1] + 1, y |-> 2 * p[2] + 1]

(* Twice the area of a, b, q: positive when they turn from x towards y.    *)
Cross(a, b, q) == (b.x - a.x) * (q.y - a.y) - (b.y - a.y) * (q.x - a.x)

Turn(c, k) == Cross(Corner(c, k, 0), Corner(c, k, 1), Corner(c, k, 2))

(* Three times the area of which corner i has its share at pixel p.        *)
Share(c, k, p, i) ==
  Cross(Corner(c, k, (i + 1) % 3), Corner(c, k, (i + 2) % 3), Centre(p))

SameSign(a, b) == (a >= 0 /\ b >= 0) \/ (a <= 0 /\ b <= 0)

(* The centre of p lies in triangle k or on its edge. *)
Touches(c, k, p) == \A i \in 0 .. 2 : SameSign(Share(c, k, p, i), Turn(c, k))

(* The centre of p lies in triangle k and not on its edge. *)
Inside(c, k, p) == Touches(c, k, p) /\ \A i \in 0 .. 2 : Share(c, k, p, i) # 0

FrontFacing(c, k) ==
  IF c.frontFace = "clockwise" THEN Turn(c, k) > 0 ELSE Turn(c, k) < 0

Discarded(c, k) ==
  \/ c.cullMode = "back" /\ ~FrontFacing(c, k)
  \/ c.cullMode = "front" /\ FrontFacing(c, k)

(* The mean of val(i) over the corners of k, each weighted by its share of *)
(* p over its w: the interpolation of an attribute in perspective.         *)
Interpolated(c, k, p, val(_)) ==
  LET w(i) == Corner(c, k, i).w
      weight(i) == Share(c, k, p, i) * w((i + 1) % 3) * w((i + 2) % 3)
      sum == weight(0) + weight(1) + weight(2)
      dot == weight(0) * val(0) + weight(1) * val(1) + weight(2) * val(2)
  IN IF sum > 0 THEN dot \div sum ELSE (0 - dot) \div (0 - sum)

Between(val(_)) == UNION {val(i) .. val(j) : i, j \in 0 .. 2}
=============================================================================
