----------------------------- MODULE Rasterizer -----------------------------
(***************************************************************************)
(* The rasterizer of raster.cpp: which pixels of one 256x256 tile of the   *)
(* framebuffer a triangle has, and with what weights. It looks at the      *)
(* pixels in small tiles of 4x4, keeps those that have a pixel inside with *)
(* the values the three edge functions take at their corner, and goes over *)
(* them once more to make one pixel invocation of each pixel.              *)
(*                                                                         *)
(* Coordinates are in half pixels, relative to the tile, and arithmetic is *)
(* exact: what rounding does to the floats of the code is left out. A      *)
(* vertex is a record of x, y, z and w.                                    *)
(***************************************************************************)
EXTENDS Integers, Sequences, SequencesExt, FiniteSetsExt, Ranks

CONSTANTS
  Tile,    \* pixels along the side of a tile, 256 in the code
  Small    \* pixels along the side of a small tile, 4 in the code

ASSUME TileAssumption == Small \in Nat \ {0} /\ Tile \in Nat \ {0} /\ Tile % Small = 0

Clamp(v, low, high) == IF v < low THEN low ELSE IF v > high THEN high ELSE v

(* The first small tile whose pixels may be inside, along one axis, and    *)
(* the one after the last. The bounds are rounded to the nearest pixel     *)
(* first, halves up.                                                       *)
FirstTile(low) == ((Clamp(low, 0, 2 * Tile) + 1) \div 2) \div Small

(* Variant: the last small tile is left out when it is not full. *)
EndTileShort(high) == ((Clamp(high, 0, 2 * Tile) + 1) \div 2) \div Small

EndTile(high) == ((Clamp(high, 0, 2 * Tile) + 1) \div 2 + Small - 1) \div Small

Normal(a, b) == [x |-> a.y - b.y, y |-> b.x - a.x]

Negated(n) == [x |-> 0 - n.x, y |-> 0 - n.y]

(* The edge function through v with normal n, at the centre of a pixel. *)
Edge(v, n, px, py) == n.x * (2 * px + 1 - v.x) + n.y * (2 * py + 1 - v.y)

(* The pixels of a small tile, row by row. *)
SubPixels == [i \in 1 .. Small * Small |-> [x |-> (i - 1) % Small, y |-> (i - 1) \div Small]]

(* rasterize_triangle_tiled_1x1_256x256_defer_ref *)
Classified(v, n) ==
  LET coord(f) == {v[1][f], v[2][f], v[3][f]}
      x0 == FirstTile(Min(coord("x")))   x1 == EndTile(Max(coord("x")))
      y0 == FirstTile(Min(coord("y")))   y1 == EndTile(Max(coord("y")))
      width == x1 - x0
      inside(x, y, s) == \A i \in 1 .. 3 : Edge(v[i], n[i], x * Small + s.x, y * Small + s.y) >= 0
      classify(x, y) ==
        [x |-> x, y |-> y,
         e |-> [i \in 1 .. 3 |-> Edge(v[i], n[i], x * Small, y * Small)],
         mask |-> Kept(SubPixels, {i \in DOMAIN SubPixels : inside(x, y, SubPixels[i])})]
      all == IF width > 0 /\ y1 > y0
             THEN [i \in 1 .. width * (y1 - y0) |->
                     classify(x0 + ((i - 1) % width), y0 + ((i - 1) \div width))]
             ELSE <<>>
  IN Kept(all, {i \in DOMAIN all : all[i].mask # <<>>})

(* Positive for a triangle that turns from y towards x. *)
Area(v) ==
  (v[2].x - v[1].x) * (v[2].y + v[1].y)
  + (v[3].x - v[2].x) * (v[3].y + v[2].y)
  + (v[1].x - v[3].x) * (v[1].y + v[3].y)

(* For VK_CULL_MODE_BACK_BIT the sign is squared away. *)
CullSign(cullMode, frontFace) ==
  IF frontFace = "clockwise" /\ cullMode # "back" THEN -1 ELSE 1

Culled(cullMode, frontFace, area) ==
  cullMode # "none" /\ area * CullSign(cullMode, frontFace) > 0

(* The small tiles of the triangle, whichever way it turns. *)
TilesOf(v, n, swapped) ==
  IF swapped
    THEN Classified(<<v[3], v[2], v[1]>>, <<Negated(n[3]), Negated(n[2]), Negated(n[1])>>)
    ELSE Classified(v, n)

(* The values of the edge functions at a pixel of a small tile, stepped    *)
(* from its corner, as weights of the three vertices; <<1, 0, 0>> where    *)
(* one comes out negative.                                                 *)
EdgeWeights(n, swapped, tile, s) ==
  LET m == [i \in 1 .. 3 |-> IF swapped THEN Negated(n[i]) ELSE n[i]]
      b2 == tile.e[1] + 2 * (m[1].x * s.x + m[1].y * s.y)
      b0 == tile.e[2] + 2 * (m[2].x * s.x + m[2].y * s.y)
      b1 == tile.e[3] + 2 * (m[3].x * s.x + m[3].y * s.y)
  IN IF b0 < 0 \/ b1 < 0 \/ b2 < 0 THEN <<1, 0, 0>>
     ELSE IF swapped THEN <<b0, b2, b1>> ELSE <<b0, b1, b2>>

(* The barycentric coordinates, in perspective, times a common factor. *)
Barycentrics(v, b) ==
  <<b[1] * v[2].w * v[3].w, b[2] * v[1].w * v[3].w, b[3] * v[1].w * v[2].w>>

(* What rasterize_current_tile adds to pinfos for triangle k. *)
Invocations(k, v, tileX, tileY) ==
  LET n == <<Normal(v[1], v[2]), Normal(v[2], v[3]), Normal(v[3], v[1])>>
      swapped == Area(v) > 0
      invocation(t, s) ==
        [triangle_id |-> k,
         b |-> Barycentrics(v, EdgeWeights(n, swapped, t, s)),
         x |-> tileX * Tile + t.x * Small + s.x,
         y |-> tileY * Tile + t.y * Small + s.y,
         is_front_face |-> ~swapped]
      ofTile(t) == [j \in 1 .. Len(t.mask) |-> invocation(t, t.mask[j])]
      tiles == TilesOf(v, n, swapped)
  IN FlattenSeq([i \in 1 .. Len(tiles) |-> ofTile(tiles[i])])
=============================================================================
