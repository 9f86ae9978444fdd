-------------------------- MODULE RasterOrderProofs -------------------------
(***************************************************************************)
(* Draw implements RasterOrder: proofs, for framebuffers, tiles, subgroups *)
(* and calls of any size. From the edge functions, stepped from pixel to   *)
(* pixel, to the pixels of a triangle and what they are weighted with; from*)
(* the triangles to the fragments of a tile, and what the pixel shader     *)
(* makes of them; and from the tiles to what every pixel of the            *)
(* framebuffer has taken.                                                  *)
(***************************************************************************)
EXTENDS DrawProofs

-----------------------------------------------------------------------------
(* Edge functions.                                                         *)

(* A place, in half pixels. *)
IsPoint(a) == a.x \in Int /\ a.y \in Int

(* The centre of a pixel. *)
At(px, py) == [x |-> 2 * px + 1, y |-> 2 * py + 1]

(* The corners of a triangle, which way they turn, and the share each has  *)
(* at a place.                                                             *)
IsTriangle(v) == \A i \in 1 .. 3 : IsPoint(v[i]) /\ v[i].w \in Nat \ {0}

Turning(v) == Order!Cross(v[1], v[2], v[3])

Shares(v, q) == <<Order!Cross(v[2], v[3], q), Order!Cross(v[3], v[1], q), Order!Cross(v[1], v[2], q)>>

Holding(v, q) == \A i \in 1 .. 3 : Order!SameSign(Shares(v, q)[i], Turning(v))

HoldingInside(v, q) == Holding(v, q) /\ \A i \in 1 .. 3 : Shares(v, q)[i] # 0

(* Crossing is a number. *)
LEMMA CrossIs ==
  ASSUME NEW a, NEW b, NEW q, IsPoint(a), IsPoint(b), IsPoint(q)
  PROVE  Order!Cross(a, b, q) \in Int
BY DEF Order!Cross, IsPoint

(* The edge function of the rasterizer is twice an area. *)
LEMMA EdgeIsCross ==
  ASSUME NEW a, NEW b, IsPoint(a), IsPoint(b), NEW px \in Int, NEW py \in Int
  PROVE  /\ Edge(a, Normal(a, b), px, py) = Order!Cross(a, b, At(px, py))
         /\ Edge(a, Negated(Normal(a, b)), px, py) = 0 - Order!Cross(a, b, At(px, py))
<1>1. PICK ax \in Int, ay \in Int, bx \in Int, by \in Int : a.x = ax /\ a.y = ay /\ b.x = bx /\ b.y = by
  BY DEF IsPoint
<1>2. /\ Normal(a, b).x = ay - by /\ Normal(a, b).y = bx - ax
      /\ Negated(Normal(a, b)).x = 0 - (ay - by) /\ Negated(Normal(a, b)).y = 0 - (bx - ax)
  BY <1>1 DEF Normal, Negated
<1>3. /\ Edge(a, Normal(a, b), px, py) = (ay - by) * (2 * px + 1 - ax) + (bx - ax) * (2 * py + 1 - ay)
      /\ Edge(a, Negated(Normal(a, b)), px, py)
           = (0 - (ay - by)) * (2 * px + 1 - ax) + (0 - (bx - ax)) * (2 * py + 1 - ay)
  BY <1>1, <1>2 DEF Edge
<1>4. At(px, py).x = 2 * px + 1 /\ At(px, py).y = 2 * py + 1
  BY DEF At
<1>5. Order!Cross(a, b, At(px, py)) = (bx - ax) * (2 * py + 1 - ay) - (by - ay) * (2 * px + 1 - ax)
  BY <1>1, <1>4 DEF Order!Cross
<1>6. QED
  BY <1>3, <1>5

(* An edge function stepped from one pixel to another. *)
IsStep(px, py, sx, sy, qx, qy) ==
  px \in Int /\ py \in Int /\ sx \in Int /\ sy \in Int /\ qx = px + sx /\ qy = py + sy

(* Stepping adds the same everywhere. *)
LEMMA EdgeSteps ==
  ASSUME NEW v, NEW n, IsPoint(v), IsPoint(n), NEW px, NEW py, NEW sx, NEW sy, NEW qx, NEW qy,
         IsStep(px, py, sx, sy, qx, qy)
  PROVE  Edge(v, n, qx, qy) = Edge(v, n, px, py) + 2 * (n.x * sx + n.y * sy)
<1>1. PICK vx \in Int, vy \in Int, nx \in Int, ny \in Int : v.x = vx /\ v.y = vy /\ n.x = nx /\ n.y = ny
  BY DEF IsPoint
<1>2. px \in Int /\ py \in Int /\ sx \in Int /\ sy \in Int /\ qx = px + sx /\ qy = py + sy
  BY DEF IsStep
<1>3. nx * (2 * (px + sx) + 1 - vx) + ny * (2 * (py + sy) + 1 - vy)
        = nx * (2 * px + 1 - vx) + ny * (2 * py + 1 - vy) + 2 * (nx * sx + ny * sy)
  BY <1>2
<1>4. QED
  BY <1>1, <1>2, <1>3 DEF Edge

(* Areas do not change where a triangle is moved. *)
LEMMA CrossMoves ==
  ASSUME NEW a, NEW b, NEW q, IsPoint(a), IsPoint(b), IsPoint(q),
         NEW c, NEW d, NEW r, IsPoint(c), IsPoint(d), IsPoint(r), NEW dx \in Int, NEW dy \in Int,
         c.x = a.x - dx, d.x = b.x - dx, r.x = q.x - dx, c.y = a.y - dy, d.y = b.y - dy, r.y = q.y - dy
  PROVE  Order!Cross(c, d, r) = Order!Cross(a, b, q)
<1>1. PICK ax \in Int, ay \in Int, bx \in Int, by \in Int, qx \in Int, qy \in Int :
        a.x = ax /\ a.y = ay /\ b.x = bx /\ b.y = by /\ q.x = qx /\ q.y = qy
  BY DEF IsPoint
<1>2. ((bx - dx) - (ax - dx)) * ((qy - dy) - (ay - dy)) - ((by - dy) - (ay - dy)) * ((qx - dx) - (ax - dx))
        = (bx - ax) * (qy - ay) - (by - ay) * (qx - ax)
  OBVIOUS
<1>3. QED
  BY <1>1, <1>2 DEF Order!Cross

(* The shares make up the triangle, and its corners weighted by them its   *)
(* pixel.                                                                  *)
LEMMA SharesAre ==
  ASSUME NEW v, IsTriangle(v), NEW q, IsPoint(q)
  PROVE  LET s == Shares(v, q)
             t == Turning(v)
         IN /\ s[1] \in Int /\ s[2] \in Int /\ s[3] \in Int /\ t \in Int
            /\ s[1] + s[2] + s[3] = t
            /\ s[1] * v[1].x + s[2] * v[2].x + s[3] * v[3].x = t * q.x
            /\ s[1] * v[1].y + s[2] * v[2].y + s[3] * v[3].y = t * q.y
            /\ Area(v) = 0 - t
<1>1. PICK ax \in Int, ay \in Int, bx \in Int, by \in Int, cx \in Int, cy \in Int, qx \in Int, qy \in Int :
        /\ v[1].x = ax /\ v[1].y = ay /\ v[2].x = bx /\ v[2].y = by /\ v[3].x = cx /\ v[3].y = cy
        /\ q.x = qx /\ q.y = qy
  <2>1. IsPoint(v[1]) /\ IsPoint(v[2]) /\ IsPoint(v[3])
    BY DEF IsTriangle
  <2>2. QED
    BY <2>1 DEF IsPoint
<1> DEFINE s1 == (cx - bx) * (qy - by) - (cy - by) * (qx - bx)
           s2 == (ax - cx) * (qy - cy) - (ay - cy) * (qx - cx)
           s3 == (bx - ax) * (qy - ay) - (by - ay) * (qx - ax)
           t == (bx - ax) * (cy - ay) - (by - ay) * (cx - ax)
<1>2. Order!Cross(v[2], v[3], q) = s1 /\ Order!Cross(v[3], v[1], q) = s2 /\ Order!Cross(v[1], v[2], q) = s3
  BY <1>1 DEF Order!Cross
<1>3. Shares(v, q)[1] = s1 /\ Shares(v, q)[2] = s2 /\ Shares(v, q)[3] = s3 /\ Turning(v) = t
  BY <1>1, <1>2 DEF Shares, Turning, Order!Cross
<1>4. s1 \in Int /\ s2 \in Int /\ s3 \in Int /\ t \in Int /\ s1 + s2 + s3 = t
  OBVIOUS
<1>5. s1 * ax + s2 * bx + s3 * cx = t * qx
  OBVIOUS
<1>6. s1 * ay + s2 * by + s3 * cy = t * qy
  OBVIOUS
<1>7. (bx - ax) * (by + ay) + (cx - bx) * (cy + by) + (ax - cx) * (ay + cy) = 0 - t
  OBVIOUS
<1>8. Area(v) = (bx - ax) * (by + ay) + (cx - bx) * (cy + by) + (ax - cx) * (ay + cy)
  BY <1>1 DEF Area
<1> HIDE DEF s1, s2, s3, t
<1>9. QED
  BY <1>1, <1>3, <1>4, <1>5, <1>6, <1>7, <1>8

(* The least and the largest of three numbers bound them. *)
LEMMA ExtremesAre ==
  ASSUME NEW a \in Int, NEW b \in Int, NEW c \in Int
  PROVE  /\ Min({a, b, c}) \in Int /\ Max({a, b, c}) \in Int
         /\ Min({a, b, c}) <= a /\ Min({a, b, c}) <= b /\ Min({a, b, c}) <= c
         /\ Max({a, b, c}) >= a /\ Max({a, b, c}) >= b /\ Max({a, b, c}) >= c
<1> DEFINE S == {a, b, c}
<1>1. \E x \in S : \A y \in S : x <= y
  BY SMT
<1>2. \E x \in S : \A y \in S : x >= y
  BY SMT
<1> HIDE DEF S
<1>3. /\ Min(S) \in S /\ \A y \in S : Min(S) <= y
      /\ Max(S) \in S /\ \A y \in S : Max(S) >= y
  BY <1>1, <1>2 DEF Min, Max
<1>4. QED
  BY <1>3 DEF S

(* What is weighted by shares of one sign lies between the corners, and    *)
(* strictly so if all of them count and the corners are not all the same.  *)
IsMean(a, b, c, p, q, r, z) ==
  a > 0 /\ b > 0 /\ c > 0 /\ a * p + b * q + c * r = (a + b + c) * z

(* So it is. *)
LEMMA WeightedMean ==
  ASSUME NEW a \in Int, NEW b \in Int, NEW c \in Int, NEW p \in Int, NEW q \in Int, NEW r \in Int,
         NEW z \in Int, IsMean(a, b, c, p, q, r, z), ~(p = q /\ q = r)
  PROVE  Min({p, q, r}) < z /\ z < Max({p, q, r})
<1>0. a > 0 /\ b > 0 /\ c > 0 /\ a * p + b * q + c * r = (a + b + c) * z
  BY DEF IsMean
<1>1. ASSUME p >= z /\ q >= z /\ r >= z PROVE FALSE
  <2>1. a * (p - z) + b * (q - z) + c * (r - z) = 0
    BY <1>0
  <2>2. a * (p - z) >= 0 /\ b * (q - z) >= 0 /\ c * (r - z) >= 0
    BY <1>0, <1>1
  <2>3. a * (p - z) = 0 /\ b * (q - z) = 0 /\ c * (r - z) = 0
    <3> DEFINE i == a * (p - z)
               j == b * (q - z)
               k == c * (r - z)
    <3>1. i \in Int /\ j \in Int /\ k \in Int
      OBVIOUS
    <3>2. i >= 0 /\ j >= 0 /\ k >= 0 /\ i + j + k = 0
      BY <2>1, <2>2
    <3> HIDE DEF i, j, k
    <3>3. i = 0 /\ j = 0 /\ k = 0
      BY <3>1, <3>2
    <3>4. QED
      BY <3>3 DEF i, j, k
  <2>4. \A d, e \in Int : d > 0 /\ d * e = 0 => e = 0
    OBVIOUS
  <2>5. p - z = 0 /\ q - z = 0 /\ r - z = 0
    BY <1>0, <2>3, <2>4
  <2>6. QED
    BY <2>5
<1>2. ASSUME p <= z /\ q <= z /\ r <= z PROVE FALSE
  <2>1. a * (z - p) + b * (z - q) + c * (z - r) = 0
    BY <1>0
  <2>2. a * (z - p) >= 0 /\ b * (z - q) >= 0 /\ c * (z - r) >= 0
    BY <1>0, <1>2
  <2>3. a * (z - p) = 0 /\ b * (z - q) = 0 /\ c * (z - r) = 0
    <3> DEFINE i == a * (z - p)
               j == b * (z - q)
               k == c * (z - r)
    <3>1. i \in Int /\ j \in Int /\ k \in Int
      OBVIOUS
    <3>2. i >= 0 /\ j >= 0 /\ k >= 0 /\ i + j + k = 0
      BY <2>1, <2>2
    <3> HIDE DEF i, j, k
    <3>3. i = 0 /\ j = 0 /\ k = 0
      BY <3>1, <3>2
    <3>4. QED
      BY <3>3 DEF i, j, k
  <2>4. \A d, e \in Int : d > 0 /\ d * e = 0 => e = 0
    OBVIOUS
  <2>5. z - p = 0 /\ z - q = 0 /\ z - r = 0
    BY <1>0, <2>3, <2>4
  <2>6. QED
    BY <2>5
<1> DEFINE low == Min({p, q, r})
           high == Max({p, q, r})
<1>3. /\ low \in Int /\ high \in Int /\ low <= p /\ low <= q /\ low <= r
      /\ high >= p /\ high >= q /\ high >= r
  BY ExtremesAre
<1> HIDE DEF low, high
<1>4. (p < z \/ q < z \/ r < z) /\ (p > z \/ q > z \/ r > z)
  BY <1>1, <1>2
<1>5. low < z /\ z < high
  BY <1>3, <1>4
<1>6. QED
  BY <1>5 DEF low, high

(* Quotients of numbers in order are in order. *)
LEMMA QuotientsInOrder ==
  ASSUME NEW a \in Int, NEW b \in Int, NEW d \in Nat \ {0}, a <= b
  PROVE  a \div d \in Int /\ b \div d \in Int /\ a \div d <= b \div d
OBVIOUS

(* A number is a quotient and what is left. *)
LEMMA QuotientIs ==
  ASSUME NEW a \in Int, NEW d \in Nat \ {0}
  PROVE  /\ a \div d \in Int /\ a % d \in 0 .. d - 1
         /\ a = d * (a \div d) + (a % d)
         /\ (a + d) \div d = a \div d + 1
OBVIOUS

(* And there is no other way to divide it. *)
LEMMA QuotientOf ==
  ASSUME NEW k \in Int, NEW d \in Nat \ {0}, NEW r \in 0 .. d - 1
  PROVE  (k * d + r) \div d = k /\ (k * d + r) % d = r
OBVIOUS

(* The small tiles of a triangle are in the tile, and its pixels in them. *)
LEMMA SmallTilesInTile ==
  ASSUME NEW z \in Int
  PROVE  FirstTile(z) \in Nat /\ EndTile(z) \in Int /\ EndTile(z) <= Tile \div Small
<1>1. Small \in Nat \ {0} /\ Tile \in Nat \ {0} /\ Tile % Small = 0
  BY TileAssumption
<1> DEFINE h == (Clamp(z, 0, 2 * Tile) + 1) \div 2
<1>2. h \in Nat /\ h <= Tile
  <2>1. Clamp(z, 0, 2 * Tile) \in 0 .. 2 * Tile
    BY <1>1 DEF Clamp
  <2>2. QED
    BY <1>1, <2>1
<1> HIDE DEF h
<1>3. h \div Small \in Nat
  BY <1>1, <1>2
<1>4. (h + Small - 1) \div Small <= (Tile + (Small - 1)) \div Small /\ (h + Small - 1) \div Small \in Int
  <2>1. h + Small - 1 \in Int /\ Tile + (Small - 1) \in Int /\ h + Small - 1 <= Tile + (Small - 1)
    BY <1>1, <1>2
  <2>2. QED
    BY <1>1, <2>1, QuotientsInOrder
<1>5. (Tile + (Small - 1)) \div Small = Tile \div Small
  <2>1. Tile = (Tile \div Small) * Small /\ Tile \div Small \in Int
    BY <1>1, QuotientIs
  <2> DEFINE k == Tile \div Small
             r == Small - 1
  <2>2. k \in Int /\ r \in 0 .. Small - 1 /\ k * Small + r = Tile + (Small - 1)
    BY <1>1, <2>1
  <2> HIDE DEF k, r
  <2>3. (k * Small + r) \div Small = k
    BY <1>1, <2>2, QuotientOf
  <2>4. QED
    BY <2>2, <2>3 DEF k
<1>6. QED
  BY <1>3, <1>4, <1>5 DEF FirstTile, EndTile, h

(* The small tile of a pixel between two corners is looked at. *)
LEMMA AxisHolds ==
  ASSUME NEW low \in Int, NEW high \in Int, NEW p \in 0 .. Tile - 1, low < 2 * p + 1, 2 * p + 1 < high
  PROVE  FirstTile(low) <= p \div Small /\ p \div Small < EndTile(high)
<1>1. Small \in Nat \ {0} /\ Tile \in Nat \ {0} /\ p \in Int
  BY TileAssumption
<1> DEFINE g == (Clamp(low, 0, 2 * Tile) + 1) \div 2
           h == (Clamp(high, 0, 2 * Tile) + 1) \div 2
<1>2. g \in Int /\ g <= p
  BY <1>1 DEF Clamp
<1>3. h \in Int /\ h >= p + 1
  BY <1>1 DEF Clamp
<1> HIDE DEF g, h
<1>4. g \div Small <= p \div Small
  BY <1>1, <1>2, QuotientsInOrder
<1>5. (p + Small) \div Small <= (h + Small - 1) \div Small
  BY <1>1, <1>3, QuotientsInOrder
<1>6. (p + Small) \div Small = p \div Small + 1 /\ p \div Small \in Int
  BY <1>1, QuotientIs
<1>7. (h + Small - 1) \div Small \in Int
  BY <1>1, <1>3
<1>8. QED
  BY <1>4, <1>5, <1>6, <1>7 DEF FirstTile, EndTile, g, h

(* A triangle that has an area and holds the centre of a pixel inside has  *)
(* corners on either side of it, along both axes.                          *)
LEMMA CornersAround ==
  ASSUME NEW v, IsTriangle(v), Turning(v) # 0, NEW q, IsPoint(q), HoldingInside(v, q)
  PROVE  /\ Min({v[1].x, v[2].x, v[3].x}) < q.x /\ q.x < Max({v[1].x, v[2].x, v[3].x})
         /\ Min({v[1].y, v[2].y, v[3].y}) < q.y /\ q.y < Max({v[1].y, v[2].y, v[3].y})
<1> DEFINE s == Shares(v, q)
           t == Turning(v)
<1>1. /\ s[1] \in Int /\ s[2] \in Int /\ s[3] \in Int /\ t \in Int
      /\ s[1] + s[2] + s[3] = t
      /\ s[1] * v[1].x + s[2] * v[2].x + s[3] * v[3].x = t * q.x
      /\ s[1] * v[1].y + s[2] * v[2].y + s[3] * v[3].y = t * q.y
  BY SharesAre
<1>2. \/ s[1] > 0 /\ s[2] > 0 /\ s[3] > 0 /\ t > 0
      \/ s[1] < 0 /\ s[2] < 0 /\ s[3] < 0 /\ t < 0
  <2>1. \A i \in 1 .. 3 : Order!SameSign(s[i], t) /\ s[i] # 0
    BY DEF HoldingInside, Holding
  <2> HIDE DEF s, t
  <2>2. Order!SameSign(s[1], t) /\ Order!SameSign(s[2], t) /\ Order!SameSign(s[3], t)
    BY <2>1
  <2>3. s[1] # 0 /\ s[2] # 0 /\ s[3] # 0
    BY <2>1
  <2>4. t # 0
    BY DEF t
  <2>5. QED
    BY <1>1, <2>2, <2>3, <2>4 DEF Order!SameSign
<1> DEFINE x1 == v[1].x  x2 == v[2].x  x3 == v[3].x
           y1 == v[1].y  y2 == v[2].y  y3 == v[3].y
<1>3. x1 \in Int /\ x2 \in Int /\ x3 \in Int /\ y1 \in Int /\ y2 \in Int /\ y3 \in Int /\ q.x \in Int /\ q.y \in Int
  BY DEF IsTriangle, IsPoint
<1>4. ~(x1 = x2 /\ x2 = x3) /\ ~(y1 = y2 /\ y2 = y3)
  <2>1. t = (x2 - x1) * (y3 - y1) - (y2 - y1) * (x3 - x1)
    BY DEF Turning, Order!Cross
  <2> HIDE DEF x1, x2, x3, y1, y2, y3, t
  <2>2. x1 = x2 /\ x2 = x3 => t = 0
    BY <1>3, <2>1
  <2>3. y1 = y2 /\ y2 = y3 => t = 0
    BY <1>3, <2>1
  <2>4. QED
    BY <2>2, <2>3 DEF t
<1>5. PICK a \in Int, b \in Int, c \in Int : IsMean(a, b, c, x1, x2, x3, q.x) /\ IsMean(a, b, c, y1, y2, y3, q.y)
  <2> HIDE DEF x1, x2, x3, y1, y2, y3, t, s
  <2>0. /\ s[1] * x1 + s[2] * x2 + s[3] * x3 = t * q.x
        /\ s[1] * y1 + s[2] * y2 + s[3] * y3 = t * q.y
    BY <1>1 DEF x1, x2, x3, y1, y2, y3, t, s
  <2>1. CASE t > 0
    <3>1. s[1] > 0 /\ s[2] > 0 /\ s[3] > 0 /\ t = s[1] + s[2] + s[3]
      BY <1>1, <1>2, <2>1
    <3>2. IsMean(s[1], s[2], s[3], x1, x2, x3, q.x) /\ IsMean(s[1], s[2], s[3], y1, y2, y3, q.y)
      BY <2>0, <3>1 DEF IsMean
    <3>3. QED
      BY <1>1, <3>2
  <2>2. CASE ~(t > 0)
    <3>1. s[1] < 0 /\ s[2] < 0 /\ s[3] < 0 /\ t < 0
      BY <1>1, <1>2, <2>2
    <3> DEFINE a == 0 - s[1]  b == 0 - s[2]  c == 0 - s[3]
    <3>2. a \in Int /\ b \in Int /\ c \in Int /\ a > 0 /\ b > 0 /\ c > 0 /\ a + b + c = 0 - t
      BY <1>1, <3>1
    <3>3. a * x1 + b * x2 + c * x3 = 0 - (s[1] * x1 + s[2] * x2 + s[3] * x3) /\ (0 - t) * q.x = 0 - t * q.x
      BY <1>1, <1>3
    <3>4. a * y1 + b * y2 + c * y3 = 0 - (s[1] * y1 + s[2] * y2 + s[3] * y3) /\ (0 - t) * q.y = 0 - t * q.y
      BY <1>1, <1>3
    <3>5. a * x1 + b * x2 + c * x3 = (0 - t) * q.x /\ a * y1 + b * y2 + c * y3 = (0 - t) * q.y
      BY <2>0, <3>3, <3>4
    <3> HIDE DEF a, b, c
    <3>6. IsMean(a, b, c, x1, x2, x3, q.x) /\ IsMean(a, b, c, y1, y2, y3, q.y)
      BY <3>2, <3>5 DEF IsMean
    <3>7. QED
      BY <3>2, <3>6
  <2>3. QED
    BY <2>1, <2>2
<1> HIDE DEF x1, x2, x3, y1, y2, y3
<1>6. Min({x1, x2, x3}) < q.x /\ q.x < Max({x1, x2, x3})
  BY <1>3, <1>4, <1>5, WeightedMean
<1>7. Min({y1, y2, y3}) < q.y /\ q.y < Max({y1, y2, y3})
  BY <1>3, <1>4, <1>5, WeightedMean
<1>8. QED
  BY <1>6, <1>7 DEF x1, x2, x3, y1, y2, y3

(* No two ranks are one number's. *)
LEMMA RanksDiffer ==
  ASSUME NEW S, S \subseteq Nat, IsFiniteSet(S),
         NEW i \in 1 .. Cardinality(S), NEW j \in 1 .. Cardinality(S), Nth(S, i) = Nth(S, j)
  PROVE  i = j
<1> DEFINE n == Cardinality(S)
           nth == [k \in 1 .. n |-> Nth(S, k)]
<1>1. /\ n \in Nat /\ \A k \in 1 .. n : Nth(S, k) \in S
      /\ \A x \in S : \E k \in 1 .. n : Nth(S, k) = x
  BY RanksAre
<1>2. nth \in Surjection(1 .. n, S)
  <2>1. nth \in [1 .. n -> S]
    BY <1>1
  <2>2. \A x \in S : \E k \in 1 .. n : nth[k] = x
    BY <1>1
  <2> HIDE DEF nth
  <2>3. QED
    BY <2>1, <2>2 DEF Surjection
<1>3. IsFiniteSet(1 .. n) /\ Cardinality(1 .. n) = n
  <2>1. 1 \in Int /\ n \in Int
    BY <1>1
  <2>2. IsFiniteSet(1 .. n) /\ Cardinality(1 .. n) = IF 1 > n THEN 0 ELSE n - 1 + 1
    BY <2>1, FS_Interval
  <2>3. QED
    BY <1>1, <2>2
<1>4. nth \in Injection(1 .. n, S)
  <2> HIDE DEF nth
  <2>1. QED
    BY <1>2, <1>3, FS_Surjection
<1>5. nth[i] = nth[j] => i = j
  <2> HIDE DEF nth
  <2>1. QED
    BY <1>4 DEF Injection, IsInjective
<1>6. QED
  BY <1>5

(* What is kept of a sequence: where each element of it was. *)
Keeps(f, s, at, n, g) ==
  /\ n \in Nat /\ g \in [1 .. n -> at] /\ f = [j \in 1 .. n |-> s[g[j]]]
  /\ \A i, j \in 1 .. n : i # j => g[i] # g[j]
  /\ \A i \in at : \E j \in 1 .. n : g[j] = i

(* Kept keeps what it is to keep, each once. *)
LEMMA KeptKeeps ==
  ASSUME NEW m \in Nat, NEW at \in SUBSET (1 .. m), NEW s
  PROVE  \E n, g : Keeps(Kept(s, at), s, at, n, g)
<1>1. IsFiniteSet(1 .. m) /\ at \subseteq Nat
  BY FS_Interval
<1>2. IsFiniteSet(at)
  BY <1>1, FS_Subset
<1> DEFINE n == Cardinality(at)
           g == [j \in 1 .. n |-> Nth(at, j)]
<1>3. /\ n \in Nat /\ \A j \in 1 .. n : Nth(at, j) \in at
      /\ \A x \in at : \E j \in 1 .. n : Nth(at, j) = x
  BY <1>1, <1>2, RanksAre
<1>4. \A i, j \in 1 .. n : i # j => Nth(at, i) # Nth(at, j)
  BY <1>1, <1>2, RanksDiffer
<1> HIDE DEF n
<1>5. Kept(s, at) = [j \in 1 .. n |-> s[Nth(at, j)]]
  BY DEF Kept, n
<1>6. Keeps(Kept(s, at), s, at, n, g)
  BY <1>3, <1>4, <1>5 DEF Keeps
<1>7. QED
  BY <1>6

(* Pixels, or small tiles, no two of which are at one place. *)
Apart(s) == \A i, j \in DOMAIN s : i # j => s[i].x # s[j].x \/ s[i].y # s[j].y

(* Sequences whose elements are at different places. *)
AllApart(ss) ==
  /\ \A a \in DOMAIN ss : Apart(ss[a])
  /\ \A a, b \in DOMAIN ss : a # b =>
       \A i \in DOMAIN ss[a], j \in DOMAIN ss[b] : ss[a][i].x # ss[b][j].x \/ ss[a][i].y # ss[b][j].y

(* s has the elements of the first k sequences. *)
Joins(s, ss, k) ==
  /\ \A i \in DOMAIN s : \E a \in 1 .. k : \E j \in DOMAIN ss[a] : s[i] = ss[a][j]
  /\ \A a \in 1 .. k : \A j \in DOMAIN ss[a] : \E i \in DOMAIN s : s[i] = ss[a][j]

(* One more sequence is joined. *)
LEMMA JoinOne ==
  ASSUME NEW S, NEW ss \in Seq(Seq(S)), NEW k \in 1 .. Len(ss), k # 1, NEW s \in Seq(S),
         Joins(s, ss, k - 1), AllApart(ss) => Apart(s)
  PROVE  /\ s \o ss[k] \in Seq(S) /\ Joins(s \o ss[k], ss, k)
         /\ AllApart(ss) => Apart(s \o ss[k])
<1> DEFINE u == ss[k]
           t == s \o u
           m == Len(s)
           n == Len(u)
<1>1. /\ u \in Seq(S) /\ m \in Nat /\ n \in Nat /\ DOMAIN s = 1 .. m /\ DOMAIN u = 1 .. n
      /\ k \in Nat /\ k - 1 \in Nat /\ Len(ss) \in Nat /\ DOMAIN ss = 1 .. Len(ss)
  OBVIOUS
<1>2. /\ t \in Seq(S) /\ DOMAIN t = 1 .. m + n
      /\ \A i \in 1 .. m : t[i] = s[i]
      /\ \A i \in 1 .. n : t[m + i] = u[i]
  <2> HIDE DEF u
  <2>1. QED
    BY <1>1
<1>3. \A i \in 1 .. m + n : i \in 1 .. m \/ (i - m \in 1 .. n /\ m + (i - m) = i)
  BY <1>1
<1>4. \A i \in 1 .. m : i \in 1 .. m + n
  BY <1>1
<1>5. \A i \in 1 .. n : m + i \in 1 .. m + n
  BY <1>1
<1>6. \A a \in 1 .. k : a \in 1 .. k - 1 \/ a = k
  BY <1>1
<1>7. \A a \in 1 .. k - 1 : a \in 1 .. k /\ a \in DOMAIN ss /\ a # k
  BY <1>1
<1>8. k \in 1 .. k /\ k \in DOMAIN ss
  BY <1>1
<1> HIDE DEF t, m, n, u
<1>9. ASSUME NEW i \in DOMAIN t
      PROVE  \/ i \in DOMAIN s /\ t[i] = s[i]
             \/ i - m \in DOMAIN u /\ t[i] = u[i - m]
  BY <1>1, <1>2, <1>3
<1>10. Joins(t, ss, k)
  <2>1. ASSUME NEW i \in DOMAIN t
        PROVE  \E a \in 1 .. k : \E j \in DOMAIN ss[a] : t[i] = ss[a][j]
    <3>1. CASE i \in DOMAIN s /\ t[i] = s[i]
      BY <1>7, <3>1 DEF Joins
    <3>2. CASE i - m \in DOMAIN u /\ t[i] = u[i - m]
      BY <1>8, <3>2 DEF u
    <3>3. QED
      BY <1>9, <3>1, <3>2
  <2>2. ASSUME NEW a \in 1 .. k, NEW j \in DOMAIN ss[a]
        PROVE  \E i \in DOMAIN t : t[i] = ss[a][j]
    <3>1. CASE a = k
      <4>1. j \in 1 .. n /\ m + j \in DOMAIN t /\ t[m + j] = ss[a][j]
        BY <1>1, <1>2, <1>5, <3>1 DEF u
      <4>2. QED
        BY <4>1
    <3>2. CASE a # k
      <4>1. PICK i \in DOMAIN s : s[i] = ss[a][j]
        BY <1>6, <3>2 DEF Joins
      <4>2. i \in DOMAIN t /\ t[i] = s[i]
        BY <1>1, <1>2, <1>4, <4>1
      <4>3. QED
        BY <4>1, <4>2
    <3>3. QED
      BY <3>1, <3>2
  <2>3. QED
    BY <2>1, <2>2 DEF Joins
<1>11. ASSUME AllApart(ss) PROVE Apart(t)
  <2>1. Apart(s) /\ Apart(u)
    BY <1>8, <1>11 DEF AllApart, u
  <2>2. \A i \in DOMAIN s, j \in DOMAIN u : s[i].x # u[j].x \/ s[i].y # u[j].y
    <3>1. TAKE i \in DOMAIN s, j \in DOMAIN u
    <3>2. PICK a \in 1 .. k - 1 : \E h \in DOMAIN ss[a] : s[i] = ss[a][h]
      BY DEF Joins
    <3>3. a \in DOMAIN ss /\ a # k
      BY <1>7
    <3>4. QED
      BY <1>8, <1>11, <3>2, <3>3 DEF AllApart, u
  <2>3. SUFFICES ASSUME NEW i \in DOMAIN t, NEW j \in DOMAIN t, i # j
                 PROVE  t[i].x # t[j].x \/ t[i].y # t[j].y
    BY DEF Apart
  <2>4. i \in Int /\ j \in Int /\ i - m # j - m
    BY <1>1, <1>2, <2>3
  <2>5. CASE i \in DOMAIN s /\ t[i] = s[i] /\ j \in DOMAIN s /\ t[j] = s[j]
    BY <2>1, <2>3, <2>5 DEF Apart
  <2>6. CASE i \in DOMAIN s /\ t[i] = s[i] /\ j - m \in DOMAIN u /\ t[j] = u[j - m]
    BY <2>2, <2>6
  <2>7. CASE i - m \in DOMAIN u /\ t[i] = u[i - m] /\ j \in DOMAIN s /\ t[j] = s[j]
    BY <2>2, <2>7
  <2>8. CASE i - m \in DOMAIN u /\ t[i] = u[i - m] /\ j - m \in DOMAIN u /\ t[j] = u[j - m]
    BY <2>1, <2>4, <2>8 DEF Apart
  <2>9. QED
    BY <1>9, <2>5, <2>6, <2>7, <2>8
<1>12. QED
  BY <1>2, <1>10, <1>11 DEF t, u

(* FlattenSeq loses none of the elements and brings no two to one place.   *)
LEMMA FlattenJoins ==
  ASSUME NEW S, NEW ss \in Seq(Seq(S))
  PROVE  /\ FlattenSeq(ss) \in Seq(S) /\ Joins(FlattenSeq(ss), ss, Len(ss))
         /\ AllApart(ss) => Apart(FlattenSeq(ss))
<1>1. CASE Len(ss) = 0
  <2>1. ss = << >>
    BY <1>1
  <2>2. FlattenSeq(ss) = << >>
    BY <1>1, <2>1 DEF FlattenSeq
  <2>3. DOMAIN << >> = {} /\ << >> \in Seq(S)
    OBVIOUS
  <2>4. \A a \in 1 .. 0 : FALSE
    OBVIOUS
  <2>5. QED
    BY <1>1, <2>2, <2>3, <2>4 DEF Joins, Apart
<1>2. CASE Len(ss) # 0
  <2> DEFINE m == Len(ss)
  <2>1. m \in Nat \ {0} /\ \A i \in 1 .. m : ss[i] \in Seq(S)
    BY <1>2
  <2> DEFINE f == CHOOSE g : IsJoined(ss, m, g)
  <2>2. FlattenSeq(ss) = f[m]
    BY <1>2 DEF FlattenSeq, IsJoined
  <2> HIDE DEF m
  <2>3. IsJoined(ss, m, f)
    BY <2>1, JoinedExists
  <2> HIDE DEF f
  <2>4. \A i \in 1 .. m : f[i] = IF i = 1 THEN ss[i] ELSE f[i - 1] \o ss[i]
    BY <2>3 DEF IsJoined
  <2> DEFINE Good(i) == f[i] \in Seq(S) /\ Joins(f[i], ss, i) /\ (AllApart(ss) => Apart(f[i]))
             T == {i \in Nat : i \in 1 .. m /\ ~Good(i)}
  <2>5. T = {}
    <3>1. SUFFICES ASSUME T # {} PROVE FALSE
      OBVIOUS
    <3>2. PICK k \in T : \A l \in T : k <= l
      <4>1. T \subseteq Nat
        OBVIOUS
      <4> HIDE DEF T
      <4>2. QED
        BY <3>1, <4>1, Walks!LeastNat
    <3>3. k \in 1 .. m /\ ~Good(k) /\ k \in Nat
      OBVIOUS
    <3>4. CASE k = 1
      <4>1. f[1] = ss[1] /\ ss[1] \in Seq(S)
        BY <2>1, <2>4, <3>3, <3>4
      <4>2. \A a \in 1 .. 1 : a = 1
        OBVIOUS
      <4>3. 1 \in 1 .. 1 /\ 1 \in DOMAIN ss
        BY <2>1 DEF m
      <4>4. Good(1)
        BY <4>1, <4>2, <4>3 DEF Joins, AllApart
      <4>5. QED
        BY <3>3, <3>4, <4>4
    <3>5. CASE k # 1
      <4>1. k - 1 \in 1 .. m /\ k - 1 \in Nat /\ k - 1 \notin T
        BY <2>1, <3>2, <3>3, <3>5
      <4>2. Good(k - 1)
        BY <4>1
      <4>3. f[k] = f[k - 1] \o ss[k]
        BY <2>4, <3>3, <3>5
      <4>4. k \in 1 .. Len(ss)
        BY <3>3 DEF m
      <4>5. Good(k)
        BY <3>5, <4>2, <4>3, <4>4, JoinOne
      <4>6. QED
        BY <3>3, <4>5
    <3>6. QED
      BY <3>4, <3>5
  <2>6. m \in 1 .. m /\ m \in Nat
    BY <2>1
  <2>7. Good(m)
    BY <2>5, <2>6
  <2>8. QED
    BY <2>2, <2>7 DEF m
<1>3. QED
  BY <1>1, <1>2

-----------------------------------------------------------------------------
(* The small tiles of a triangle.                                          *)

(* What Classified says of a small tile. *)
InsideAt(v, n, x, y, s) == \A i \in 1 .. 3 : Edge(v[i], n[i], x * Small + s.x, y * Small + s.y) >= 0

IsClassified(v, n, t) ==
  /\ t.x \in 0 .. Tile \div Small - 1 /\ t.y \in 0 .. Tile \div Small - 1
  /\ \A i \in 1 .. 3 : t.e[i] = Edge(v[i], n[i], t.x * Small, t.y * Small)
  /\ t.mask = Kept(SubPixels, {i \in DOMAIN SubPixels : InsideAt(v, n, t.x, t.y, SubPixels[i])})

(* The small tiles that are looked at. *)
InBox(v, x, y) ==
  /\ FirstTile(Min({v[1].x, v[2].x, v[3].x})) <= x /\ x < EndTile(Max({v[1].x, v[2].x, v[3].x}))
  /\ FirstTile(Min({v[1].y, v[2].y, v[3].y})) <= y /\ y < EndTile(Max({v[1].y, v[2].y, v[3].y}))

(* Row by row, every small tile of a box has a turn. *)
LEMMA RowByRow ==
  ASSUME NEW w \in Nat \ {0}, NEW h \in Nat \ {0}
  PROVE  /\ w * h \in Nat
         /\ \A i \in 1 .. w * h : (i - 1) % w \in 0 .. w - 1 /\ (i - 1) \div w \in 0 .. h - 1
         /\ \A i, j \in 1 .. w * h : i # j => (i - 1) % w # (j - 1) % w \/ (i - 1) \div w # (j - 1) \div w
         /\ \A x \in 0 .. w - 1, y \in 0 .. h - 1 :
              \E i \in 1 .. w * h : (i - 1) % w = x /\ (i - 1) \div w = y
<1>1. w * h \in Nat
  OBVIOUS
<1>2. ASSUME NEW i \in 1 .. w * h
      PROVE  /\ (i - 1) % w \in 0 .. w - 1 /\ (i - 1) \div w \in 0 .. h - 1
             /\ i - 1 = w * ((i - 1) \div w) + ((i - 1) % w)
  <2>1. i - 1 \in Int /\ i - 1 >= 0 /\ i - 1 < w * h
    BY <1>1
  <2>2. /\ (i - 1) \div w \in Int /\ (i - 1) % w \in 0 .. w - 1
        /\ i - 1 = w * ((i - 1) \div w) + ((i - 1) % w)
    BY <2>1, QuotientIs
  <2> DEFINE d == (i - 1) \div w
             r == (i - 1) % w
             k == i - 1
  <2>3. d \in Int /\ r \in 0 .. w - 1 /\ k = w * d + r /\ k \in Int /\ k >= 0 /\ k < w * h
    BY <2>1, <2>2
  <2> HIDE DEF d, r, k
  <2>4. d >= 0
    <3>1. d < 0 => w * d <= 0 - w
      BY <2>3
    <3>2. QED
      BY <2>3, <3>1
  <2>5. d < h
    <3>1. d >= h => w * d >= w * h
      BY <2>3
    <3>2. QED
      BY <1>1, <2>3, <3>1
  <2>6. QED
    BY <2>2, <2>3, <2>4, <2>5 DEF d, r, k
<1>3. ASSUME NEW i \in 1 .. w * h, NEW j \in 1 .. w * h, (i - 1) % w = (j - 1) % w, (i - 1) \div w = (j - 1) \div w
      PROVE  i = j
  <2>1. i - 1 = j - 1
    BY <1>2, <1>3
  <2>2. QED
    BY <1>1, <2>1
<1>4. ASSUME NEW x \in 0 .. w - 1, NEW y \in 0 .. h - 1
      PROVE  \E i \in 1 .. w * h : (i - 1) % w = x /\ (i - 1) \div w = y
  <2>1. (y * w + x) \div w = y /\ (y * w + x) % w = x
    BY QuotientOf
  <2> DEFINE i == y * w + x + 1
  <2>2. y * w <= (h - 1) * w /\ y * w >= 0 /\ y * w \in Int /\ (h - 1) * w = w * h - w
    OBVIOUS
  <2>3. i \in 1 .. w * h /\ i - 1 = y * w + x
    BY <1>1, <2>2
  <2>4. QED
    BY <2>1, <2>3
<1>5. QED
  BY <1>1, <1>2, <1>3, <1>4

(* The small tiles of a triangle: those in the box that have a pixel       *)
(* inside.                                                                 *)
LEMMA ClassifiedHas ==
  ASSUME NEW v, NEW n, IsPoint(v[1]), IsPoint(v[2]), IsPoint(v[3])
  PROVE  LET found == Classified(v, n)
         IN /\ \E m \in Nat : found \in [1 .. m -> {t : t \in {found[i] : i \in 1 .. m}}]
            /\ \A i \in DOMAIN found : IsClassified(v, n, found[i])
            /\ Apart(found)
            /\ \A x, y \in Int :
                 InBox(v, x, y) /\ (\E i \in DOMAIN SubPixels : InsideAt(v, n, x, y, SubPixels[i]))
                   => \E i \in DOMAIN found : found[i].x = x /\ found[i].y = y
<1> DEFINE x0 == FirstTile(Min({v[1].x, v[2].x, v[3].x}))
           x1 == EndTile(Max({v[1].x, v[2].x, v[3].x}))
           y0 == FirstTile(Min({v[1].y, v[2].y, v[3].y}))
           y1 == EndTile(Max({v[1].y, v[2].y, v[3].y}))
           width == x1 - x0
           height == y1 - y0
           mask(x, y) == Kept(SubPixels, {i \in DOMAIN SubPixels : InsideAt(v, n, x, y, SubPixels[i])})
           classify(x, y) ==
             [x |-> x, y |-> y, e |-> [i \in 1 .. 3 |-> Edge(v[i], n[i], x * Small, y * Small)],
              mask |-> mask(x, y)]
           all == IF width > 0 /\ y1 > y0
                  THEN [i \in 1 .. width * height |->
                          classify(x0 + ((i - 1) % width), y0 + ((i - 1) \div width))]
                  ELSE <<>>
           at == {i \in DOMAIN all : all[i].mask # <<>>}
           found == Classified(v, n)
<1>1. found = Kept(all, at)
  BY DEF Classified, InsideAt
<1>2. /\ x0 \in Nat /\ x1 \in Int /\ x1 <= Tile \div Small
      /\ y0 \in Nat /\ y1 \in Int /\ y1 <= Tile \div Small
  <2>1. /\ v[1].x \in Int /\ v[2].x \in Int /\ v[3].x \in Int
        /\ v[1].y \in Int /\ v[2].y \in Int /\ v[3].y \in Int
    BY DEF IsPoint
  <2>2. /\ Min({v[1].x, v[2].x, v[3].x}) \in Int /\ Max({v[1].x, v[2].x, v[3].x}) \in Int
        /\ Min({v[1].y, v[2].y, v[3].y}) \in Int /\ Max({v[1].y, v[2].y, v[3].y}) \in Int
    BY <2>1, OfThree
  <2>3. QED
    BY <2>2, SmallTilesInTile
<1>3. \A x, y : InBox(v, x, y) <=> x0 <= x /\ x < x1 /\ y0 <= y /\ y < y1
  BY DEF InBox
<1>4. Tile \div Small \in Int
  BY TileAssumption
<1> HIDE DEF x0, x1, y0, y1
<1>5. \E m \in Nat :
        /\ DOMAIN all = 1 .. m
        /\ \A i \in 1 .. m : \E x, y \in 0 .. Tile \div Small - 1 : all[i] = classify(x, y)
        /\ Apart(all)
        /\ \A x, y \in Int : x0 <= x /\ x < x1 /\ y0 <= y /\ y < y1
             => \E i \in 1 .. m : all[i] = classify(x, y)
  <2> HIDE DEF mask
  <2>1. CASE width > 0 /\ height > 0
    <3>1. y1 > y0 /\ width \in Nat \ {0} /\ height \in Nat \ {0}
      BY <1>2, <2>1
    <3>2. all = [i \in 1 .. width * height |->
                   classify(x0 + ((i - 1) % width), y0 + ((i - 1) \div width))]
      BY <2>1, <3>1
    <3>3. /\ width * height \in Nat
          /\ \A i \in 1 .. width * height :
               (i - 1) % width \in 0 .. width - 1 /\ (i - 1) \div width \in 0 .. height - 1
          /\ \A i, j \in 1 .. width * height :
               i # j => (i - 1) % width # (j - 1) % width \/ (i - 1) \div width # (j - 1) \div width
          /\ \A x \in 0 .. width - 1, y \in 0 .. height - 1 :
               \E i \in 1 .. width * height : (i - 1) % width = x /\ (i - 1) \div width = y
      <4> HIDE DEF width, height
      <4>1. QED
        BY <3>1, RowByRow
    <3> DEFINE m == width * height
               col == [i \in 1 .. m |-> x0 + ((i - 1) % width)]
               row == [i \in 1 .. m |-> y0 + ((i - 1) \div width)]
    <3>4. \A i \in 1 .. m : all[i] = classify(col[i], row[i])
      <4> HIDE DEF classify, width, height, all
      <4>1. QED
        BY <3>2
    <3>5. m \in Nat /\ DOMAIN all = 1 .. m
      BY <3>2, <3>3
    <3>6. /\ \A i \in 1 .. m : /\ col[i] \in Int /\ row[i] \in Int
                             /\ x0 <= col[i] /\ col[i] < x1 /\ y0 <= row[i] /\ row[i] < y1
          /\ \A i, j \in 1 .. m : i # j => col[i] # col[j] \/ row[i] # row[j]
          /\ \A x, y \in Int : x0 <= x /\ x < x1 /\ y0 <= y /\ y < y1
               => \E i \in 1 .. m : col[i] = x /\ row[i] = y
      <4>0. width = x1 - x0 /\ height = y1 - y0
        OBVIOUS
      <4> HIDE DEF width, height, m, all
      <4>1. ASSUME NEW i \in 1 .. m
            PROVE  /\ (i - 1) % width \in 0 .. width - 1 /\ (i - 1) \div width \in 0 .. height - 1
                   /\ col[i] = x0 + ((i - 1) % width) /\ row[i] = y0 + ((i - 1) \div width)
        BY <3>3 DEF m
      <4> HIDE DEF col, row
      <4>2. \A i \in 1 .. m : /\ col[i] \in Int /\ row[i] \in Int
                             /\ x0 <= col[i] /\ col[i] < x1 /\ y0 <= row[i] /\ row[i] < y1
        BY <1>2, <4>0, <4>1
      <4>3. ASSUME NEW i \in 1 .. m, NEW j \in 1 .. m, i # j PROVE col[i] # col[j] \/ row[i] # row[j]
        <5>1. (i - 1) % width # (j - 1) % width \/ (i - 1) \div width # (j - 1) \div width
          BY <3>3, <4>3 DEF m
        <5>2. QED
          BY <1>2, <4>1, <5>1
      <4>4. ASSUME NEW x \in Int, NEW y \in Int, x0 <= x, x < x1, y0 <= y, y < y1
            PROVE  \E i \in 1 .. m : col[i] = x /\ row[i] = y
        <5>1. x - x0 \in 0 .. width - 1 /\ y - y0 \in 0 .. height - 1
          BY <1>2, <4>0, <4>4
        <5>2. PICK i \in 1 .. m : (i - 1) % width = x - x0 /\ (i - 1) \div width = y - y0
          BY <3>3, <5>1 DEF m
        <5>3. QED
          BY <1>2, <4>1, <5>2
      <4>5. QED
        BY <4>2, <4>3, <4>4
    <3> HIDE DEF m, col, row, all, width, height
    <3>7. \A i \in 1 .. m : col[i] \in 0 .. Tile \div Small - 1 /\ row[i] \in 0 .. Tile \div Small - 1
      BY <1>2, <1>4, <3>6
    <3>8. \A i \in 1 .. m : all[i].x = col[i] /\ all[i].y = row[i]
      <4>1. \A x, y : classify(x, y).x = x /\ classify(x, y).y = y
        OBVIOUS
      <4> HIDE DEF classify
      <4>2. QED
        BY <3>4, <4>1
    <3>9. Apart(all)
      BY <3>5, <3>6, <3>8 DEF Apart
    <3> HIDE DEF classify
    <3>10. \A i \in 1 .. m : \E x, y \in 0 .. Tile \div Small - 1 : all[i] = classify(x, y)
      BY <3>4, <3>7
    <3>11. \A x, y \in Int : x0 <= x /\ x < x1 /\ y0 <= y /\ y < y1
             => \E i \in 1 .. m : all[i] = classify(x, y)
      BY <3>4, <3>6
    <3>12. QED
      BY <3>5, <3>9, <3>10, <3>11
  <2>2. CASE ~(width > 0 /\ height > 0)
    <3>1. all = <<>>
      BY <1>2, <2>2
    <3> HIDE DEF all
    <3>2. DOMAIN all = 1 .. 0
      <4>1. DOMAIN <<>> = 1 .. 0
        OBVIOUS
      <4>2. QED
        BY <3>1, <4>1, Zenon
    <3>3. \A i \in 1 .. 0 : FALSE
      OBVIOUS
    <3>4. \A x, y \in Int : ~(x0 <= x /\ x < x1 /\ y0 <= y /\ y < y1)
      BY <1>2, <2>2
    <3>5. QED
      BY <3>2, <3>3, <3>4 DEF Apart
  <2>3. QED
    BY <2>1, <2>2
<1> HIDE DEF all
<1>6. PICK m \in Nat :
        /\ DOMAIN all = 1 .. m
        /\ \A i \in 1 .. m : \E x, y \in 0 .. Tile \div Small - 1 : all[i] = classify(x, y)
        /\ Apart(all)
        /\ \A x, y \in Int : x0 <= x /\ x < x1 /\ y0 <= y /\ y < y1
             => \E i \in 1 .. m : all[i] = classify(x, y)
  BY <1>5
<1>7. at \in SUBSET (1 .. m)
  BY <1>6
<1>8. PICK k, g : Keeps(found, all, at, k, g)
  <2> HIDE DEF at, found
  <2>1. QED
    BY <1>1, <1>7, KeptKeeps
<1> HIDE DEF found
<1>9. /\ k \in Nat /\ g \in [1 .. k -> at] /\ found = [j \in 1 .. k |-> all[g[j]]]
      /\ \A i, j \in 1 .. k : i # j => g[i] # g[j]
      /\ \A i \in at : \E j \in 1 .. k : g[j] = i
  <2> HIDE DEF at
  <2>1. QED
    BY <1>8 DEF Keeps
<1>10. DOMAIN found = 1 .. k /\ \A j \in 1 .. k : g[j] \in 1 .. m /\ g[j] \in at /\ found[j] = all[g[j]]
  <2> HIDE DEF at
  <2>1. QED
    BY <1>7, <1>9
<1>11. \A i \in DOMAIN found : IsClassified(v, n, found[i])
  <2>1. TAKE i \in DOMAIN found
  <2>2. PICK x \in 0 .. Tile \div Small - 1, y \in 0 .. Tile \div Small - 1 : found[i] = classify(x, y)
    <3> HIDE DEF classify, at
    <3>1. i \in 1 .. k /\ g[i] \in 1 .. m /\ found[i] = all[g[i]]
      BY <1>10
    <3>2. \E x, y \in 0 .. Tile \div Small - 1 : all[g[i]] = classify(x, y)
      BY <1>6, <3>1
    <3>3. QED
      BY <3>1, <3>2
  <2>3. QED
    BY <2>2 DEF IsClassified
<1>12. Apart(found)
  <2> HIDE DEF classify, at
  <2>1. QED
    BY <1>6, <1>9, <1>10 DEF Apart
<1>13. ASSUME NEW x \in Int, NEW y \in Int, InBox(v, x, y),
              NEW s \in DOMAIN SubPixels, InsideAt(v, n, x, y, SubPixels[s])
       PROVE  \E i \in DOMAIN found : found[i].x = x /\ found[i].y = y
  <2>1. PICK i \in 1 .. m : all[i] = classify(x, y)
    <3> HIDE DEF classify
    <3>1. QED
      BY <1>3, <1>6, <1>13
  <2>2. mask(x, y) # << >>
    <3> DEFINE in == {j \in DOMAIN SubPixels : InsideAt(v, n, x, y, SubPixels[j])}
    <3>1. Small * Small \in Nat /\ DOMAIN SubPixels = 1 .. Small * Small
      BY TileAssumption DEF SubPixels
    <3>2. in \in SUBSET (1 .. Small * Small) /\ s \in in
      BY <1>13, <3>1
    <3>3. mask(x, y) = Kept(SubPixels, in)
      OBVIOUS
    <3> HIDE DEF in, mask
    <3>4. PICK h, f : Keeps(mask(x, y), SubPixels, in, h, f)
      BY <3>1, <3>2, <3>3, KeptKeeps
    <3>5. \E j \in 1 .. h : j \in DOMAIN mask(x, y)
      BY <3>2, <3>4 DEF Keeps
    <3>6. DOMAIN << >> = {}
      OBVIOUS
    <3>7. QED
      BY <3>5, <3>6, Zenon
  <2>3. all[i].mask # << >> /\ all[i].x = x /\ all[i].y = y
    BY <2>1, <2>2
  <2>4. i \in at
    BY <1>6, <2>3
  <2>5. PICK j \in 1 .. k : g[j] = i
    <3> HIDE DEF at
    <3>1. QED
      BY <1>9, <2>4
  <2>6. QED
    BY <1>10, <2>3, <2>5
<1>14. found \in [1 .. k -> {t : t \in {found[i] : i \in 1 .. k}}]
  BY <1>9
<1>15. QED
  BY <1>9, <1>11, <1>12, <1>13, <1>14 DEF found

(* The pixels of a small tile: each of those inside once. *)
HasMask(v, n, t) ==
  /\ Len(t.mask) \in Nat /\ DOMAIN t.mask = 1 .. Len(t.mask)
  /\ \A j \in DOMAIN t.mask :
       /\ t.mask[j].x \in 0 .. Small - 1 /\ t.mask[j].y \in 0 .. Small - 1
       /\ InsideAt(v, n, t.x, t.y, t.mask[j])
  /\ Apart(t.mask)
  /\ \A x, y \in 0 .. Small - 1 :
       InsideAt(v, n, t.x, t.y, [x |-> x, y |-> y]) => \E j \in DOMAIN t.mask : t.mask[j] = [x |-> x, y |-> y]

(* Classified finds them. *)
LEMMA MaskHas ==
  ASSUME NEW v, NEW n, NEW t, IsClassified(v, n, t)
  PROVE  HasMask(v, n, t)
<1>1. Small \in Nat \ {0}
  BY TileAssumption
<1>2. /\ Small * Small \in Nat
      /\ \A i \in 1 .. Small * Small : (i - 1) % Small \in 0 .. Small - 1 /\ (i - 1) \div Small \in 0 .. Small - 1
      /\ \A i, j \in 1 .. Small * Small :
           i # j => (i - 1) % Small # (j - 1) % Small \/ (i - 1) \div Small # (j - 1) \div Small
      /\ \A x \in 0 .. Small - 1, y \in 0 .. Small - 1 :
           \E i \in 1 .. Small * Small : (i - 1) % Small = x /\ (i - 1) \div Small = y
  BY <1>1, RowByRow
<1> DEFINE all == 1 .. Small * Small
           at == {i \in DOMAIN SubPixels : InsideAt(v, n, t.x, t.y, SubPixels[i])}
           P == {SubPixels[i] : i \in DOMAIN SubPixels}
<1>3. DOMAIN SubPixels = all /\ \A i \in all : SubPixels[i] = [x |-> (i - 1) % Small, y |-> (i - 1) \div Small]
  BY DEF SubPixels
<1>4. at \in SUBSET all /\ t.mask = Kept(SubPixels, at)
  BY <1>3 DEF IsClassified
<1>5. PICK d, g : Keeps(t.mask, SubPixels, at, d, g)
  <2> DEFINE m == Small * Small
  <2>1. m \in Nat /\ at \in SUBSET (1 .. m)
    BY <1>2, <1>4
  <2> HIDE DEF at, m
  <2>2. QED
    BY <1>4, <2>1, KeptKeeps
<1>6. /\ d \in Nat /\ t.mask = [j \in 1 .. d |-> SubPixels[g[j]]]
      /\ \A j \in 1 .. d : g[j] \in at
      /\ \A i, j \in 1 .. d : i # j => g[i] # g[j]
      /\ \A i \in at : \E j \in 1 .. d : g[j] = i
  <2> HIDE DEF at
  <2>1. QED
    BY <1>5 DEF Keeps
<1>7. DOMAIN t.mask = 1 .. d /\ \A j \in 1 .. d : t.mask[j] = SubPixels[g[j]] /\ g[j] \in all
  <2> HIDE DEF at
  <2>1. QED
    BY <1>4, <1>6
<1>8. t.mask \in Seq(P) /\ Len(t.mask) = d
  <2>1. \A j \in 1 .. d : SubPixels[g[j]] \in P
    BY <1>3, <1>7
  <2> HIDE DEF P
  <2>2. t.mask \in [1 .. d -> P]
    BY <1>6, <2>1
  <2>3. QED
    BY <1>6, <2>2, TableIsSequence
<1>9. ASSUME NEW j \in 1 .. d
      PROVE  /\ t.mask[j].x \in 0 .. Small - 1 /\ t.mask[j].y \in 0 .. Small - 1
             /\ InsideAt(v, n, t.x, t.y, t.mask[j])
             /\ t.mask[j].x = (g[j] - 1) % Small /\ t.mask[j].y = (g[j] - 1) \div Small
  <2>1. t.mask[j] = SubPixels[g[j]] /\ g[j] \in all /\ InsideAt(v, n, t.x, t.y, SubPixels[g[j]])
    BY <1>6, <1>7
  <2>2. QED
    BY <1>2, <1>3, <2>1
<1>10. Apart(t.mask)
  <2>1. ASSUME NEW i \in 1 .. d, NEW j \in 1 .. d, i # j
        PROVE  t.mask[i].x # t.mask[j].x \/ t.mask[i].y # t.mask[j].y
    <3>1. g[i] # g[j] /\ g[i] \in all /\ g[j] \in all
      BY <1>6, <1>7, <2>1
    <3>2. (g[i] - 1) % Small # (g[j] - 1) % Small \/ (g[i] - 1) \div Small # (g[j] - 1) \div Small
      BY <1>2, <3>1
    <3>3. QED
      BY <1>9, <3>2
  <2>2. QED
    BY <1>7, <2>1 DEF Apart
<1>11. ASSUME NEW x \in 0 .. Small - 1, NEW y \in 0 .. Small - 1, InsideAt(v, n, t.x, t.y, [x |-> x, y |-> y])
       PROVE  \E j \in DOMAIN t.mask : t.mask[j] = [x |-> x, y |-> y]
  <2>1. PICK i \in all : (i - 1) % Small = x /\ (i - 1) \div Small = y
    BY <1>2
  <2>2. SubPixels[i] = [x |-> x, y |-> y] /\ i \in at
    BY <1>3, <1>11, <2>1
  <2>3. PICK j \in 1 .. d : g[j] = i
    BY <1>6, <2>2
  <2>4. QED
    BY <1>7, <2>2, <2>3
<1>12. QED
  BY <1>6, <1>7, <1>8, <1>9, <1>10, <1>11 DEF HasMask

(* A pixel of a small tile is one of the tile, and which small tile it is  *)
(* of can be told from where it is.                                        *)
LEMMA PixelInTile ==
  ASSUME NEW t \in 0 .. Tile \div Small - 1, NEW s \in 0 .. Small - 1
  PROVE  /\ t * Small + s \in 0 .. Tile - 1
         /\ (t * Small + s) \div Small = t /\ (t * Small + s) % Small = s
<1>1. Small \in Nat \ {0} /\ Tile \in Nat \ {0} /\ Tile % Small = 0
  BY TileAssumption
<1>2. Tile = Small * (Tile \div Small) /\ Tile \div Small \in Int
  BY <1>1, QuotientIs
<1> DEFINE c == Tile \div Small
<1>3. t \in 0 .. c - 1 /\ c \in Int /\ Tile = Small * c
  BY <1>2
<1> HIDE DEF c
<1>4. t * Small <= (c - 1) * Small /\ t * Small >= 0 /\ t * Small \in Int /\ (c - 1) * Small = Small * c - Small
  BY <1>1, <1>3
<1>5. t * Small + s \in 0 .. Tile - 1
  BY <1>1, <1>3, <1>4
<1>6. t \in Int
  BY <1>3
<1>7. QED
  BY <1>1, <1>5, <1>6, QuotientOf

(* A pixel has its small tile, and its place in there. *)
LEMMA TileOfPixel ==
  ASSUME NEW p \in 0 .. Tile - 1
  PROVE  /\ p \div Small \in 0 .. Tile \div Small - 1 /\ p % Small \in 0 .. Small - 1
         /\ p = (p \div Small) * Small + (p % Small)
<1>1. Small \in Nat \ {0} /\ Tile \in Nat \ {0} /\ Tile % Small = 0
  BY TileAssumption
<1>2. Tile = Small * (Tile \div Small) /\ Tile \div Small \in Int
  BY <1>1, QuotientIs
<1>3. p \div Small \in Int /\ p % Small \in 0 .. Small - 1 /\ p = Small * (p \div Small) + (p % Small)
  BY <1>1, QuotientIs
<1> DEFINE c == Tile \div Small
           k == p \div Small
           r == p % Small
<1>4. Tile = Small * c /\ c \in Int /\ k \in Int /\ r \in 0 .. Small - 1 /\ p = Small * k + r /\ p \in Int
  BY <1>2, <1>3
<1> HIDE DEF c, k, r
<1>5. k >= 0
  <2>1. k < 0 => Small * k <= 0 - Small
    BY <1>1, <1>4
  <2>2. QED
    BY <1>1, <1>4, <2>1
<1>6. k < c
  <2>1. k >= c => Small * k >= Small * c
    BY <1>1, <1>4
  <2>2. QED
    BY <1>1, <1>4, <2>1
<1>7. k \in 0 .. c - 1 /\ r \in 0 .. Small - 1 /\ p = k * Small + r
  BY <1>1, <1>4, <1>5, <1>6
<1>8. QED
  BY <1>7 DEF c, k, r

(* What a pixel that a triangle holds is weighted with: the shares of the  *)
(* corners in perspective or, if the triangle turns the other way,         *)
(* something that can be a weight.                                         *)
Weighted(v, q, b) ==
  LET s == Shares(v, q) IN
  IF Turning(v) > 0
    THEN b = <<s[1] * v[2].w * v[3].w, s[2] * v[1].w * v[3].w, s[3] * v[1].w * v[2].w>>
    ELSE b[1] \in Nat /\ b[2] \in Nat /\ b[3] \in Nat /\ b[1] + b[2] + b[3] > 0

Normals(v) == <<Normal(v[1], v[2]), Normal(v[2], v[3]), Normal(v[3], v[1])>>

(* The corners and normals the rasterizer goes by. *)
Turned(v, swapped) == IF swapped THEN <<v[3], v[2], v[1]>> ELSE v

TurnedNormals(v, swapped) ==
  IF swapped
    THEN <<Negated(Normals(v)[3]), Negated(Normals(v)[2]), Negated(Normals(v)[1])>>
    ELSE Normals(v)

(* The normals of the edges are places, too. *)
LEMMA NormalsArePoints ==
  ASSUME NEW v, IsTriangle(v)
  PROVE  /\ IsPoint(v[1]) /\ IsPoint(v[2]) /\ IsPoint(v[3])
         /\ IsPoint(Normals(v)[1]) /\ IsPoint(Normals(v)[2]) /\ IsPoint(Normals(v)[3])
         /\ IsPoint(Negated(Normals(v)[1])) /\ IsPoint(Negated(Normals(v)[2])) /\ IsPoint(Negated(Normals(v)[3]))
<1>1. IsPoint(v[1]) /\ IsPoint(v[2]) /\ IsPoint(v[3])
  BY DEF IsTriangle
<1>2. \A a, b : IsPoint(a) /\ IsPoint(b) => IsPoint(Normal(a, b)) /\ IsPoint(Negated(Normal(a, b)))
  BY DEF IsPoint, Normal, Negated
<1>3. QED
  BY <1>1, <1>2 DEF Normals

(* The rasterizer turns a triangle that turns the other way. *)
Swaps(v, swapped) ==
  \/ swapped /\ Turning(v) < 0
  \/ ~swapped /\ Turning(v) > 0

(* A pixel that passes the three edge functions is held by the triangle.   *)
LEMMA InsideIsHolding ==
  ASSUME NEW v, IsTriangle(v), Turning(v) # 0, NEW x \in Int, NEW y \in Int, NEW s, s.x \in Int, s.y \in Int,
         NEW swapped, Swaps(v, swapped)
  PROVE  LET q == At(x * Small + s.x, y * Small + s.y)
             in == InsideAt(Turned(v, swapped), TurnedNormals(v, swapped), x, y, s)
         IN /\ in => Holding(v, q)
            /\ HoldingInside(v, q) => in
<1> DEFINE px == x * Small + s.x
           py == y * Small + s.y
           q == At(px, py)
           n == Normals(v)
           in == InsideAt(Turned(v, swapped), TurnedNormals(v, swapped), x, y, s)
           sh == Shares(v, q)
           t == Turning(v)
<1>1. px \in Int /\ py \in Int
  BY TileAssumption
<1>2. in <=> \A i \in 1 .. 3 : Edge(Turned(v, swapped)[i], TurnedNormals(v, swapped)[i], px, py) >= 0
  BY DEF InsideAt
<1> HIDE DEF px, py
<1>3. IsPoint(q)
  BY <1>1 DEF IsPoint, At
<1>4. /\ sh[1] \in Int /\ sh[2] \in Int /\ sh[3] \in Int /\ t \in Int /\ Area(v) = 0 - t
  BY <1>3, SharesAre
<1>5. IsPoint(v[1]) /\ IsPoint(v[2]) /\ IsPoint(v[3])
  BY NormalsArePoints
<1>6. /\ Edge(v[1], n[1], px, py) = sh[3] /\ Edge(v[1], Negated(n[1]), px, py) = 0 - sh[3]
      /\ Edge(v[2], n[2], px, py) = sh[1] /\ Edge(v[2], Negated(n[2]), px, py) = 0 - sh[1]
      /\ Edge(v[3], n[3], px, py) = sh[2] /\ Edge(v[3], Negated(n[3]), px, py) = 0 - sh[2]
  BY <1>1, <1>5, EdgeIsCross DEF Normals, Shares
<1>7. \A i \in 1 .. 3 : i = 1 \/ i = 2 \/ i = 3
  OBVIOUS
<1>8. CASE swapped
  <2>1. t < 0
    BY <1>8 DEF Swaps
  <2>2. /\ Turned(v, swapped)[1] = v[3] /\ TurnedNormals(v, swapped)[1] = Negated(n[3])
        /\ Turned(v, swapped)[2] = v[2] /\ TurnedNormals(v, swapped)[2] = Negated(n[2])
        /\ Turned(v, swapped)[3] = v[1] /\ TurnedNormals(v, swapped)[3] = Negated(n[1])
    BY <1>8 DEF Turned, TurnedNormals
  <2> HIDE DEF n, sh, t, q, in
  <2>3. in <=> sh[1] <= 0 /\ sh[2] <= 0 /\ sh[3] <= 0
    <3>1. in <=> 0 - sh[2] >= 0 /\ 0 - sh[1] >= 0 /\ 0 - sh[3] >= 0
      BY <1>2, <1>6, <1>7, <2>2
    <3>2. QED
      BY <1>4, <3>1
  <2>4. Holding(v, q) <=> sh[1] <= 0 /\ sh[2] <= 0 /\ sh[3] <= 0
    <3>1. Holding(v, q) <=> \A i \in 1 .. 3 : Order!SameSign(sh[i], t)
      BY DEF Holding, sh, t
    <3>2. Holding(v, q) <=> Order!SameSign(sh[1], t) /\ Order!SameSign(sh[2], t) /\ Order!SameSign(sh[3], t)
      BY <1>7, <3>1
    <3>3. QED
      BY <1>4, <2>1, <3>2 DEF Order!SameSign
  <2>5. (in => Holding(v, q)) /\ (HoldingInside(v, q) => in)
    BY <2>3, <2>4 DEF HoldingInside
  <2>6. QED
    BY <2>5 DEF in, q, px, py
<1>9. CASE ~swapped
  <2>1. t > 0
    BY <1>9 DEF Swaps
  <2>2. \A i \in 1 .. 3 : Turned(v, swapped)[i] = v[i] /\ TurnedNormals(v, swapped)[i] = n[i]
    BY <1>9 DEF Turned, TurnedNormals
  <2> HIDE DEF n, sh, t, q, in
  <2>3. in <=> sh[1] >= 0 /\ sh[2] >= 0 /\ sh[3] >= 0
    BY <1>2, <1>6, <1>7, <2>2
  <2>4. Holding(v, q) <=> sh[1] >= 0 /\ sh[2] >= 0 /\ sh[3] >= 0
    <3>1. Holding(v, q) <=> \A i \in 1 .. 3 : Order!SameSign(sh[i], t)
      BY DEF Holding, sh, t
    <3>2. Holding(v, q) <=> Order!SameSign(sh[1], t) /\ Order!SameSign(sh[2], t) /\ Order!SameSign(sh[3], t)
      BY <1>7, <3>1
    <3>3. QED
      BY <1>4, <2>1, <3>2 DEF Order!SameSign
  <2>5. (in => Holding(v, q)) /\ (HoldingInside(v, q) => in)
    BY <2>3, <2>4 DEF HoldingInside
  <2>6. QED
    BY <2>5 DEF in, q, px, py
<1>10. QED
  BY <1>8, <1>9

(* Weights divided by the w's of the corners are weights. *)
LEMMA PerspectiveWeights ==
  ASSUME NEW a \in Nat, NEW b \in Nat, NEW c \in Nat, a + b + c > 0,
         NEW d \in Nat \ {0}, NEW e \in Nat \ {0}, NEW f \in Nat \ {0}
  PROVE  /\ a * e * f \in Nat /\ b * d * f \in Nat /\ c * d * e \in Nat
         /\ a * e * f + b * d * f + c * d * e > 0
<1>1. \A g, h \in Nat \ {0} : g * h \in Nat \ {0}
  OBVIOUS
<1>2. \A g, h \in Nat : g * h \in Nat
  OBVIOUS
<1>3. a * e * f \in Nat /\ b * d * f \in Nat /\ c * d * e \in Nat
  BY <1>2
<1>4. CASE a > 0
  <2>1. a * e * f \in Nat \ {0}
    BY <1>1, <1>4
  <2>2. QED
    BY <1>3, <2>1
<1>5. CASE b > 0
  <2>1. b * d * f \in Nat \ {0}
    BY <1>1, <1>5
  <2>2. QED
    BY <1>3, <2>1
<1>6. CASE c > 0
  <2>1. c * d * e \in Nat \ {0}
    BY <1>1, <1>6
  <2>2. QED
    BY <1>3, <2>1
<1>7. QED
  BY <1>4, <1>5, <1>6

-----------------------------------------------------------------------------
(* The weights of a pixel.                                                 *)

(* What the edge functions add up to does not depend on the pixel: the     *)
(* normals make up a closed line.                                          *)
LEMMA NormalsClose ==
  ASSUME NEW v, IsTriangle(v), NEW sx \in Int, NEW sy \in Int
  PROVE  LET m == [i \in 1 .. 3 |-> Negated(Normals(v)[i])]
             step(i) == 2 * (m[i].x * sx + m[i].y * sy)
         IN step(1) \in Int /\ step(2) \in Int /\ step(3) \in Int /\ step(1) + step(2) + step(3) = 0
<1>1. IsPoint(v[1]) /\ IsPoint(v[2]) /\ IsPoint(v[3])
  BY NormalsArePoints
<1>2. PICK ax \in Int, ay \in Int, bx \in Int, by \in Int, cx \in Int, cy \in Int :
        v[1].x = ax /\ v[1].y = ay /\ v[2].x = bx /\ v[2].y = by /\ v[3].x = cx /\ v[3].y = cy
  BY <1>1 DEF IsPoint
<1> DEFINE m == [i \in 1 .. 3 |-> Negated(Normals(v)[i])]
<1>3. /\ m[1].x = 0 - (ay - by) /\ m[1].y = 0 - (bx - ax)
      /\ m[2].x = 0 - (by - cy) /\ m[2].y = 0 - (cx - bx)
      /\ m[3].x = 0 - (cy - ay) /\ m[3].y = 0 - (ax - cx)
  BY <1>2 DEF Normals, Normal, Negated
<1> HIDE DEF m
<1>4. 2 * ((0 - (ay - by)) * sx + (0 - (bx - ax)) * sy)
        + 2 * ((0 - (by - cy)) * sx + (0 - (cx - bx)) * sy)
        + 2 * ((0 - (cy - ay)) * sx + (0 - (ax - cx)) * sy) = 0
  OBVIOUS
<1>5. /\ m[1].x * sx + m[1].y * sy \in Int /\ m[2].x * sx + m[2].y * sy \in Int
      /\ m[3].x * sx + m[3].y * sy \in Int
  BY <1>3
<1>6. QED
  BY <1>3, <1>4, <1>5 DEF m

(* The weights of a pixel of the mask: the shares of the corners, or of a  *)
(* triangle that turns the other way something that can be weights.        *)
LEMMA EdgeWeightsAre ==
  ASSUME NEW v, IsTriangle(v), NEW swapped, Swaps(v, swapped),
         NEW t, IsClassified(Turned(v, swapped), TurnedNormals(v, swapped), t),
         NEW s, s.x \in Int, s.y \in Int,
         InsideAt(Turned(v, swapped), TurnedNormals(v, swapped), t.x, t.y, s)
  PROVE  LET b == EdgeWeights(Normals(v), swapped, t, s)
             q == At(t.x * Small + s.x, t.y * Small + s.y)
         IN IF Turning(v) > 0
              THEN b = Shares(v, q) /\ Shares(v, q)[1] >= 0 /\ Shares(v, q)[2] >= 0 /\ Shares(v, q)[3] >= 0
              ELSE b[1] \in Nat /\ b[2] \in Nat /\ b[3] \in Nat /\ b[1] + b[2] + b[3] > 0
<1> DEFINE n == Normals(v)
           X == t.x * Small
           Y == t.y * Small
           q == At(X + s.x, Y + s.y)
           b == EdgeWeights(n, swapped, t, s)
           V == Turned(v, swapped)
           N == TurnedNormals(v, swapped)
<1>1. X \in Int /\ Y \in Int /\ X + s.x \in Int /\ Y + s.y \in Int
  <2>1. t.x \in Int /\ t.y \in Int /\ Small \in Int
    BY TileAssumption DEF IsClassified
  <2>2. QED
    BY <2>1
<1>2. \A i \in 1 .. 3 : t.e[i] = Edge(V[i], N[i], X, Y)
  BY DEF IsClassified
<1>3. \A i \in 1 .. 3 : Edge(V[i], N[i], X + s.x, Y + s.y) >= 0
  BY DEF InsideAt
<1> HIDE DEF X, Y
<1>4. /\ IsPoint(v[1]) /\ IsPoint(v[2]) /\ IsPoint(v[3])
      /\ IsPoint(n[1]) /\ IsPoint(n[2]) /\ IsPoint(n[3])
      /\ IsPoint(Negated(n[1])) /\ IsPoint(Negated(n[2])) /\ IsPoint(Negated(n[3]))
  BY NormalsArePoints
<1>10. IsStep(X, Y, s.x, s.y, X + s.x, Y + s.y)
  BY <1>1 DEF IsStep
<1>5. IsPoint(q) /\ IsPoint(At(X, Y))
  BY <1>1 DEF IsPoint, At
<1>6. Turning(v) \in Int
  BY <1>5, SharesAre
<1>7. CASE ~swapped /\ Turning(v) > 0
  <2>1. V = v /\ N = n
    BY <1>7 DEF Turned, TurnedNormals
  <2> DEFINE f(i) == t.e[i] + 2 * (n[i].x * s.x + n[i].y * s.y)
  <2>2. f(1) = Edge(v[1], n[1], X + s.x, Y + s.y)
    <3> HIDE DEF n
    <3>1. Edge(v[1], n[1], X + s.x, Y + s.y) = Edge(v[1], n[1], X, Y) + 2 * (n[1].x * s.x + n[1].y * s.y)
      BY <1>4, <1>10, EdgeSteps
    <3>2. t.e[1] = Edge(v[1], n[1], X, Y)
      BY <1>2, <2>1
    <3>3. QED
      BY <3>1, <3>2
  <2>3. f(2) = Edge(v[2], n[2], X + s.x, Y + s.y)
    <3> HIDE DEF n
    <3>1. Edge(v[2], n[2], X + s.x, Y + s.y) = Edge(v[2], n[2], X, Y) + 2 * (n[2].x * s.x + n[2].y * s.y)
      BY <1>4, <1>10, EdgeSteps
    <3>2. t.e[2] = Edge(v[2], n[2], X, Y)
      BY <1>2, <2>1
    <3>3. QED
      BY <3>1, <3>2
  <2>4. f(3) = Edge(v[3], n[3], X + s.x, Y + s.y)
    <3> HIDE DEF n
    <3>1. Edge(v[3], n[3], X + s.x, Y + s.y) = Edge(v[3], n[3], X, Y) + 2 * (n[3].x * s.x + n[3].y * s.y)
      BY <1>4, <1>10, EdgeSteps
    <3>2. t.e[3] = Edge(v[3], n[3], X, Y)
      BY <1>2, <2>1
    <3>3. QED
      BY <3>1, <3>2
  <2>5. f(1) = Shares(v, q)[3] /\ f(2) = Shares(v, q)[1] /\ f(3) = Shares(v, q)[2]
    BY <1>1, <1>4, <2>2, <2>3, <2>4, EdgeIsCross DEF Shares, Normals
  <2>6. f(1) >= 0 /\ f(2) >= 0 /\ f(3) >= 0
    BY <1>3, <2>1, <2>2, <2>3, <2>4
  <2>7. f(1) \in Int /\ f(2) \in Int /\ f(3) \in Int
    <3>1. Shares(v, q)[3] \in Int /\ Shares(v, q)[1] \in Int /\ Shares(v, q)[2] \in Int
      BY <1>5, SharesAre
    <3>2. QED
      BY <2>5, <3>1
  <2>8. b = IF f(2) < 0 \/ f(3) < 0 \/ f(1) < 0 THEN <<1, 0, 0>> ELSE <<f(2), f(3), f(1)>>
    BY <1>7 DEF EdgeWeights
  <2> HIDE DEF f
  <2>9. b = <<f(2), f(3), f(1)>>
    BY <2>6, <2>7, <2>8
  <2>10. b = Shares(v, q)
    BY <2>5, <2>9 DEF Shares
  <2>11. QED
    BY <1>7, <2>5, <2>6, <2>10 DEF X, Y
<1>8. CASE swapped /\ Turning(v) < 0
  <2>1. /\ V[1] = v[3] /\ V[2] = v[2] /\ V[3] = v[1]
        /\ N[1] = Negated(n[3]) /\ N[2] = Negated(n[2]) /\ N[3] = Negated(n[1])
    BY <1>8 DEF Turned, TurnedNormals
  <2> DEFINE sh == Shares(v, At(X, Y))
             m == [i \in 1 .. 3 |-> Negated(n[i])]
             step(i) == 2 * (m[i].x * s.x + m[i].y * s.y)
  <2>2. /\ Edge(v[3], Negated(n[3]), X, Y) = 0 - sh[2]
        /\ Edge(v[2], Negated(n[2]), X, Y) = 0 - sh[1]
        /\ Edge(v[1], Negated(n[1]), X, Y) = 0 - sh[3]
    BY <1>1, <1>4, EdgeIsCross DEF Shares, Normals
  <2>3. t.e[1] = 0 - sh[2] /\ t.e[2] = 0 - sh[1] /\ t.e[3] = 0 - sh[3]
    BY <1>2, <2>1, <2>2
  <2>4. /\ sh[1] \in Int /\ sh[2] \in Int /\ sh[3] \in Int /\ sh[1] + sh[2] + sh[3] = Turning(v)
    BY <1>5, SharesAre
  <2>5. step(1) \in Int /\ step(2) \in Int /\ step(3) \in Int /\ step(1) + step(2) + step(3) = 0
    BY NormalsClose
  <2> DEFINE f(i) == t.e[i] + step(i)
  <2>6. b = IF f(2) < 0 \/ f(3) < 0 \/ f(1) < 0 THEN <<1, 0, 0>> ELSE <<f(2), f(1), f(3)>>
    BY <1>8 DEF EdgeWeights
  <2> HIDE DEF step, sh
  <2>7. f(1) \in Int /\ f(2) \in Int /\ f(3) \in Int /\ f(1) + f(2) + f(3) > 0
    BY <1>6, <1>8, <2>3, <2>4, <2>5
  <2> HIDE DEF f
  <2>8. b[1] \in Nat /\ b[2] \in Nat /\ b[3] \in Nat /\ b[1] + b[2] + b[3] > 0
    <3>1. CASE f(2) < 0 \/ f(3) < 0 \/ f(1) < 0
      BY <2>6, <3>1
    <3>2. CASE ~(f(2) < 0 \/ f(3) < 0 \/ f(1) < 0)
      <4>1. b = <<f(2), f(1), f(3)>>
        BY <2>6, <3>2
      <4>2. QED
        BY <2>7, <3>2, <4>1
    <3>3. QED
      BY <3>1, <3>2
  <2>9. ~(Turning(v) > 0)
    BY <1>6, <1>8
  <2>10. QED
    BY <2>8, <2>9
<1>9. QED
  BY <1>7, <1>8 DEF Swaps

(* And, over the w's of the corners, its weights in perspective.           *)
LEMMA WeightsAre ==
  ASSUME NEW v, IsTriangle(v), NEW swapped, Swaps(v, swapped),
         NEW t, IsClassified(Turned(v, swapped), TurnedNormals(v, swapped), t),
         NEW s, s.x \in Int, s.y \in Int,
         InsideAt(Turned(v, swapped), TurnedNormals(v, swapped), t.x, t.y, s)
  PROVE  LET b == Barycentrics(v, EdgeWeights(Normals(v), swapped, t, s))
         IN /\ Weighted(v, At(t.x * Small + s.x, t.y * Small + s.y), b)
            /\ b[1] \in Nat /\ b[2] \in Nat /\ b[3] \in Nat /\ b[1] + b[2] + b[3] > 0
<1> DEFINE q == At(t.x * Small + s.x, t.y * Small + s.y)
           e == EdgeWeights(Normals(v), swapped, t, s)
           b == Barycentrics(v, e)
<1>1. IF Turning(v) > 0
        THEN e = Shares(v, q) /\ Shares(v, q)[1] >= 0 /\ Shares(v, q)[2] >= 0 /\ Shares(v, q)[3] >= 0
        ELSE e[1] \in Nat /\ e[2] \in Nat /\ e[3] \in Nat /\ e[1] + e[2] + e[3] > 0
  BY EdgeWeightsAre
<1>2. IsPoint(q)
  <2>1. t.x \in Int /\ t.y \in Int /\ Small \in Int
    BY TileAssumption DEF IsClassified
  <2>2. QED
    BY <2>1 DEF IsPoint, At
<1> HIDE DEF e, q
<1>3. /\ Shares(v, q)[1] \in Int /\ Shares(v, q)[2] \in Int /\ Shares(v, q)[3] \in Int /\ Turning(v) \in Int
      /\ Shares(v, q)[1] + Shares(v, q)[2] + Shares(v, q)[3] = Turning(v)
  BY <1>2, SharesAre
<1>4. v[1].w \in Nat \ {0} /\ v[2].w \in Nat \ {0} /\ v[3].w \in Nat \ {0}
  BY DEF IsTriangle
<1>5. b = <<e[1] * v[2].w * v[3].w, e[2] * v[1].w * v[3].w, e[3] * v[1].w * v[2].w>>
  BY DEF Barycentrics
<1>6. e[1] \in Nat /\ e[2] \in Nat /\ e[3] \in Nat /\ e[1] + e[2] + e[3] > 0
  <2>1. CASE Turning(v) > 0
    <3>1. e = Shares(v, q) /\ Shares(v, q)[1] >= 0 /\ Shares(v, q)[2] >= 0 /\ Shares(v, q)[3] >= 0
      BY <1>1, <2>1
    <3>2. QED
      BY <1>3, <2>1, <3>1
  <2>2. CASE ~(Turning(v) > 0)
    BY <1>1, <2>2
  <2>3. QED
    BY <2>1, <2>2
<1>7. b[1] \in Nat /\ b[2] \in Nat /\ b[3] \in Nat /\ b[1] + b[2] + b[3] > 0
  <2> DEFINE d1 == e[1] * v[2].w * v[3].w  d2 == e[2] * v[1].w * v[3].w  d3 == e[3] * v[1].w * v[2].w
  <2>1. d1 \in Nat /\ d2 \in Nat /\ d3 \in Nat /\ d1 + d2 + d3 > 0
    BY <1>4, <1>6, PerspectiveWeights
  <2>2. b[1] = d1 /\ b[2] = d2 /\ b[3] = d3
    BY <1>5
  <2> HIDE DEF d1, d2, d3, b
  <2>3. QED
    BY <2>1, <2>2
<1>8. Weighted(v, q, b)
  BY <1>1, <1>5, <1>7 DEF Weighted
<1>9. QED
  BY <1>7, <1>8 DEF q, e

-----------------------------------------------------------------------------
(* The pixels of a triangle.                                               *)

(* A pixel of a triangle, at its place, weighted with what it is to be     *)
(* weighted with.                                                          *)
IsFound(info, k, v, X, Y) ==
  \E px, py \in 0 .. Tile - 1 :
    /\ info.triangle_id = k
    /\ info.x = X * Tile + px /\ info.y = Y * Tile + py
    /\ Holding(v, At(px, py)) /\ Weighted(v, At(px, py), info.b)
    /\ info.b[1] \in Nat /\ info.b[2] \in Nat /\ info.b[3] \in Nat /\ info.b[1] + info.b[2] + info.b[3] > 0

(* The corners of a turned triangle are the same. *)
LEMMA TurnedBox ==
  ASSUME NEW v, NEW swapped, NEW x, NEW y
  PROVE  InBox(Turned(v, swapped), x, y) <=> InBox(v, x, y)
<1>1. \A a, b, c : {a, b, c} = {c, b, a}
  OBVIOUS
<1>2. CASE swapped
  <2>1. /\ Turned(v, swapped)[1] = v[3] /\ Turned(v, swapped)[2] = v[2] /\ Turned(v, swapped)[3] = v[1]
    BY <1>2 DEF Turned
  <2>2. /\ {v[3].x, v[2].x, v[1].x} = {v[1].x, v[2].x, v[3].x}
        /\ {v[3].y, v[2].y, v[1].y} = {v[1].y, v[2].y, v[3].y}
    BY <1>1
  <2>3. QED
    BY <2>1, <2>2, Zenon DEF InBox
<1>3. CASE ~swapped
  BY <1>3 DEF Turned
<1>4. QED
  BY <1>2, <1>3

(* A pixel inside of a triangle lies in a small tile that is looked at.    *)
LEMMA InsideInBox ==
  ASSUME NEW v, IsTriangle(v), Turning(v) # 0, NEW px \in 0 .. Tile - 1, NEW py \in 0 .. Tile - 1,
         HoldingInside(v, At(px, py))
  PROVE  InBox(v, px \div Small, py \div Small)
<1>1. Tile \in Nat
  BY TileAssumption
<1>2. IsPoint(At(px, py)) /\ At(px, py).x = 2 * px + 1 /\ At(px, py).y = 2 * py + 1
  BY <1>1 DEF IsPoint, At
<1> DEFINE xs == {v[1].x, v[2].x, v[3].x}
           ys == {v[1].y, v[2].y, v[3].y}
<1>3. Min(xs) < 2 * px + 1 /\ 2 * px + 1 < Max(xs) /\ Min(ys) < 2 * py + 1 /\ 2 * py + 1 < Max(ys)
  BY <1>2, CornersAround
<1>4. Min(xs) \in Int /\ Max(xs) \in Int /\ Min(ys) \in Int /\ Max(ys) \in Int
  <2>1. /\ v[1].x \in Int /\ v[2].x \in Int /\ v[3].x \in Int
        /\ v[1].y \in Int /\ v[2].y \in Int /\ v[3].y \in Int
    BY DEF IsTriangle, IsPoint
  <2>2. QED
    BY <2>1, ExtremesAre
<1> HIDE DEF xs, ys
<1>5. FirstTile(Min(xs)) <= px \div Small /\ px \div Small < EndTile(Max(xs))
  BY <1>3, <1>4, AxisHolds
<1>6. FirstTile(Min(ys)) <= py \div Small /\ py \div Small < EndTile(Max(ys))
  BY <1>3, <1>4, AxisHolds
<1>7. QED
  BY <1>5, <1>6 DEF InBox, xs, ys

(* Each pixel of the tile once whose centre lies inside of the triangle,   *)
(* and none whose centre lies outside.                                     *)
AreFound(found, k, v, X, Y) ==
  /\ IsSequence(found) /\ Apart(found)
  /\ \A i \in DOMAIN found : IsFound(found[i], k, v, X, Y)
  /\ \A px, py \in 0 .. Tile - 1 :
       HoldingInside(v, At(px, py))
         => \E i \in DOMAIN found : found[i].x = X * Tile + px /\ found[i].y = Y * Tile + py

(* These are what the rasterizer finds for a triangle.                     *)
LEMMA FoundAre ==
  ASSUME NEW k, NEW v, IsTriangle(v), Turning(v) # 0, NEW X \in Int, NEW Y \in Int
  PROVE  AreFound(Invocations(k, v, X, Y), k, v, X, Y)
<1> DEFINE swapped == Area(v) > 0
           n == Normals(v)
           invocation(t, s) ==
             [triangle_id |-> k,
              b |-> Barycentrics(v, EdgeWeights(n, swapped, t, s)),
              x |-> X * Tile + t.x * Small + s.x,
              y |-> Y * Tile + t.y * Small + s.y,
              is_front_face |-> ~swapped]
           ofTile(t) == [j \in 1 .. Len(t.mask) |-> invocation(t, t.mask[j])]
           tiles == TilesOf(v, n, swapped)
           found == [i \in 1 .. Len(tiles) |-> ofTile(tiles[i])]
           V == Turned(v, swapped)
           N == TurnedNormals(v, swapped)
           F == Invocations(k, v, X, Y)
<1>1. F = FlattenSeq(found)
  BY DEF Invocations, Normals
<1>2. tiles = Classified(V, N)
  BY DEF TilesOf, Turned, TurnedNormals
<1>3. Swaps(v, swapped)
  <2>1. IsPoint(At(0, 0))
    BY DEF IsPoint, At
  <2>2. Turning(v) \in Int /\ Area(v) = 0 - Turning(v)
    BY <2>1, SharesAre
  <2>3. Area(v) > 0 <=> Turning(v) < 0
    BY <2>2
  <2>4. ~(Area(v) > 0) => Turning(v) > 0
    BY <2>2
  <2>5. CASE Area(v) > 0
    BY <2>3, <2>5, Zenon DEF Swaps
  <2>6. CASE ~(Area(v) > 0)
    BY <2>4, <2>6, Zenon DEF Swaps
  <2>7. QED
    BY <2>5, <2>6
<1> HIDE DEF swapped, n
<1>4. IsPoint(v[1]) /\ IsPoint(v[2]) /\ IsPoint(v[3]) /\ IsPoint(V[1]) /\ IsPoint(V[2]) /\ IsPoint(V[3])
  BY NormalsArePoints DEF Turned
<1>5. /\ \E m \in Nat : tiles \in [1 .. m -> {t : t \in {tiles[i] : i \in 1 .. m}}]
      /\ \A i \in DOMAIN tiles : IsClassified(V, N, tiles[i])
      /\ Apart(tiles)
      /\ \A x, y \in Int :
           InBox(V, x, y) /\ (\E i \in DOMAIN SubPixels : InsideAt(V, N, x, y, SubPixels[i]))
             => \E i \in DOMAIN tiles : tiles[i].x = x /\ tiles[i].y = y
  <2> HIDE DEF tiles, V, N
  <2>1. QED
    BY <1>2, <1>4, ClassifiedHas
<1> HIDE DEF tiles, V, N
<1>6. PICK m \in Nat : DOMAIN tiles = 1 .. m /\ Len(tiles) = m
  <2>1. PICK m \in Nat : tiles \in [1 .. m -> {t : t \in {tiles[i] : i \in 1 .. m}}]
    BY <1>5
  <2>2. tiles \in Seq({t : t \in {tiles[i] : i \in 1 .. m}}) /\ Len(tiles) = m
    BY <2>1, TableIsSequence
  <2>3. QED
    BY <2>1, <2>2
<1>7. ASSUME NEW a \in 1 .. m
      PROVE  /\ tiles[a].x \in 0 .. Tile \div Small - 1 /\ tiles[a].y \in 0 .. Tile \div Small - 1
             /\ Len(tiles[a].mask) \in Nat /\ DOMAIN tiles[a].mask = 1 .. Len(tiles[a].mask)
             /\ \A j \in DOMAIN tiles[a].mask :
                  /\ tiles[a].mask[j].x \in 0 .. Small - 1 /\ tiles[a].mask[j].y \in 0 .. Small - 1
                  /\ InsideAt(V, N, tiles[a].x, tiles[a].y, tiles[a].mask[j])
             /\ Apart(tiles[a].mask)
             /\ \A x, y \in 0 .. Small - 1 :
                  InsideAt(V, N, tiles[a].x, tiles[a].y, [x |-> x, y |-> y])
                    => \E j \in DOMAIN tiles[a].mask : tiles[a].mask[j] = [x |-> x, y |-> y]
  <2> DEFINE t == tiles[a]
  <2>1. IsClassified(V, N, t)
    BY <1>5, <1>6
  <2> HIDE DEF t
  <2>2. HasMask(V, N, t)
    BY <2>1, MaskHas
  <2>3. t.x \in 0 .. Tile \div Small - 1 /\ t.y \in 0 .. Tile \div Small - 1
    BY <2>1 DEF IsClassified
  <2>4. QED
    BY <2>2, <2>3 DEF t, HasMask
<1> DEFINE S == {invocation(tiles[a], tiles[a].mask[j]) : a \in 1 .. m, j \in Nat}
           px(a, j) == tiles[a].x * Small + tiles[a].mask[j].x
           py(a, j) == tiles[a].y * Small + tiles[a].mask[j].y
<1>8. \A a \in 1 .. m : ofTile(tiles[a]) \in Seq(S)
  <2>1. TAKE a \in 1 .. m
  <2>2. Len(tiles[a].mask) \in Nat
    BY <1>7
  <2>3. \A j \in 1 .. Len(tiles[a].mask) : invocation(tiles[a], tiles[a].mask[j]) \in S
    <3> HIDE DEF invocation
    <3>1. \A j \in 1 .. Len(tiles[a].mask) : j \in Nat
      BY <2>2
    <3>2. QED
      BY <3>1
  <2> HIDE DEF S, invocation
  <2>4. ofTile(tiles[a]) \in [1 .. Len(tiles[a].mask) -> S]
    BY <2>3
  <2> HIDE DEF ofTile
  <2>5. QED
    BY <2>2, <2>4, TableIsSequence
<1>9. found \in Seq(Seq(S)) /\ Len(found) = m /\ DOMAIN found = 1 .. m
  <2> HIDE DEF S, ofTile
  <2>1. found \in [1 .. m -> Seq(S)]
    BY <1>6, <1>8
  <2> HIDE DEF found
  <2>2. QED
    BY <2>1, TableIsSequence
<1>10. ASSUME NEW a \in 1 .. m
       PROVE  /\ DOMAIN found[a] = DOMAIN tiles[a].mask
              /\ \A j \in DOMAIN tiles[a].mask :
                   LET t == tiles[a]
                       s == tiles[a].mask[j]
                   IN /\ found[a][j].triangle_id = k
                      /\ found[a][j].b = Barycentrics(v, EdgeWeights(n, swapped, t, s))
                      /\ found[a][j].x = X * Tile + t.x * Small + s.x
                      /\ found[a][j].y = Y * Tile + t.y * Small + s.y
  <2>3. \A t, s : /\ invocation(t, s).triangle_id = k
                  /\ invocation(t, s).b = Barycentrics(v, EdgeWeights(n, swapped, t, s))
                  /\ invocation(t, s).x = X * Tile + t.x * Small + s.x
                  /\ invocation(t, s).y = Y * Tile + t.y * Small + s.y
    OBVIOUS
  <2> HIDE DEF invocation, S
  <2>1. found[a] = ofTile(tiles[a]) /\ DOMAIN tiles[a].mask = 1 .. Len(tiles[a].mask)
    BY <1>6, <1>7
  <2>2. /\ DOMAIN found[a] = DOMAIN tiles[a].mask
        /\ \A j \in DOMAIN tiles[a].mask : found[a][j] = invocation(tiles[a], tiles[a].mask[j])
    BY <2>1
  <2>4. ASSUME NEW j \in DOMAIN tiles[a].mask
        PROVE  LET t == tiles[a]
                   s == tiles[a].mask[j]
               IN /\ found[a][j].triangle_id = k
                  /\ found[a][j].b = Barycentrics(v, EdgeWeights(n, swapped, t, s))
                  /\ found[a][j].x = X * Tile + t.x * Small + s.x
                  /\ found[a][j].y = Y * Tile + t.y * Small + s.y
    <3>1. found[a][j] = invocation(tiles[a], tiles[a].mask[j])
      BY <2>2
    <3> HIDE DEF found
    <3>2. QED
      BY <2>3, <3>1
  <2> HIDE DEF found
  <2>5. QED
    BY <2>2, <2>4
<1> HIDE DEF found, S, invocation, ofTile
<1>11. ASSUME NEW a \in 1 .. m, NEW j \in DOMAIN tiles[a].mask
       PROVE  /\ px(a, j) \in 0 .. Tile - 1 /\ px(a, j) \div Small = tiles[a].x
              /\ px(a, j) % Small = tiles[a].mask[j].x
              /\ py(a, j) \in 0 .. Tile - 1 /\ py(a, j) \div Small = tiles[a].y
              /\ py(a, j) % Small = tiles[a].mask[j].y
              /\ found[a][j].x = X * Tile + px(a, j) /\ found[a][j].y = Y * Tile + py(a, j)
  <2>1. /\ tiles[a].x \in 0 .. Tile \div Small - 1 /\ tiles[a].y \in 0 .. Tile \div Small - 1
        /\ tiles[a].mask[j].x \in 0 .. Small - 1 /\ tiles[a].mask[j].y \in 0 .. Small - 1
    BY <1>7
  <2>2. /\ px(a, j) \in 0 .. Tile - 1 /\ px(a, j) \div Small = tiles[a].x
        /\ px(a, j) % Small = tiles[a].mask[j].x
    BY <2>1, PixelInTile
  <2>3. /\ py(a, j) \in 0 .. Tile - 1 /\ py(a, j) \div Small = tiles[a].y
        /\ py(a, j) % Small = tiles[a].mask[j].y
    BY <2>1, PixelInTile
  <2>4. /\ found[a][j].x = X * Tile + tiles[a].x * Small + tiles[a].mask[j].x
        /\ found[a][j].y = Y * Tile + tiles[a].y * Small + tiles[a].mask[j].y
    BY <1>10
  <2>5. /\ X * Tile \in Int /\ Y * Tile \in Int /\ tiles[a].x * Small \in Int /\ tiles[a].y * Small \in Int
        /\ tiles[a].mask[j].x \in Int /\ tiles[a].mask[j].y \in Int
    BY <2>1, TileAssumption
  <2>6. \A d, e, f \in Int : d + e + f = d + (e + f)
    OBVIOUS
  <2>7. QED
    BY <2>2, <2>3, <2>4, <2>5, <2>6
<1>12. AllApart(found)
  <2>1. ASSUME NEW a \in 1 .. m, NEW i \in DOMAIN tiles[a].mask, NEW b \in 1 .. m, NEW j \in DOMAIN tiles[b].mask,
               found[a][i].x = found[b][j].x, found[a][i].y = found[b][j].y
        PROVE  a = b /\ i = j
    <3>1. /\ px(a, i) \in Int /\ px(b, j) \in Int /\ py(a, i) \in Int /\ py(b, j) \in Int
          /\ X * Tile + px(a, i) = X * Tile + px(b, j) /\ Y * Tile + py(a, i) = Y * Tile + py(b, j)
      BY <1>11, <2>1
    <3>2. X * Tile \in Int /\ Y * Tile \in Int
      BY TileAssumption
    <3>3. \A c, d, e \in Int : c + d = c + e => d = e
      OBVIOUS
    <3>4. px(a, i) = px(b, j) /\ py(a, i) = py(b, j)
      <4> HIDE DEF px, py
      <4>1. QED
        BY <3>1, <3>2, <3>3
    <3>5. tiles[a].x = tiles[b].x /\ tiles[a].y = tiles[b].y
      <4> HIDE DEF px, py
      <4>1. QED
        BY <1>11, <3>4
    <3>6. a = b
      BY <1>5, <1>6, <3>5 DEF Apart
    <3>7. tiles[a].mask[i].x = tiles[a].mask[j].x /\ tiles[a].mask[i].y = tiles[a].mask[j].y
      <4> HIDE DEF px, py
      <4>1. QED
        BY <1>11, <3>4, <3>6
    <3>8. i = j
      BY <1>7, <3>6, <3>7 DEF Apart
    <3>9. QED
      BY <3>6, <3>8
  <2>2. ASSUME NEW a \in 1 .. m PROVE Apart(found[a])
    <3>1. ASSUME NEW i \in DOMAIN found[a], NEW j \in DOMAIN found[a], i # j,
                 ~(found[a][i].x # found[a][j].x \/ found[a][i].y # found[a][j].y)
          PROVE  FALSE
      BY <1>10, <2>1, <3>1
    <3>2. QED
      BY <3>1 DEF Apart
  <2>3. ASSUME NEW a \in 1 .. m, NEW b \in 1 .. m, a # b, NEW i \in DOMAIN found[a], NEW j \in DOMAIN found[b]
        PROVE  found[a][i].x # found[b][j].x \/ found[a][i].y # found[b][j].y
    BY <1>10, <2>1, <2>3
  <2> HIDE DEF px, py
  <2>4. \A a, b \in 1 .. m : a # b =>
          \A i \in DOMAIN found[a], j \in DOMAIN found[b] :
            found[a][i].x # found[b][j].x \/ found[a][i].y # found[b][j].y
    BY <2>3
  <2>5. \A a \in 1 .. m : Apart(found[a])
    BY <2>2
  <2>6. QED
    <3>1. \A a \in DOMAIN found : Apart(found[a])
      BY <1>9, <2>5
    <3>2. \A a, b \in DOMAIN found : a # b =>
            \A i \in DOMAIN found[a], j \in DOMAIN found[b] :
              found[a][i].x # found[b][j].x \/ found[a][i].y # found[b][j].y
      <4>1. \A a \in DOMAIN found : a \in 1 .. m
        BY <1>9
      <4>2. ASSUME NEW a \in DOMAIN found, NEW b \in DOMAIN found, a # b,
                   NEW i \in DOMAIN found[a], NEW j \in DOMAIN found[b]
            PROVE  found[a][i].x # found[b][j].x \/ found[a][i].y # found[b][j].y
        BY <2>3, <4>1, <4>2
      <4>3. QED
        BY <4>2
    <3>3. QED
      BY <3>1, <3>2 DEF AllApart
<1>13. F \in Seq(S) /\ Joins(F, found, m) /\ Apart(F)
  BY <1>1, <1>9, <1>12, FlattenJoins
<1> HIDE DEF F, invocation
<1>14. ASSUME NEW a \in 1 .. m, NEW j \in DOMAIN tiles[a].mask
       PROVE  IsFound(found[a][j], k, v, X, Y)
  <2> DEFINE t == tiles[a]
             s == tiles[a].mask[j]
             b == found[a][j].b
             q == At(px(a, j), py(a, j))
  <2>1. IsClassified(Turned(v, swapped), TurnedNormals(v, swapped), t)
    BY <1>5, <1>6 DEF V, N
  <2>2. s.x \in Int /\ s.y \in Int /\ t.x \in Int /\ t.y \in Int
    BY <1>7
  <2>3. InsideAt(Turned(v, swapped), TurnedNormals(v, swapped), t.x, t.y, s)
    BY <1>7 DEF V, N
  <2>4. b = Barycentrics(v, EdgeWeights(Normals(v), swapped, t, s)) /\ found[a][j].triangle_id = k
    BY <1>10 DEF n
  <2>5. Weighted(v, At(t.x * Small + s.x, t.y * Small + s.y), Barycentrics(v, EdgeWeights(Normals(v), swapped, t, s)))
    <3> HIDE DEF t, s
    <3>1. QED
      BY <1>3, <2>1, <2>2, <2>3, WeightsAre
  <2>6. b[1] \in Nat /\ b[2] \in Nat /\ b[3] \in Nat /\ b[1] + b[2] + b[3] > 0
    <3> HIDE DEF t, s, b
    <3>1. QED
      BY <1>3, <2>1, <2>2, <2>3, <2>4, WeightsAre
  <2>7. Holding(v, At(t.x * Small + s.x, t.y * Small + s.y))
    <3> HIDE DEF t, s
    <3>1. QED
      BY <1>3, <2>2, <2>3, InsideIsHolding
  <2>8. Weighted(v, q, b) /\ Holding(v, q)
    BY <2>4, <2>5, <2>7
  <2>9. /\ px(a, j) \in 0 .. Tile - 1 /\ py(a, j) \in 0 .. Tile - 1
        /\ found[a][j].x = X * Tile + px(a, j) /\ found[a][j].y = Y * Tile + py(a, j)
    BY <1>11
  <2> HIDE DEF px, py
  <2>10. QED
    BY <2>4, <2>6, <2>8, <2>9 DEF IsFound
<1>15. \A i \in DOMAIN F : IsFound(F[i], k, v, X, Y)
  <2>1. TAKE i \in DOMAIN F
  <2>2. PICK a \in 1 .. m : \E j \in DOMAIN found[a] : F[i] = found[a][j]
    BY <1>13 DEF Joins
  <2>3. QED
    BY <1>10, <1>14, <2>2
<1>16. ASSUME NEW x \in 0 .. Tile - 1, NEW y \in 0 .. Tile - 1, HoldingInside(v, At(x, y))
       PROVE  \E i \in DOMAIN F : F[i].x = X * Tile + x /\ F[i].y = Y * Tile + y
  <2> DEFINE tx == x \div Small  ty == y \div Small  sx == x % Small  sy == y % Small
             s == [x |-> sx, y |-> sy]
  <2>1. /\ tx \in 0 .. Tile \div Small - 1 /\ sx \in 0 .. Small - 1 /\ x = tx * Small + sx
        /\ ty \in 0 .. Tile \div Small - 1 /\ sy \in 0 .. Small - 1 /\ y = ty * Small + sy
    BY TileOfPixel
  <2>2. InBox(V, tx, ty)
    BY <1>16, InsideInBox, TurnedBox DEF V
  <2> HIDE DEF tx, ty, sx, sy
  <2>3. tx \in Int /\ ty \in Int /\ sx \in Int /\ sy \in Int
    BY <2>1, TileAssumption
  <2>4. s.x = sx /\ s.y = sy
    OBVIOUS
  <2>5. InsideAt(V, N, tx, ty, s)
    <3> HIDE DEF s
    <3>1. At(tx * Small + s.x, ty * Small + s.y) = At(x, y)
      BY <2>1, <2>4
    <3>2. QED
      BY <1>3, <1>16, <2>3, <2>4, <3>1, InsideIsHolding DEF V, N
  <2>6. \E i \in DOMAIN SubPixels : InsideAt(V, N, tx, ty, SubPixels[i])
    <3>1. Small \in Nat \ {0}
      BY TileAssumption
    <3>2. PICK i \in 1 .. Small * Small : (i - 1) % Small = sx /\ (i - 1) \div Small = sy
      BY <2>1, <3>1, RowByRow
    <3>3. i \in DOMAIN SubPixels /\ SubPixels[i] = s
      BY <3>2 DEF SubPixels
    <3>4. QED
      BY <2>5, <3>3
  <2>7. PICK a \in 1 .. m : tiles[a].x = tx /\ tiles[a].y = ty
    <3> HIDE DEF s, px, py
    <3>1. \E i \in DOMAIN tiles : tiles[i].x = tx /\ tiles[i].y = ty
      BY <1>5, <2>2, <2>3, <2>6
    <3>2. QED
      BY <1>6, <3>1
  <2>8. PICK j \in DOMAIN tiles[a].mask : tiles[a].mask[j] = s
    BY <1>7, <2>1, <2>5, <2>7
  <2>9. px(a, j) = x /\ py(a, j) = y
    BY <2>1, <2>4, <2>7, <2>8
  <2>10. found[a][j].x = X * Tile + x /\ found[a][j].y = Y * Tile + y
    BY <1>11, <2>9
  <2>11. PICK i \in DOMAIN F : F[i] = found[a][j]
    BY <1>10, <1>13 DEF Joins
  <2>12. QED
    BY <2>10, <2>11
<1>17. AreFound(F, k, v, X, Y)
  BY <1>13, <1>15, <1>16 DEF AreFound, IsSequence
<1>18. QED
  BY <1>17 DEF F

-----------------------------------------------------------------------------
(* What RasterOrder says of the same triangle.                             *)

(* The pixels of tile <<X, Y>>. *)
PixelOf(X, Y, px, py) == <<X * Tile + px, Y * Tile + py>>

(* The corners of triangle k relative to tile <<X, Y>>. *)
IsMoved(v, c, k, X, Y) ==
  \A i \in 0 .. 2 :
    LET u == Order!Corner(c, k, i) IN
    /\ IsPoint(u) /\ u.w \in Nat \ {0}
    /\ v[i + 1].x = u.x - 2 * Tile * X /\ v[i + 1].y = u.y - 2 * Tile * Y /\ v[i + 1].w = u.w

(* In a tile a triangle has the shares and the turn it has on the          *)
(* framebuffer.                                                            *)
LEMMA MovedTriangle ==
  ASSUME NEW c, NEW k, NEW X \in Int, NEW Y \in Int, NEW v, IsMoved(v, c, k, X, Y)
  PROVE  /\ IsTriangle(v) /\ Turning(v) = Order!Turn(c, k) /\ Turning(v) \in Int
         /\ Area(v) = 0 - Order!Turn(c, k)
         /\ \A px, py \in Int, i \in 0 .. 2 :
              Order!Share(c, k, PixelOf(X, Y, px, py), i) = Shares(v, At(px, py))[i + 1]
<1> DEFINE u0 == Order!Corner(c, k, 0)
           u1 == Order!Corner(c, k, 1)
           u2 == Order!Corner(c, k, 2)
           dx == 2 * Tile * X
           dy == 2 * Tile * Y
<1>1. dx \in Int /\ dy \in Int /\ Tile \in Int
  BY TileAssumption
<1>2. /\ IsPoint(u0) /\ IsPoint(u1) /\ IsPoint(u2)
      /\ u0.w \in Nat \ {0} /\ u1.w \in Nat \ {0} /\ u2.w \in Nat \ {0}
      /\ v[1].x = u0.x - dx /\ v[1].y = u0.y - dy /\ v[1].w = u0.w
      /\ v[2].x = u1.x - dx /\ v[2].y = u1.y - dy /\ v[2].w = u1.w
      /\ v[3].x = u2.x - dx /\ v[3].y = u2.y - dy /\ v[3].w = u2.w
  <2>1. 0 \in 0 .. 2 /\ 1 \in 0 .. 2 /\ 2 \in 0 .. 2 /\ 0 + 1 = 1 /\ 1 + 1 = 2 /\ 2 + 1 = 3
    OBVIOUS
  <2> HIDE DEF dx, dy
  <2>2. /\ IsPoint(u0) /\ u0.w \in Nat \ {0}
        /\ v[0 + 1].x = u0.x - dx /\ v[0 + 1].y = u0.y - dy /\ v[0 + 1].w = u0.w
    BY <2>1 DEF IsMoved, dx, dy
  <2>3. /\ IsPoint(u1) /\ u1.w \in Nat \ {0}
        /\ v[1 + 1].x = u1.x - dx /\ v[1 + 1].y = u1.y - dy /\ v[1 + 1].w = u1.w
    BY <2>1 DEF IsMoved, dx, dy
  <2>4. /\ IsPoint(u2) /\ u2.w \in Nat \ {0}
        /\ v[2 + 1].x = u2.x - dx /\ v[2 + 1].y = u2.y - dy /\ v[2 + 1].w = u2.w
    BY <2>1 DEF IsMoved, dx, dy
  <2>5. QED
    BY <2>1, <2>2, <2>3, <2>4
<1>3. (0 + 1) % 3 = 1 /\ (0 + 2) % 3 = 2 /\ (1 + 1) % 3 = 2 /\ (1 + 2) % 3 = 0 /\ (2 + 1) % 3 = 0 /\ (2 + 2) % 3 = 1
  OBVIOUS
<1>4. \A q : /\ Order!Share(c, k, q, 0) = Order!Cross(u1, u2, Order!Centre(q))
             /\ Order!Share(c, k, q, 1) = Order!Cross(u2, u0, Order!Centre(q))
             /\ Order!Share(c, k, q, 2) = Order!Cross(u0, u1, Order!Centre(q))
  BY <1>3 DEF Order!Share
<1>5. Order!Turn(c, k) = Order!Cross(u0, u1, u2)
  BY DEF Order!Turn
<1> HIDE DEF dx, dy, u0, u1, u2
<1>6. IsPoint(v[1]) /\ IsPoint(v[2]) /\ IsPoint(v[3])
  BY <1>1, <1>2 DEF IsPoint
<1>7. IsTriangle(v)
  <2>1. v[1].w \in Nat \ {0} /\ v[2].w \in Nat \ {0} /\ v[3].w \in Nat \ {0}
    BY <1>2
  <2>2. \A i \in 1 .. 3 : i = 1 \/ i = 2 \/ i = 3
    OBVIOUS
  <2>3. QED
    BY <1>6, <2>1, <2>2 DEF IsTriangle
<1>8. Turning(v) = Order!Turn(c, k)
  <2>1. Order!Cross(v[1], v[2], v[3]) = Order!Cross(u0, u1, u2)
    BY <1>1, <1>2, <1>6, CrossMoves
  <2>2. QED
    BY <1>5, <2>1 DEF Turning
<1>9. Turning(v) \in Int /\ Area(v) = 0 - Turning(v)
  <2>1. IsPoint(At(0, 0))
    BY DEF IsPoint, At
  <2>2. QED
    BY <1>7, <2>1, SharesAre
<1>10. ASSUME NEW px \in Int, NEW py \in Int, NEW i \in 0 .. 2
       PROVE  Order!Share(c, k, PixelOf(X, Y, px, py), i) = Shares(v, At(px, py))[i + 1]
  <2> DEFINE q == Order!Centre(PixelOf(X, Y, px, py))
             r == At(px, py)
  <2>1. /\ IsPoint(q) /\ IsPoint(r) /\ r.x = q.x - dx /\ r.y = q.y - dy
    <3> DEFINE e == X * Tile + px
               f == Y * Tile + py
    <3>1. e \in Int /\ f \in Int /\ 2 * px + 1 = 2 * e + 1 - dx /\ 2 * py + 1 = 2 * f + 1 - dy
      BY <1>1 DEF dx, dy
    <3>2. q = [x |-> 2 * e + 1, y |-> 2 * f + 1]
      BY DEF Order!Centre, PixelOf
    <3>3. r = [x |-> 2 * px + 1, y |-> 2 * py + 1]
      BY DEF At
    <3> HIDE DEF e, f, q, r
    <3>4. q.x = 2 * e + 1 /\ q.y = 2 * f + 1 /\ r.x = 2 * px + 1 /\ r.y = 2 * py + 1
      BY <3>2, <3>3
    <3>5. QED
      BY <1>1, <3>1, <3>4 DEF IsPoint
  <2> HIDE DEF q
  <2>2. Order!Cross(v[2], v[3], r) = Order!Cross(u1, u2, q)
    BY <1>1, <1>2, <1>6, <2>1, CrossMoves
  <2>3. Order!Cross(v[3], v[1], r) = Order!Cross(u2, u0, q)
    BY <1>1, <1>2, <1>6, <2>1, CrossMoves
  <2>4. Order!Cross(v[1], v[2], r) = Order!Cross(u0, u1, q)
    BY <1>1, <1>2, <1>6, <2>1, CrossMoves
  <2>5. i = 0 \/ i = 1 \/ i = 2
    OBVIOUS
  <2>6. QED
    BY <1>4, <2>2, <2>3, <2>4, <2>5 DEF Shares, q
<1>11. QED
  BY <1>7, <1>8, <1>9, <1>10

(* So the rasterizer means the same by its pixels as RasterOrder.          *)
LEMMA MovedHolds ==
  ASSUME NEW c, NEW k, NEW X \in Int, NEW Y \in Int, NEW v, IsMoved(v, c, k, X, Y),
         NEW px \in Int, NEW py \in Int
  PROVE  /\ Holding(v, At(px, py)) <=> Order!Touches(c, k, PixelOf(X, Y, px, py))
         /\ HoldingInside(v, At(px, py)) <=> Order!Inside(c, k, PixelOf(X, Y, px, py))
<1> DEFINE s == Shares(v, At(px, py))
           p == PixelOf(X, Y, px, py)
<1>1. \A i \in 0 .. 2 : Order!Share(c, k, p, i) = s[i + 1]
  BY MovedTriangle
<1>2. Turning(v) = Order!Turn(c, k)
  BY MovedTriangle
<1> HIDE DEF s, p
<1>3. \A i : i \in 1 .. 3 <=> i = 1 \/ i = 2 \/ i = 3
  OBVIOUS
<1>4. \A i : i \in 0 .. 2 <=> i = 0 \/ i = 1 \/ i = 2
  OBVIOUS
<1>5. Order!Share(c, k, p, 0) = s[1] /\ Order!Share(c, k, p, 1) = s[2] /\ Order!Share(c, k, p, 2) = s[3]
  <2>1. Order!Share(c, k, p, 0) = s[0 + 1] /\ Order!Share(c, k, p, 1) = s[1 + 1] /\ Order!Share(c, k, p, 2) = s[2 + 1]
    BY <1>1
  <2>2. 0 + 1 = 1 /\ 1 + 1 = 2 /\ 2 + 1 = 3
    OBVIOUS
  <2>3. QED
    BY <2>1, <2>2
<1>6. Holding(v, At(px, py)) <=> \A i \in 1 .. 3 : Order!SameSign(s[i], Order!Turn(c, k))
  BY <1>2 DEF Holding, s
<1>7. Holding(v, At(px, py)) <=> Order!Touches(c, k, p)
  BY <1>3, <1>4, <1>5, <1>6 DEF Order!Touches
<1>8. HoldingInside(v, At(px, py)) <=> Order!Inside(c, k, p)
  <2>1. (\A i \in 1 .. 3 : s[i] # 0) <=> \A i \in 0 .. 2 : Order!Share(c, k, p, i) # 0
    BY <1>3, <1>4, <1>5
  <2>2. QED
    BY <1>7, <2>1 DEF HoldingInside, Order!Inside, s
<1>9. QED
  BY <1>7, <1>8 DEF p

(* The weights of the corners at a pixel. *)
IsWeight(c, k, p, b) ==
  /\ b[1] \in Nat /\ b[2] \in Nat /\ b[3] \in Nat /\ b[1] + b[2] + b[3] > 0
  /\ Order!Turn(c, k) > 0 =>
       LET w(i) == Order!Corner(c, k, i).w IN
       /\ b[1] = Order!Share(c, k, p, 0) * w(1) * w(2)
       /\ b[2] = Order!Share(c, k, p, 1) * w(2) * w(0)
       /\ b[3] = Order!Share(c, k, p, 2) * w(0) * w(1)

(* A pixel is weighted as it would be on the whole framebuffer. *)
LEMMA MovedWeights ==
  ASSUME NEW c, NEW k, NEW X \in Int, NEW Y \in Int, NEW v, IsMoved(v, c, k, X, Y),
         NEW px \in Int, NEW py \in Int, NEW b, Weighted(v, At(px, py), b),
         b[1] \in Nat, b[2] \in Nat, b[3] \in Nat, b[1] + b[2] + b[3] > 0
  PROVE  IsWeight(c, k, PixelOf(X, Y, px, py), b)
<1> DEFINE s == Shares(v, At(px, py))
           p == PixelOf(X, Y, px, py)
           w(i) == Order!Corner(c, k, i).w
<1>1. \A i \in 0 .. 2 : Order!Share(c, k, p, i) = s[i + 1]
  BY MovedTriangle
<1>2. Turning(v) = Order!Turn(c, k)
  BY MovedTriangle
<1>3. IsPoint(At(px, py)) /\ IsTriangle(v)
  BY MovedTriangle DEF IsPoint, At
<1>4. s[1] \in Int /\ s[2] \in Int /\ s[3] \in Int
  BY <1>3, SharesAre
<1>5. Order!Share(c, k, p, 0) = s[1] /\ Order!Share(c, k, p, 1) = s[2] /\ Order!Share(c, k, p, 2) = s[3]
  <2> HIDE DEF s, p
  <2>1. Order!Share(c, k, p, 0) = s[0 + 1] /\ Order!Share(c, k, p, 1) = s[1 + 1] /\ Order!Share(c, k, p, 2) = s[2 + 1]
    BY <1>1
  <2>2. 0 + 1 = 1 /\ 1 + 1 = 2 /\ 2 + 1 = 3
    OBVIOUS
  <2>3. QED
    BY <2>1, <2>2
<1>6. v[1].w = w(0) /\ v[2].w = w(1) /\ v[3].w = w(2) /\ w(0) \in Int /\ w(1) \in Int /\ w(2) \in Int
  <2>1. v[0 + 1].w = w(0) /\ v[1 + 1].w = w(1) /\ v[2 + 1].w = w(2) /\ w(0) \in Int /\ w(1) \in Int /\ w(2) \in Int
    BY DEF IsMoved
  <2>2. 0 + 1 = 1 /\ 1 + 1 = 2 /\ 2 + 1 = 3
    OBVIOUS
  <2>3. QED
    BY <2>1, <2>2
<1>7. ASSUME Order!Turn(c, k) > 0
      PROVE  b = <<s[1] * v[2].w * v[3].w, s[2] * v[1].w * v[3].w, s[3] * v[1].w * v[2].w>>
  BY <1>2, <1>7 DEF Weighted
<1> HIDE DEF s, w, p
<1>8. s[2] * w(0) * w(2) = s[2] * w(2) * w(0)
  BY <1>4, <1>6
<1>9. ASSUME Order!Turn(c, k) > 0
      PROVE  /\ b[1] = s[1] * w(1) * w(2) /\ b[2] = s[2] * w(2) * w(0) /\ b[3] = s[3] * w(0) * w(1)
  BY <1>6, <1>7, <1>8, <1>9
<1>10. QED
  BY <1>5, <1>9 DEF IsWeight, w, p

(* What is culled is what is to be discarded. *)
LEMMA CulledIsDiscarded ==
  ASSUME NEW c, CullsAsMeant(c), NEW k, Order!Turn(c, k) \in Int, Order!Turn(c, k) # 0
  PROVE  Culled(c.cullMode, c.frontFace, 0 - Order!Turn(c, k)) <=> Order!Discarded(c, k)
<1> DEFINE t == Order!Turn(c, k)
<1>1. t \in Int /\ t # 0
  OBVIOUS
<1>2. CASE c.cullMode = "none"
  BY <1>2 DEF Culled, Order!Discarded
<1>3. CASE c.cullMode = "back"
  <2>1. c.frontFace = "clockwise"
    BY <1>3 DEF CullsAsMeant
  <2>2. CullSign(c.cullMode, c.frontFace) = 1
    BY <1>3 DEF CullSign
  <2>3. Culled(c.cullMode, c.frontFace, 0 - t) <=> (0 - t) * 1 > 0
    BY <1>3, <2>2 DEF Culled
  <2>4. Order!Discarded(c, k) <=> ~(t > 0)
    BY <1>3, <2>1 DEF Order!Discarded, Order!FrontFacing
  <2> HIDE DEF t
  <2>5. (0 - t) * 1 > 0 <=> ~(t > 0)
    BY <1>1
  <2>6. QED
    BY <2>3, <2>4, <2>5 DEF t
<1>4. CASE c.cullMode = "front" /\ c.frontFace = "clockwise"
  <2>2. CullSign(c.cullMode, c.frontFace) = -1
    BY <1>4 DEF CullSign
  <2>3. Culled(c.cullMode, c.frontFace, 0 - t) <=> (0 - t) * (-1) > 0
    BY <1>4, <2>2 DEF Culled
  <2>4. Order!Discarded(c, k) <=> t > 0
    BY <1>4 DEF Order!Discarded, Order!FrontFacing
  <2> HIDE DEF t
  <2>5. (0 - t) * (-1) > 0 <=> t > 0
    BY <1>1
  <2>6. QED
    BY <2>3, <2>4, <2>5 DEF t
<1>5. CASE c.cullMode = "front" /\ c.frontFace # "clockwise"
  <2>2. CullSign(c.cullMode, c.frontFace) = 1
    BY <1>5 DEF CullSign
  <2>3. Culled(c.cullMode, c.frontFace, 0 - t) <=> (0 - t) * 1 > 0
    BY <1>5, <2>2 DEF Culled
  <2>4. Order!Discarded(c, k) <=> t < 0
    BY <1>5 DEF Order!Discarded, Order!FrontFacing
  <2> HIDE DEF t
  <2>5. (0 - t) * 1 > 0 <=> t < 0
    BY <1>1
  <2>6. QED
    BY <2>3, <2>4, <2>5 DEF t
<1>6. QED
  BY <1>2, <1>3, <1>4, <1>5 DEF CullsAsMeant

-----------------------------------------------------------------------------
(* Means.                                                                  *)

(* A mean lies between the least and the largest of its values. *)
Blends(a, b, c, p, q, r) ==
  a \in Nat /\ b \in Nat /\ c \in Nat /\ a + b + c > 0 /\ p \in Int /\ q \in Int /\ r \in Int

(* So the whole units of it lie between two of them. *)
LEMMA MeanBetween ==
  ASSUME NEW a, NEW b, NEW c, NEW p, NEW q, NEW r, Blends(a, b, c, p, q, r)
  PROVE  LET z == (a * p + b * q + c * r) \div (a + b + c)
         IN /\ z \in Int
            /\ \E low, high \in {p, q, r} : low <= z /\ z <= high
<1> DEFINE n == a + b + c
           dot == a * p + b * q + c * r
           z == dot \div n
<1>0. a \in Nat /\ b \in Nat /\ c \in Nat /\ a + b + c > 0 /\ p \in Int /\ q \in Int /\ r \in Int
  BY DEF Blends
<1>1. n \in Nat \ {0} /\ dot \in Int
  BY <1>0
<1>2. z \in Int
  <2> HIDE DEF n, dot
  <2>1. QED
    BY <1>1
<1>3. PICK low \in {p, q, r} : low <= p /\ low <= q /\ low <= r
  BY <1>0, SMT
<1>4. PICK high \in {p, q, r} : high >= p /\ high >= q /\ high >= r
  BY <1>0, SMT
<1>5. \A d \in Int : d * n \in Int /\ (d * n) \div n = d
  <2> HIDE DEF n
  <2>1. TAKE d \in Int
  <2>2. d * n \in Int /\ d * n + 0 = d * n /\ 0 \in 0 .. n - 1
    BY <1>1
  <2>3. (d * n + 0) \div n = d
    BY <1>1, <2>2, QuotientOf
  <2>4. QED
    BY <2>2, <2>3
<1>6. low * n <= dot /\ dot <= high * n
  <2>1. low \in Int /\ high \in Int
    BY <1>0
  <2>2. a * low <= a * p /\ b * low <= b * q /\ c * low <= c * r
    BY <1>0, <1>3, <2>1
  <2>3. a * p <= a * high /\ b * q <= b * high /\ c * r <= c * high
    BY <1>0, <1>4, <2>1
  <2>4. low * n = a * low + b * low + c * low /\ high * n = a * high + b * high + c * high
    BY <1>0, <2>1
  <2>5. QED
    BY <1>0, <2>1, <2>2, <2>3, <2>4
<1>7. low <= z /\ z <= high
  <2>1. low \in Int /\ high \in Int
    BY <1>0
  <2> HIDE DEF n, dot
  <2>2. low * n \in Int /\ (low * n) \div n = low /\ high * n \in Int /\ (high * n) \div n = high
    BY <1>5, <2>1
  <2>3. (low * n) \div n <= dot \div n
    BY <1>1, <1>6, <2>2, QuotientsInOrder
  <2>4. dot \div n <= (high * n) \div n
    BY <1>1, <1>6, <2>2, QuotientsInOrder
  <2>5. QED
    BY <2>2, <2>3, <2>4
<1>8. QED
  BY <1>2, <1>7

(* The mean the pixel shader takes is one RasterOrder allows: of a         *)
(* triangle that turns the right way the interpolation, of others a value  *)
(* between those of the corners.                                           *)
Weight(c, k, p, i) ==
  Order!Share(c, k, p, i) * Order!Corner(c, k, (i + 1) % 3).w * Order!Corner(c, k, (i + 2) % 3).w

Sum(c, k, p) == Weight(c, k, p, 0) + Weight(c, k, p, 1) + Weight(c, k, p, 2)

Dot(c, k, p, f) == Weight(c, k, p, 0) * f[0] + Weight(c, k, p, 1) * f[1] + Weight(c, k, p, 2) * f[2]

IsValue(c, k, p, f, m) ==
  IF Order!Turn(c, k) > 0
    THEN m = IF Sum(c, k, p) > 0 THEN Dot(c, k, p, f) \div Sum(c, k, p)
             ELSE (0 - Dot(c, k, p, f)) \div (0 - Sum(c, k, p))
    ELSE \E i, j \in 0 .. 2 : m \in f[i] .. f[j]

(* What the rasterizer mixes is the value that is promised. *)
LEMMA MixIsValue ==
  ASSUME NEW c, NEW k, NEW p, NEW b, IsWeight(c, k, p, b), NEW f, f[0] \in Int, f[1] \in Int, f[2] \in Int,
         NEW m, m = (b[1] * f[0] + b[2] * f[1] + b[3] * f[2]) \div (b[1] + b[2] + b[3])
  PROVE  /\ m \in Int /\ IsValue(c, k, p, f, m)
         /\ \E low, high \in {f[0], f[1], f[2]} : low <= m /\ m <= high
<1>1. b[1] \in Nat /\ b[2] \in Nat /\ b[3] \in Nat /\ b[1] + b[2] + b[3] > 0
  BY DEF IsWeight
<1>2. m \in Int /\ \E low, high \in {f[0], f[1], f[2]} : low <= m /\ m <= high
  <2>1. Blends(b[1], b[2], b[3], f[0], f[1], f[2])
    BY <1>1 DEF Blends
  <2>2. QED
    BY <2>1, MeanBetween
<1>3. CASE Order!Turn(c, k) > 0
  <2>1. (0 + 1) % 3 = 1 /\ (0 + 2) % 3 = 2 /\ (1 + 1) % 3 = 2 /\ (1 + 2) % 3 = 0 /\ (2 + 1) % 3 = 0 /\ (2 + 2) % 3 = 1
    OBVIOUS
  <2>2. Weight(c, k, p, 0) = b[1] /\ Weight(c, k, p, 1) = b[2] /\ Weight(c, k, p, 2) = b[3]
    BY <1>3, <2>1 DEF IsWeight, Weight
  <2>3. Sum(c, k, p) > 0 /\ m = Dot(c, k, p, f) \div Sum(c, k, p)
    BY <1>1, <2>2 DEF Sum, Dot
  <2>4. QED
    BY <1>2, <1>3, <2>3 DEF IsValue
<1>4. CASE ~(Order!Turn(c, k) > 0)
  <2>1. PICK i \in 0 .. 2, j \in 0 .. 2 : f[i] <= m /\ m <= f[j] /\ f[i] \in Int /\ f[j] \in Int
    BY <1>2
  <2>2. m \in f[i] .. f[j]
    BY <1>2, <2>1
  <2>3. QED
    BY <1>2, <1>4, <2>2 DEF IsValue
<1>5. QED
  BY <1>3, <1>4

(* For the depth and for the attributes.                                   *)
LEMMA DepthIsValue ==
  ASSUME NEW k, NEW p, NEW b, IsWeight(call, k, p, b),
         NEW z0 \in Nat, NEW z1 \in Nat, NEW z2 \in Nat,
         z0 = Order!Corner(call, k, 0).z, z1 = Order!Corner(call, k, 1).z, z2 = Order!Corner(call, k, 2).z,
         NEW m, m = (b[1] * z0 + b[2] * z1 + b[3] * z2) \div (b[1] + b[2] + b[3])
  PROVE  m \in Nat /\ m \in Order!Depths(k, p)
<1> DEFINE f == [i \in 0 .. 2 |-> Order!Corner(call, k, i).z]
<1>1. f[0] = z0 /\ f[1] = z1 /\ f[2] = z2
  OBVIOUS
<1>2. \A i \in 0 .. 2 : f[i] = Order!Corner(call, k, i).z
  OBVIOUS
<1> HIDE DEF f
<1>3. /\ m \in Int /\ IsValue(call, k, p, f, m)
      /\ \E low, high \in {f[0], f[1], f[2]} : low <= m /\ m <= high
  <2>1. f[0] \in Int /\ f[1] \in Int /\ f[2] \in Int
    BY <1>1
  <2>2. m = (b[1] * f[0] + b[2] * f[1] + b[3] * f[2]) \div (b[1] + b[2] + b[3])
    BY <1>1
  <2>3. QED
    BY <2>1, <2>2, MixIsValue
<1>4. m \in Nat
  BY <1>1, <1>3
<1>5. CASE Order!Turn(call, k) > 0
  <2>1. Order!Depths(k, p) = {IF Sum(call, k, p) > 0 THEN Dot(call, k, p, f) \div Sum(call, k, p)
                              ELSE (0 - Dot(call, k, p, f)) \div (0 - Sum(call, k, p))}
    <3>1. 0 \in 0 .. 2 /\ 1 \in 0 .. 2 /\ 2 \in 0 .. 2
      OBVIOUS
    <3>2. f[0] = Order!Corner(call, k, 0).z /\ f[1] = Order!Corner(call, k, 1).z /\ f[2] = Order!Corner(call, k, 2).z
      BY <1>2, <3>1
    <3>3. QED
      BY <1>5, <3>2 DEF Order!Depths, Order!Values, Order!Interpolated, Sum, Dot, Weight
  <2>2. QED
    BY <1>3, <1>4, <1>5, <2>1 DEF IsValue
<1>6. CASE ~(Order!Turn(call, k) > 0)
  <2>1. Order!Depths(k, p) = UNION {Order!Corner(call, k, i).z .. Order!Corner(call, k, j).z : i, j \in 0 .. 2}
    BY <1>6 DEF Order!Depths, Order!Values, Order!Between
  <2>2. PICK i \in 0 .. 2, j \in 0 .. 2 : m \in f[i] .. f[j]
    BY <1>3, <1>6 DEF IsValue
  <2>3. m \in Order!Corner(call, k, i).z .. Order!Corner(call, k, j).z
    BY <1>2, <2>2
  <2> DEFINE range(x, y) == Order!Corner(call, k, x).z .. Order!Corner(call, k, y).z
  <2>4. m \in range(i, j) /\ Order!Depths(k, p) = UNION {range(x, y) : x, y \in 0 .. 2}
    BY <2>1, <2>3
  <2> HIDE DEF range
  <2>5. range(i, j) \in {range(x, y) : x, y \in 0 .. 2}
    OBVIOUS
  <2>6. QED
    BY <1>4, <2>4, <2>5
<1>7. QED
  BY <1>4, <1>5, <1>6

(* So is an attribute. *)
LEMMA AttributeIsValue ==
  ASSUME NEW k, NEW p, NEW b, IsWeight(call, k, p, b), NEW loc,
         NEW a0 \in Values, NEW a1 \in Values, NEW a2 \in Values,
         a0 = Order!Corner(call, k, 0).attr[loc], a1 = Order!Corner(call, k, 1).attr[loc],
         a2 = Order!Corner(call, k, 2).attr[loc],
         NEW m, m = (b[1] * a0 + b[2] * a1 + b[3] * a2) \div (b[1] + b[2] + b[3])
  PROVE  m \in Values /\ m \in Order!Attributes(k, p, loc)
<1> DEFINE f == [i \in 0 .. 2 |-> Order!Corner(call, k, i).attr[loc]]
<1>1. f[0] = a0 /\ f[1] = a1 /\ f[2] = a2
  OBVIOUS
<1>2. \A i \in 0 .. 2 : f[i] = Order!Corner(call, k, i).attr[loc]
  OBVIOUS
<1> HIDE DEF f
<1>3. /\ m \in Int /\ IsValue(call, k, p, f, m)
      /\ \E low, high \in {f[0], f[1], f[2]} : low <= m /\ m <= high
  <2>1. f[0] \in Int /\ f[1] \in Int /\ f[2] \in Int
    BY <1>1 DEF Values
  <2>2. m = (b[1] * f[0] + b[2] * f[1] + b[3] * f[2]) \div (b[1] + b[2] + b[3])
    BY <1>1
  <2>3. QED
    BY <2>1, <2>2, MixIsValue
<1>4. m \in Values
  <2>1. PICK low \in {a0, a1, a2}, high \in {a0, a1, a2} : low <= m /\ m <= high
    BY <1>1, <1>3
  <2>2. Full \in Int
    BY DrawAssumption
  <2>3. low \in Int /\ high \in Int /\ low >= 0 /\ high <= Full
    BY <2>2 DEF Values
  <2>4. QED
    BY <1>3, <2>1, <2>2, <2>3 DEF Values
<1>5. CASE Order!Turn(call, k) > 0
  <2>1. Order!Attributes(k, p, loc) = {IF Sum(call, k, p) > 0 THEN Dot(call, k, p, f) \div Sum(call, k, p)
                              ELSE (0 - Dot(call, k, p, f)) \div (0 - Sum(call, k, p))}
    <3>1. 0 \in 0 .. 2 /\ 1 \in 0 .. 2 /\ 2 \in 0 .. 2
      OBVIOUS
    <3>2. /\ f[0] = Order!Corner(call, k, 0).attr[loc] /\ f[1] = Order!Corner(call, k, 1).attr[loc]
          /\ f[2] = Order!Corner(call, k, 2).attr[loc]
      BY <1>2, <3>1
    <3>3. QED
      BY <1>5, <3>2 DEF Order!Attributes, Order!Values, Order!Interpolated, Sum, Dot, Weight
  <2>2. QED
    BY <1>3, <1>4, <1>5, <2>1 DEF IsValue
<1>6. CASE ~(Order!Turn(call, k) > 0)
  <2>1. Order!Attributes(k, p, loc)
          = UNION {Order!Corner(call, k, i).attr[loc] .. Order!Corner(call, k, j).attr[loc] : i, j \in 0 .. 2}
    BY <1>6 DEF Order!Attributes, Order!Values, Order!Between
  <2>2. PICK i \in 0 .. 2, j \in 0 .. 2 : m \in f[i] .. f[j]
    BY <1>3, <1>6 DEF IsValue
  <2>3. m \in Order!Corner(call, k, i).attr[loc] .. Order!Corner(call, k, j).attr[loc]
    BY <1>2, <2>2
  <2> DEFINE range(x, y) == Order!Corner(call, k, x).attr[loc] .. Order!Corner(call, k, y).attr[loc]
  <2>4. m \in range(i, j) /\ Order!Attributes(k, p, loc) = UNION {range(x, y) : x, y \in 0 .. 2}
    BY <2>1, <2>3
  <2> HIDE DEF range
  <2>5. range(i, j) \in {range(x, y) : x, y \in 0 .. 2}
    OBVIOUS
  <2>6. QED
    BY <1>4, <2>4, <2>5
<1>7. QED
  BY <1>4, <1>5, <1>6

-----------------------------------------------------------------------------
(* What the stages make of a call.                                         *)

(* Each vertex has its place on the framebuffer. *)
CornersInPlace ==
  \A k \in 0 .. call.indexCount - 1 :
    /\ assembly[k].x = Vertex(k).x /\ assembly[k].y = Vertex(k).y
    /\ assembly[k].z = Vertex(k).z /\ assembly[k].w = Vertex(k).w
    /\ DOMAIN assembly[k] = {"x", "y", "z", "w"}

(* What a call says of its vertices. *)
LEMMA VertexIs ==
  ASSUME call \in Calls, NEW k \in 0 .. call.indexCount - 1
  PROVE  /\ Vertex(k).x \in Int /\ Vertex(k).y \in Int /\ Vertex(k).z \in Nat /\ Vertex(k).w \in Nat \ {0}
         /\ call.formats[0] = "f4" \/ Vertex(k).w = 1
         /\ \A loc \in Locations(call.vs_outputs) : Vertex(k).attr[loc] \in Values
BY DrawAssumption DEF Vertex, Values

(* The division undoes what the vertex buffer's w does. *)
LEMMA CornersArePlaced ==
  ASSUME call \in Calls, PositionsInPlace, PA_stage
  PROVE  CornersInPlace'
<1> DEFINE n == call.indexCount
<1>1. call' = call /\ assembly' = [k \in 0 .. n - 1 |-> Screenspace(vs.positions[k])]
  BY DEF PA_stage
<1>2. ASSUME NEW k \in 0 .. n - 1
      PROVE  /\ assembly'[k].x = Vertex(k).x /\ assembly'[k].y = Vertex(k).y
             /\ assembly'[k].z = Vertex(k).z /\ assembly'[k].w = Vertex(k).w
             /\ DOMAIN assembly'[k] = {"x", "y", "z", "w"}
  <2>1. PICK w \in Nat \ {0}, x \in Int, y \in Int, z \in Int :
          /\ w = Vertex(k).w /\ x = Vertex(k).x /\ y = Vertex(k).y /\ z = Vertex(k).z
    BY VertexIs
  <2>2. Attribute(k, 0) = [x |-> x * w, y |-> y * w, z |-> z * w, w |-> w]
    <3>1. w = IF call.formats[0] = "f4" THEN Vertex(k).w ELSE 1
      BY <2>1, VertexIs
    <3>2. QED
      BY <2>1, <3>1 DEF Attribute
  <2>3. assembly'[k] = Screenspace([x |-> x * w, y |-> y * w, z |-> z * w, w |-> w])
    BY <1>1, <2>2 DEF PositionsInPlace
  <2>4. \A d \in Int : (d * w) \div w = d
    <3>1. TAKE d \in Int
    <3>2. d * w + 0 = d * w /\ 0 \in 0 .. w - 1
      OBVIOUS
    <3>3. (d * w + 0) \div w = d
      BY <3>2, QuotientOf
    <3>4. QED
      BY <3>2, <3>3
  <2>5. assembly'[k] = [x |-> (x * w) \div w, y |-> (y * w) \div w, z |-> (z * w) \div w, w |-> w]
    BY <2>3 DEF Screenspace
  <2>6. assembly'[k] = [x |-> x, y |-> y, z |-> z, w |-> w]
    BY <2>4, <2>5
  <2>7. QED
    BY <2>1, <2>6
<1>3. QED
  BY <1>1, <1>2 DEF CornersInPlace, Vertex

(* The corner of a triangle, relative to the tile. *)
LEMMA TileCornersAre ==
  ASSUME call \in Calls, CornersInPlace, cur_tile.x \in Int, cur_tile.y \in Int,
         NEW t \in 1 .. call.indexCount \div 3
  PROVE  IsMoved(<<TileCorner(t, 0), TileCorner(t, 1), TileCorner(t, 2)>>, call, t, cur_tile.x, cur_tile.y)
<1>1. ASSUME NEW i \in 0 .. 2
      PROVE  LET u == Order!Corner(call, t, i)
                 m == TileCorner(t, i)
             IN /\ IsPoint(u) /\ u.w \in Nat \ {0}
                /\ m.x = u.x - 2 * Tile * cur_tile.x /\ m.y = u.y - 2 * Tile * cur_tile.y /\ m.w = u.w
  <2> DEFINE k == 3 * (t - 1) + i
             a == assembly[k]
  <2>1. k \in 0 .. call.indexCount - 1 /\ Order!Corner(call, t, i) = Vertex(k)
    BY CornerIs
  <2>2. TileCorner(t, i) = [a EXCEPT !.x = @ - 2 * Tile * cur_tile.x, !.y = @ - 2 * Tile * cur_tile.y]
    BY DEF TileCorner
  <2> HIDE DEF k
  <2>3. /\ a.x = Vertex(k).x /\ a.y = Vertex(k).y /\ a.w = Vertex(k).w
        /\ DOMAIN a = {"x", "y", "z", "w"}
    BY <2>1 DEF CornersInPlace
  <2> HIDE DEF a
  <2>4. TileCorner(t, i).x = a.x - 2 * Tile * cur_tile.x /\ TileCorner(t, i).y = a.y - 2 * Tile * cur_tile.y
        /\ TileCorner(t, i).w = a.w
    BY <2>2, <2>3
  <2>5. QED
    BY <2>1, <2>3, <2>4, VertexIs DEF IsPoint
<1> DEFINE v == <<TileCorner(t, 0), TileCorner(t, 1), TileCorner(t, 2)>>
<1>2. \A i \in 0 .. 2 : v[i + 1] = TileCorner(t, i)
  OBVIOUS
<1> HIDE DEF v
<1>3. IsMoved(v, call, t, cur_tile.x, cur_tile.y)
  BY <1>1, <1>2 DEF IsMoved
<1>4. QED
  BY <1>3 DEF v

-----------------------------------------------------------------------------
(* The fragments of a tile.                                                *)

(* Two sequences, one after the other. *)
LEMMA JoinedAt ==
  ASSUME NEW s, NEW t, IsSequence(s), IsSequence(t)
  PROVE  /\ IsSequence(s \o t)
         /\ Len(s) \in Nat /\ Len(t) \in Nat /\ Len(s \o t) = Len(s) + Len(t)
         /\ DOMAIN s = 1 .. Len(s) /\ DOMAIN t = 1 .. Len(t)
         /\ DOMAIN (s \o t) = 1 .. Len(s) + Len(t)
         /\ \A i \in 1 .. Len(s) : (s \o t)[i] = s[i]
         /\ \A i \in 1 .. Len(t) : (s \o t)[Len(s) + i] = t[i]
         /\ \A i \in 1 .. Len(s) + Len(t) :
              i \in 1 .. Len(s) \/ (i - Len(s) \in 1 .. Len(t) /\ (s \o t)[i] = t[i - Len(s)])
<1>1. PICK S, T : s \in Seq(S) /\ t \in Seq(T)
  BY DEF IsSequence
<1>2. s \in Seq(S \cup T) /\ t \in Seq(S \cup T)
  BY <1>1
<1>3. Len(s) \in Nat /\ Len(t) \in Nat /\ DOMAIN s = 1 .. Len(s) /\ DOMAIN t = 1 .. Len(t)
  BY <1>2
<1>4. /\ s \o t \in Seq(S \cup T) /\ Len(s \o t) = Len(s) + Len(t)
      /\ \A i \in 1 .. Len(s) + Len(t) :
           (s \o t)[i] = IF i <= Len(s) THEN s[i] ELSE t[i - Len(s)]
  BY <1>2, ConcatProperties
<1>5. DOMAIN (s \o t) = 1 .. Len(s) + Len(t)
  BY <1>4
<1> DEFINE j == s \o t
           m == Len(s)
           n == Len(t)
<1>6. /\ m \in Nat /\ n \in Nat
      /\ \A i \in 1 .. m + n : j[i] = IF i <= m THEN s[i] ELSE t[i - m]
  BY <1>3, <1>4
<1> HIDE DEF j, m, n
<1>7. ASSUME NEW i \in 1 .. m PROVE j[i] = s[i]
  BY <1>6
<1>8. ASSUME NEW i \in 1 .. n PROVE j[m + i] = t[i]
  <2>1. m + i \in 1 .. m + n /\ ~(m + i <= m) /\ m + i - m = i
    BY <1>6
  <2>2. j[m + i] = t[m + i - m]
    BY <1>6, <2>1
  <2>3. QED
    BY <2>1, <2>2
<1>9. ASSUME NEW i \in 1 .. m + n PROVE i \in 1 .. m \/ (i - m \in 1 .. n /\ j[i] = t[i - m])
  BY <1>6
<1>10. IsSequence(j)
  BY <1>4 DEF IsSequence, j
<1>11. QED
  BY <1>3, <1>4, <1>5, <1>7, <1>8, <1>9, <1>10 DEF j, m, n

-----------------------------------------------------------------------------
(* Fragments.                                                              *)

(* The triangles the rasterizer leaves out. *)
IsCulled(c, k) == Culled(c.cullMode, c.frontFace, 0 - Order!Turn(c, k))

(* A pixel of tile <<X, Y>> that a triangle of the call holds, with the    *)
(* weights of its corners.                                                 *)
IsFragment(info, c, X, Y) ==
  \E px, py \in 0 .. Tile - 1 :
    /\ info.x = X * Tile + px /\ info.y = Y * Tile + py
    /\ info.triangle_id \in 1 .. c.indexCount \div 3
    /\ Order!Touches(c, info.triangle_id, PixelOf(X, Y, px, py))
    /\ ~IsCulled(c, info.triangle_id)
    /\ IsWeight(c, info.triangle_id, PixelOf(X, Y, px, py), info.b)

(* In the order of the triangles, and each pixel of one only once. *)
InSequence(f) ==
  \A i, j \in DOMAIN f :
    i < j => \/ f[i].triangle_id < f[j].triangle_id
             \/ f[i].triangle_id = f[j].triangle_id /\ (f[i].x # f[j].x \/ f[i].y # f[j].y)

(* Triangle k has all its pixels in f. *)
HasPixels(f, c, X, Y, k) ==
  \A px, py \in 0 .. Tile - 1 :
    Order!Inside(c, k, PixelOf(X, Y, px, py)) /\ ~IsCulled(c, k)
      => \E i \in DOMAIN f : f[i].triangle_id = k /\ f[i].x = X * Tile + px /\ f[i].y = Y * Tile + py

(* f are the fragments of tile <<X, Y>> and of the triangles before n. *)
AreFragments(f, c, X, Y, n) ==
  /\ IsSequence(f)
  /\ \A i \in DOMAIN f : IsFragment(f[i], c, X, Y) /\ f[i].triangle_id < n
  /\ InSequence(f)
  /\ \A k \in 1 .. c.indexCount \div 3 : k < n => HasPixels(f, c, X, Y, k)

(* At first there are none. *)
LEMMA NoFragments == \A c, X, Y : AreFragments(<<>>, c, X, Y, 1)
<1>1. IsSequence(<<>>)
  <2>1. <<>> \in Seq({})
    OBVIOUS
  <2>2. QED
    BY <2>1 DEF IsSequence
<1>2. DOMAIN <<>> = {}
  OBVIOUS
<1>3. \A k \in Int : k \in 1 .. k => ~(k < 1)
  OBVIOUS
<1>4. QED
  BY <1>1, <1>2 DEF AreFragments, InSequence

(* What the rasterizer finds for one more triangle are its fragments.      *)
LEMMA FoundAreFragments ==
  ASSUME NEW c, NEW k \in 1 .. c.indexCount \div 3, c.indexCount \in Nat, HasArea(c, k),
         NEW X \in Int, NEW Y \in Int, NEW v, IsMoved(v, c, k, X, Y)
  PROVE  LET g == IF Culled(c.cullMode, c.frontFace, Area(v)) THEN <<>> ELSE Invocations(k, v, X, Y)
         IN /\ IsSequence(g) /\ Apart(g)
            /\ \A i \in DOMAIN g : IsFragment(g[i], c, X, Y) /\ g[i].triangle_id = k
            /\ HasPixels(g, c, X, Y, k)
<1> DEFINE F == Invocations(k, v, X, Y)
           g == IF Culled(c.cullMode, c.frontFace, Area(v)) THEN <<>> ELSE F
<1>1. IsTriangle(v) /\ Turning(v) # 0 /\ Area(v) = 0 - Order!Turn(c, k)
  BY MovedTriangle DEF HasArea
<1>2. Culled(c.cullMode, c.frontFace, Area(v)) <=> IsCulled(c, k)
  BY <1>1 DEF IsCulled
<1>3. /\ IsSequence(F) /\ Apart(F)
      /\ \A i \in DOMAIN F : IsFound(F[i], k, v, X, Y)
      /\ \A px, py \in 0 .. Tile - 1 :
           HoldingInside(v, At(px, py))
             => \E i \in DOMAIN F : F[i].x = X * Tile + px /\ F[i].y = Y * Tile + py
  <2>1. AreFound(F, k, v, X, Y)
    BY <1>1, FoundAre
  <2> HIDE DEF F
  <2>2. QED
    BY <2>1 DEF AreFound
<1> HIDE DEF F
<1>8. /\ IsCulled(c, k) => g = <<>>
      /\ ~IsCulled(c, k) => g = F
  BY <1>2
<1> HIDE DEF g
<1>4. CASE IsCulled(c, k)
  <2>1. g = <<>>
    BY <1>4, <1>8
  <2>2. IsSequence(g) /\ DOMAIN g = {}
    BY <2>1, NoFragments DEF AreFragments
  <2>3. QED
    BY <1>4, <2>2 DEF Apart, HasPixels, g, F
<1>5. CASE ~IsCulled(c, k)
  <2>1. g = F
    BY <1>5, <1>8
  <2>2. ASSUME NEW i \in DOMAIN F PROVE IsFragment(F[i], c, X, Y) /\ F[i].triangle_id = k
    <3>1. PICK px \in 0 .. Tile - 1, py \in 0 .. Tile - 1 :
            /\ F[i].triangle_id = k
            /\ F[i].x = X * Tile + px /\ F[i].y = Y * Tile + py
            /\ Holding(v, At(px, py)) /\ Weighted(v, At(px, py), F[i].b)
            /\ F[i].b[1] \in Nat /\ F[i].b[2] \in Nat /\ F[i].b[3] \in Nat
            /\ F[i].b[1] + F[i].b[2] + F[i].b[3] > 0
      BY <1>3 DEF IsFound
    <3>2. px \in Int /\ py \in Int
      BY TileAssumption
    <3>3. Order!Touches(c, k, PixelOf(X, Y, px, py))
      BY <3>1, <3>2, MovedHolds
    <3>4. IsWeight(c, k, PixelOf(X, Y, px, py), F[i].b)
      BY <3>1, <3>2, MovedWeights
    <3>5. QED
      BY <1>5, <3>1, <3>3, <3>4 DEF IsFragment
  <2>3. HasPixels(F, c, X, Y, k)
    <3>1. SUFFICES ASSUME NEW px \in 0 .. Tile - 1, NEW py \in 0 .. Tile - 1,
                          Order!Inside(c, k, PixelOf(X, Y, px, py))
                   PROVE  \E i \in DOMAIN F : F[i].triangle_id = k /\ F[i].x = X * Tile + px
                                              /\ F[i].y = Y * Tile + py
      BY DEF HasPixels
    <3>2. px \in Int /\ py \in Int
      BY TileAssumption
    <3>3. HoldingInside(v, At(px, py))
      BY <3>1, <3>2, MovedHolds
    <3>4. QED
      BY <1>3, <2>2, <3>3
  <2>4. /\ IsSequence(g) /\ Apart(g)
        /\ \A i \in DOMAIN g : IsFragment(g[i], c, X, Y) /\ g[i].triangle_id = k
        /\ HasPixels(g, c, X, Y, k)
    BY <1>3, <2>1, <2>2, <2>3
  <2>5. QED
    BY <2>4 DEF g, F
<1>6. QED
  BY <1>4, <1>5

(* They come after those of the triangles before. *)
LEMMA FragmentsAdded ==
  ASSUME NEW c, NEW X, NEW Y, NEW k \in Nat, NEW f, AreFragments(f, c, X, Y, k),
         c.indexCount \in Nat,
         NEW g, IsSequence(g), Apart(g), HasPixels(g, c, X, Y, k),
         \A i \in DOMAIN g : IsFragment(g[i], c, X, Y) /\ g[i].triangle_id = k
  PROVE  AreFragments(f \o g, c, X, Y, k + 1)
<1> DEFINE h == f \o g
           m == Len(f)
           n == Len(g)
<1>1. IsSequence(f)
  BY DEF AreFragments
<1>2. /\ IsSequence(h) /\ m \in Nat /\ n \in Nat
      /\ DOMAIN f = 1 .. m /\ DOMAIN g = 1 .. n /\ DOMAIN h = 1 .. m + n
      /\ \A i \in 1 .. m : h[i] = f[i]
      /\ \A i \in 1 .. n : h[m + i] = g[i]
      /\ \A i \in 1 .. m + n : i \in 1 .. m \/ (i - m \in 1 .. n /\ h[i] = g[i - m])
  BY <1>1, JoinedAt
<1> HIDE DEF h, m, n
<1>3. \A i \in 1 .. m : IsFragment(f[i], c, X, Y) /\ f[i].triangle_id < k
  BY <1>2 DEF AreFragments
<1>4. \A i \in 1 .. n : IsFragment(g[i], c, X, Y) /\ g[i].triangle_id = k
  BY <1>2
<1>5. ASSUME NEW i \in 1 .. m + n PROVE IsFragment(h[i], c, X, Y) /\ h[i].triangle_id < k + 1
  <2>1. CASE i \in 1 .. m
    <3>1. h[i].triangle_id < k /\ IsFragment(h[i], c, X, Y)
      BY <1>2, <1>3, <2>1
    <3>2. h[i].triangle_id \in Int
      <4>1. h[i].triangle_id \in 1 .. c.indexCount \div 3
        BY <3>1 DEF IsFragment
      <4>2. QED
        BY <4>1
    <3>3. QED
      BY <3>1, <3>2
  <2>2. CASE i - m \in 1 .. n /\ h[i] = g[i - m]
    <3>1. IsFragment(h[i], c, X, Y) /\ h[i].triangle_id = k
      BY <1>4, <2>2
    <3>2. QED
      BY <3>1
  <2>3. QED
    BY <1>2, <2>1, <2>2
<1>6. ASSUME NEW i \in 1 .. m + n, NEW j \in 1 .. m + n, i < j
      PROVE  \/ h[i].triangle_id < h[j].triangle_id
             \/ h[i].triangle_id = h[j].triangle_id /\ (h[i].x # h[j].x \/ h[i].y # h[j].y)
  <2>1. CASE j \in 1 .. m
    <3>1. i \in 1 .. m
      BY <1>2, <1>6, <2>1
    <3>2. i \in DOMAIN f /\ j \in DOMAIN f /\ h[i] = f[i] /\ h[j] = f[j]
      BY <1>2, <2>1, <3>1
    <3>3. InSequence(f)
      BY DEF AreFragments
    <3>4. \/ f[i].triangle_id < f[j].triangle_id
          \/ f[i].triangle_id = f[j].triangle_id /\ (f[i].x # f[j].x \/ f[i].y # f[j].y)
      BY <1>6, <3>2, <3>3 DEF InSequence
    <3>5. QED
      BY <3>2, <3>4
  <2>2. CASE i \in 1 .. m /\ j - m \in 1 .. n /\ h[j] = g[j - m]
    BY <1>2, <1>3, <1>4, <2>2
  <2>3. CASE i - m \in 1 .. n /\ h[i] = g[i - m] /\ j - m \in 1 .. n /\ h[j] = g[j - m]
    <3>1. i - m # j - m
      BY <1>2, <1>6
    <3>2. h[i].triangle_id = h[j].triangle_id
      BY <1>4, <2>3
    <3>5. i - m \in DOMAIN g /\ j - m \in DOMAIN g
      BY <1>2, <2>3
    <3>6. g[i - m].x # g[j - m].x \/ g[i - m].y # g[j - m].y
      BY <3>1, <3>5 DEF Apart
    <3>3. h[i].x # h[j].x \/ h[i].y # h[j].y
      BY <2>3, <3>6
    <3>4. QED
      BY <3>2, <3>3
  <2>4. QED
    BY <1>2, <2>1, <2>2, <2>3
<1>7. ASSUME NEW t \in 1 .. c.indexCount \div 3, t < k + 1 PROVE HasPixels(h, c, X, Y, t)
  <2>1. SUFFICES ASSUME NEW px \in 0 .. Tile - 1, NEW py \in 0 .. Tile - 1,
                        Order!Inside(c, t, PixelOf(X, Y, px, py)) /\ ~IsCulled(c, t)
                 PROVE  \E i \in 1 .. m + n : h[i].triangle_id = t /\ h[i].x = X * Tile + px
                                              /\ h[i].y = Y * Tile + py
    BY <1>2 DEF HasPixels
  <2>2. CASE t < k
    <3>1. HasPixels(f, c, X, Y, t)
      BY <2>2 DEF AreFragments
    <3>2. PICK i \in DOMAIN f : f[i].triangle_id = t /\ f[i].x = X * Tile + px /\ f[i].y = Y * Tile + py
      BY <2>1, <3>1 DEF HasPixels
    <3>3. i \in 1 .. m + n /\ h[i] = f[i]
      BY <1>2
    <3>4. QED
      BY <3>2, <3>3
  <2>3. CASE t = k
    <3>1. PICK i \in DOMAIN g : g[i].triangle_id = t /\ g[i].x = X * Tile + px /\ g[i].y = Y * Tile + py
      BY <2>1, <2>3 DEF HasPixels
    <3>2. m + i \in 1 .. m + n /\ h[m + i] = g[i]
      BY <1>2
    <3>3. QED
      BY <3>1, <3>2
  <2>4. QED
    BY <1>7, <2>2, <2>3
<1>8. InSequence(h)
  BY <1>2, <1>6 DEF InSequence
<1>9. AreFragments(h, c, X, Y, k + 1)
  BY <1>2, <1>5, <1>7, <1>8 DEF AreFragments
<1>10. QED
  BY <1>9 DEF h

-----------------------------------------------------------------------------
(* Shading.                                                                *)

(* The pixel shader's inputs have outputs to come from. *)
OutputsSuffice == Locations(call.ps_inputs) \subseteq Locations(call.vs_outputs)

(* The pixels have the places of the corners of their triangles. *)
PlacesFetched ==
  \A i \in DOMAIN cur_tile.pinfos, c \in 0 .. 2 :
    cur_tile.positions[3 * (i - 1) + c].z = Order!Corner(call, cur_tile.pinfos[i].triangle_id, c).z

(* What RasterOrder allows of a pixel of call c. *)
DepthsOf(c, k, p) ==
  IF Order!Turn(c, k) > 0
    THEN {Order!Interpolated(c, k, p, LAMBDA i : Order!Corner(c, k, i).z)}
    ELSE Order!Between(LAMBDA i : Order!Corner(c, k, i).z)

AttributesOf(c, k, p, loc) ==
  IF Order!Turn(c, k) > 0
    THEN {Order!Interpolated(c, k, p, LAMBDA i : Order!Corner(c, k, i).attr[loc])}
    ELSE Order!Between(LAMBDA i : Order!Corner(c, k, i).attr[loc])

OpacityOf(c, k, p) ==
  IF c.opacityLocation = NoCall THEN {Full} ELSE AttributesOf(c, k, p, c.opacityLocation)

(* It is what RasterOrder says of the call under way. *)
LEMMA AllowedAre ==
  ASSUME NEW k, NEW p
  PROVE  /\ DepthsOf(call, k, p) = Order!Depths(k, p)
         /\ \A loc : AttributesOf(call, k, p, loc) = Order!Attributes(k, p, loc)
         /\ OpacityOf(call, k, p) = Order!Opacity(k, p)
<1>1. DepthsOf(call, k, p) = Order!Depths(k, p)
  BY DEF DepthsOf, Order!Depths, Order!Values
<1>2. \A loc : AttributesOf(call, k, p, loc) = Order!Attributes(k, p, loc)
  BY DEF AttributesOf, Order!Attributes, Order!Values
<1>3. OpacityOf(call, k, p) = Order!Opacity(k, p)
  BY <1>2 DEF OpacityOf, Order!Opacity
<1>4. QED
  BY <1>1, <1>2, <1>3

(* A color and a depth that are. *)
IsShaded(c, info, out, d) ==
  LET p == <<info.x, info.y>>
      k == info.triangle_id
  IN /\ d \in Nat /\ d \in DepthsOf(c, k, p)
     /\ \E v \in Values \cap AttributesOf(c, k, p, c.valueLocation), a \in Values \cap OpacityOf(c, k, p) :
          out = [value |-> v, alpha |-> a]

(* A mean of what is known to be the corners'. *)
MixOf(b, f0, f1, f2) == (b[1] * f0 + b[2] * f1 + b[3] * f2) \div (b[1] + b[2] + b[3])

(* The pixel shader gives a pixel what it may have. *)
LEMMA PixelIsShaded ==
  ASSUME call \in Calls, pc = "shade", PixelInputsMatch, OutputsSuffice, PlacesFetched,
         NEW X, NEW Y, NEW i \in Nat, i + 1 \in DOMAIN cur_tile.pinfos,
         IsFragment(cur_tile.pinfos[i + 1], call, X, Y)
  PROVE  IsShaded(call, cur_tile.pinfos[i + 1], PixelColor(i), PixelDepth(i))
<1> DEFINE info == cur_tile.pinfos[i + 1]
           k == info.triangle_id
           p == <<info.x, info.y>>
           b == info.b
<1>1. k \in 1 .. call.indexCount \div 3 /\ IsWeight(call, k, p, b)
  BY DEF IsFragment, PixelOf
<1>2. i + 1 \in DOMAIN cur_tile.pinfos /\ (i + 1) - 1 = i
  OBVIOUS
<1>3. ASSUME NEW c \in 0 .. 2
      PROVE  /\ Order!Corner(call, k, c).z \in Nat
             /\ \A loc \in Locations(call.vs_outputs) : Order!Corner(call, k, c).attr[loc] \in Values
  <2>1. /\ 3 * (k - 1) + c \in 0 .. call.indexCount - 1
        /\ Order!Corner(call, k, c) = Vertex(3 * (k - 1) + c)
    BY <1>1, CornerIs
  <2> HIDE DEF k
  <2>2. QED
    BY <2>1, VertexIs
<1>4. ASSUME NEW loc \in Locations(call.ps_inputs), NEW c \in 0 .. 2
      PROVE  Fetch(cur_tile.input, PixelStride, 3 * i + c, Offset(call.ps_inputs, loc))
               = Order!Corner(call, k, c).attr[loc]
  <2>1. PICK s \in DOMAIN call.ps_inputs : call.ps_inputs[s].location = loc
    BY DEF Locations
  <2>2. Fetch(cur_tile.input, PixelStride, 3 * ((i + 1) - 1) + c, Offset(call.ps_inputs, loc))
          = Order!Corner(call, k, c).attr[loc]
    BY <1>2, <2>1 DEF PixelInputsMatch
  <2>3. QED
    BY <1>2, <2>2
<1>5. 0 \in 0 .. 2 /\ 1 \in 0 .. 2 /\ 2 \in 0 .. 2
  OBVIOUS
<1>6. PixelDepth(i) \in Nat /\ PixelDepth(i) \in Order!Depths(k, p)
  <2> DEFINE z(c) == Order!Corner(call, k, c).z
  <2>1. \A c \in 0 .. 2 : cur_tile.positions[3 * i + c].z = z(c)
    <3>1. TAKE c \in 0 .. 2
    <3>2. cur_tile.positions[3 * ((i + 1) - 1) + c].z = z(c)
      BY <1>2 DEF PlacesFetched
    <3>3. QED
      BY <1>2, <3>2
  <2>2. PixelDepth(i) = MixOf(b, cur_tile.positions[3 * i + 0].z, cur_tile.positions[3 * i + 1].z,
                              cur_tile.positions[3 * i + 2].z)
    BY DEF PixelDepth, Mix, MixOf
  <2>3. PixelDepth(i) = MixOf(b, z(0), z(1), z(2))
    BY <1>5, <2>1, <2>2
  <2>4. z(0) \in Nat /\ z(1) \in Nat /\ z(2) \in Nat
    BY <1>3, <1>5
  <2> HIDE DEF k, p, b
  <2>5. QED
    BY <1>1, <2>3, <2>4, DepthIsValue DEF MixOf
<1> DEFINE mixed(loc) == Mix(cur_tile.pinfos[i + 1].b,
                             LAMBDA c : Fetch(cur_tile.input, PixelStride, 3 * i + c, Offset(call.ps_inputs, loc)))
<1>7. ASSUME NEW loc \in Locations(call.ps_inputs)
      PROVE  mixed(loc) \in Values /\ mixed(loc) \in Order!Attributes(k, p, loc)
  <2> DEFINE a(c) == Order!Corner(call, k, c).attr[loc]
             f(c) == Fetch(cur_tile.input, PixelStride, 3 * i + c, Offset(call.ps_inputs, loc))
  <2>1. f(0) = a(0) /\ f(1) = a(1) /\ f(2) = a(2)
    BY <1>4, <1>5
  <2>2. mixed(loc) = MixOf(b, f(0), f(1), f(2))
    BY DEF Mix, MixOf
  <2>3. mixed(loc) = MixOf(b, a(0), a(1), a(2))
    BY <2>1, <2>2
  <2>4. a(0) \in Values /\ a(1) \in Values /\ a(2) \in Values
    BY <1>3, <1>5 DEF OutputsSuffice
  <2> HIDE DEF k, p, b, mixed
  <2>5. QED
    BY <1>1, <2>3, <2>4, AttributeIsValue DEF MixOf
<1>8. PixelColor(i) = [value |-> mixed(call.valueLocation),
                       alpha |-> IF call.opacityLocation = NoCall THEN Full ELSE mixed(call.opacityLocation)]
  BY DEF PixelColor
<1> HIDE DEF mixed, k, p
<1>9. /\ call.valueLocation \in Locations(call.ps_inputs)
      /\ call.opacityLocation \in Locations(call.ps_inputs) \cup {NoCall}
      /\ Full \in Values
  BY DrawAssumption DEF Values
<1> DEFINE alpha == IF call.opacityLocation = NoCall THEN Full ELSE mixed(call.opacityLocation)
<1>10. alpha \in Values /\ alpha \in Order!Opacity(k, p)
  <2>1. CASE call.opacityLocation = NoCall
    BY <1>9, <2>1 DEF Order!Opacity
  <2>2. CASE call.opacityLocation # NoCall
    <3>1. alpha = mixed(call.opacityLocation) /\ call.opacityLocation \in Locations(call.ps_inputs)
      BY <1>9, <2>2
    <3>2. Order!Opacity(k, p) = Order!Attributes(k, p, call.opacityLocation)
      BY <2>2 DEF Order!Opacity
    <3>3. QED
      BY <1>7, <3>1, <3>2
  <2>3. QED
    BY <2>1, <2>2
<1>11. mixed(call.valueLocation) \in Values \cap Order!Attributes(k, p, call.valueLocation)
  BY <1>7, <1>9
<1> HIDE DEF alpha
<1>12. PixelColor(i) = [value |-> mixed(call.valueLocation), alpha |-> alpha]
  BY <1>8 DEF alpha
<1>13. QED
  BY <1>6, <1>10, <1>11, <1>12, AllowedAre DEF IsShaded, k, p

-----------------------------------------------------------------------------
(* The tiles of the framebuffer.                                           *)

(* How far a tile reaches. *)
LEMMA TilesReach ==
  ASSUME NEW size \in Nat \ {0}, NEW n, n = (size + Tile - 1) \div Tile,
         NEW a \in 0 .. size - 1
  PROVE  /\ n \in Nat \ {0} /\ a \div Tile \in 0 .. n - 1 /\ a % Tile \in 0 .. Tile - 1
         /\ a = (a \div Tile) * Tile + (a % Tile)
<1>1. Tile \in Nat \ {0}
  BY TileAssumption
<1> DEFINE t == Tile
           d == a \div t
           m == size + t - 1
<1>2. t \in Nat \ {0} /\ m \in Nat /\ a \in Nat
  BY <1>1
<1>3. d \in Nat /\ a = t * d + (a % t) /\ a % t \in 0 .. t - 1
  BY <1>2
<1>4. n \in Nat /\ m = t * n + (m % t) /\ m % t \in 0 .. t - 1
  <2>1. n = m \div t
    OBVIOUS
  <2> HIDE DEF m, t
  <2>5. \A e \in Int, g \in Nat \ {0} : e \div g \in Int /\ e = g * (e \div g) + (e % g) /\ e % g \in 0 .. g - 1
    OBVIOUS
  <2>6. m \in Int
    BY <1>2
  <2>7. m \div t \in Int /\ m = t * (m \div t) + (m % t) /\ m % t \in 0 .. t - 1
    BY <1>2, <2>5, <2>6
  <2>2. n \in Int /\ m = t * n + (m % t) /\ m % t \in 0 .. t - 1
    BY <2>1, <2>7
  <2>3. n \in Nat
    <3>1. \A e \in Nat, g \in Nat \ {0} : e \div g \in Nat
      OBVIOUS
    <3>2. QED
      BY <1>2, <2>1, <3>1
  <2>4. QED
    BY <2>2, <2>3
<1>5. size <= t * n /\ a < t * n
  <2>1. m = size + t - 1
    OBVIOUS
  <2>2. t * n \in Int
    BY <1>2, <1>4
  <2> HIDE DEF m, t
  <2>3. QED
    BY <1>2, <1>4, <2>1, <2>2
<1> HIDE DEF t, d
<1>6. t * d \in Nat /\ t * d <= a /\ t * d = d * t
  BY <1>2, <1>3
<1>7. d < n
  <2>1. SUFFICES ASSUME n <= d PROVE FALSE
    BY <1>3, <1>4
  <2>2. d - n \in Nat
    BY <1>3, <1>4, <2>1
  <2>3. t * d = t * n + t * (d - n) /\ t * (d - n) \in Nat /\ t * n \in Int
    BY <1>2, <1>3, <1>4, <2>2
  <2>4. QED
    BY <1>2, <1>5, <1>6, <2>3
<1>8. QED
  BY <1>2, <1>3, <1>4, <1>6, <1>7 DEF d, t

(* A pixel of the framebuffer and its tile. *)
XOf(p) == p[1] \div Tile
YOf(p) == p[2] \div Tile

(* A pixel lies in the tile it belongs to. *)
LEMMA TileOf ==
  ASSUME NEW p \in FramePixels
  PROVE  /\ XOf(p) \in 0 .. XTiles - 1 /\ YOf(p) \in 0 .. YTiles - 1
         /\ XTiles \in Nat \ {0} /\ YTiles \in Nat \ {0}
         /\ \E px, py \in 0 .. Tile - 1 :
              /\ p = PixelOf(XOf(p), YOf(p), px, py)
              /\ p[1] = XOf(p) * Tile + px /\ p[2] = YOf(p) * Tile + py
<1>1. Width \in Nat \ {0} /\ Height \in Nat \ {0}
  BY DrawAssumption
<1>2. p[1] \in 0 .. Width - 1 /\ p[2] \in 0 .. Height - 1 /\ p = <<p[1], p[2]>>
  BY DEF FramePixels
<1>3. /\ XTiles \in Nat \ {0} /\ XOf(p) \in 0 .. XTiles - 1 /\ p[1] % Tile \in 0 .. Tile - 1
      /\ p[1] = XOf(p) * Tile + (p[1] % Tile)
  BY <1>1, <1>2, TilesReach DEF XTiles, XOf
<1>4. /\ YTiles \in Nat \ {0} /\ YOf(p) \in 0 .. YTiles - 1 /\ p[2] % Tile \in 0 .. Tile - 1
      /\ p[2] = YOf(p) * Tile + (p[2] % Tile)
  BY <1>1, <1>2, TilesReach DEF YTiles, YOf
<1>5. p = PixelOf(XOf(p), YOf(p), p[1] % Tile, p[2] % Tile)
  BY <1>2, <1>3, <1>4 DEF PixelOf
<1>6. QED
  BY <1>3, <1>4, <1>5

(* There are tiles, and the first is at the corner of the framebuffer. *)
LEMMA TilesAre == XTiles \in Nat \ {0} /\ YTiles \in Nat \ {0}
<1>1. Width \in Nat \ {0} /\ Height \in Nat \ {0}
  BY DrawAssumption
<1>2. <<0, 0>> \in FramePixels
  BY <1>1 DEF FramePixels
<1>3. QED
  BY <1>2, TileOf

(* A fragment lies in its tile. *)
LEMMA TileOfFragment ==
  ASSUME NEW c, NEW X \in Int, NEW Y \in Int, NEW info, IsFragment(info, c, X, Y)
  PROVE  /\ XOf(<<info.x, info.y>>) = X /\ YOf(<<info.x, info.y>>) = Y
         /\ info.triangle_id \in 1 .. c.indexCount \div 3
         /\ Order!Touches(c, info.triangle_id, <<info.x, info.y>>)
         /\ ~IsCulled(c, info.triangle_id)
<1>1. PICK px \in 0 .. Tile - 1, py \in 0 .. Tile - 1 :
        /\ info.x = X * Tile + px /\ info.y = Y * Tile + py
        /\ info.triangle_id \in 1 .. c.indexCount \div 3
        /\ Order!Touches(c, info.triangle_id, PixelOf(X, Y, px, py))
        /\ ~IsCulled(c, info.triangle_id)
  BY DEF IsFragment
<1>2. Tile \in Nat \ {0}
  BY TileAssumption
<1>3. (X * Tile + px) \div Tile = X /\ (Y * Tile + py) \div Tile = Y
  BY <1>2, QuotientOf
<1>4. <<info.x, info.y>> = PixelOf(X, Y, px, py)
  BY <1>1 DEF PixelOf
<1>5. QED
  BY <1>1, <1>3, <1>4 DEF XOf, YOf

(* What a pixel has taken of the first fragments.                          *)
Merged(f, n, p) ==
  {f[i].triangle_id : i \in {j \in DOMAIN f : j < n /\ f[j].x = p[1] /\ f[j].y = p[2]}}

(* A pixel that has taken the triangles it is inside of. *)
TakesAll(c, took, p) ==
  \A k \in 1 .. c.indexCount \div 3 : Order!Inside(c, k, p) /\ ~IsCulled(c, k) => k \in took

(* With all fragments of its tile a pixel has taken its triangles. *)
LEMMA AllMerged ==
  ASSUME NEW c, NEW n, NEW f, NEW p \in FramePixels,
         AreFragments(f, c, XOf(p), YOf(p), c.indexCount \div 3 + 1), c.indexCount \in Nat,
         NEW m, \A i \in DOMAIN f : i < m
  PROVE  TakesAll(c, Merged(f, m, p), p)
<1>1. PICK px \in 0 .. Tile - 1, py \in 0 .. Tile - 1 :
        /\ p = PixelOf(XOf(p), YOf(p), px, py)
        /\ p[1] = XOf(p) * Tile + px /\ p[2] = YOf(p) * Tile + py
  BY TileOf
<1>2. SUFFICES ASSUME NEW k \in 1 .. c.indexCount \div 3, Order!Inside(c, k, p), ~IsCulled(c, k)
               PROVE  k \in Merged(f, m, p)
  BY DEF TakesAll
<1>3. HasPixels(f, c, XOf(p), YOf(p), k)
  <2>1. k < c.indexCount \div 3 + 1
    OBVIOUS
  <2>2. QED
    BY <2>1 DEF AreFragments
<1>4. \E i \in DOMAIN f : f[i].triangle_id = k /\ f[i].x = XOf(p) * Tile + px /\ f[i].y = YOf(p) * Tile + py
  BY <1>1, <1>2, <1>3 DEF HasPixels
<1>5. PICK i \in DOMAIN f : f[i].triangle_id = k /\ f[i].x = p[1] /\ f[i].y = p[2]
  BY <1>1, <1>4
<1>6. QED
  BY <1>5 DEF Merged

-----------------------------------------------------------------------------
(* The tiles one after the other.                                          *)

VertexStages == {"descriptors", "IA", "VS", "PA"}

(* The pixels of the tile, and of the tiles before it. *)
Here(p) == XOf(p) = cur_tile.x /\ YOf(p) = cur_tile.y

Passed(p) == YOf(p) < cur_tile.y \/ (YOf(p) = cur_tile.y /\ XOf(p) < cur_tile.x)

(* Pixels before the n-th have the output and the depth they may have. *)
ShadedBelow(n) ==
  \A i \in DOMAIN cur_tile.pinfos :
    i < n => IsShaded(call, cur_tile.pinfos[i], cur_tile.output[i], cur_tile.depth_output[i])

(***************************************************************************)
(* The inductive invariant: the corners and the tile are where they        *)
(* belong; the fragments of the tile are those of the triangles so far, in *)
(* order; they are shaded as they may be; and the pixels of the tiles      *)
(* before have taken all their triangles, those of this tile the fragments *)
(* merged so far, and the others nothing yet.                              *)
(***************************************************************************)
Placed ==
  /\ pc = "idle" => call = NoCall
  /\ pc \in {"begin_tile"} \cup TileStages =>
       CornersInPlace /\ cur_tile.x \in 0 .. XTiles - 1 /\ cur_tile.y \in 0 .. YTiles - 1

Found ==
  /\ pc = "rasterize" => AreFragments(cur_tile.pinfos, call, cur_tile.x, cur_tile.y, next)
  /\ pc \in TileStages \ {"rasterize"} =>
       AreFragments(cur_tile.pinfos, call, cur_tile.x, cur_tile.y, call.indexCount \div 3 + 1)

Shaded ==
  /\ pc \in {"begin_tile", "rasterize", "setup"} => cur_tile.output = <<>> /\ cur_tile.depth_output = <<>>
  /\ pc = "shade" =>
       /\ OutputsSuffice /\ PlacesFetched /\ next \in Nat
       /\ IsSequence(cur_tile.output) /\ Len(cur_tile.output) = next * SubgroupSize
       /\ IsSequence(cur_tile.depth_output) /\ Len(cur_tile.depth_output) = next * SubgroupSize
       /\ ShadedBelow(next * SubgroupSize + 1)
  /\ pc = "merge" => next \in Nat \ {0} /\ ShadedBelow(Len(cur_tile.pinfos) + 1)

Taken ==
  /\ DOMAIN taken = FramePixels
  /\ pc \in VertexStages => \A p \in FramePixels : taken[p] = {}
  /\ pc \in {"begin_tile"} \cup TileStages =>
       \A p \in FramePixels :
         /\ Passed(p) => TakesAll(call, taken[p], p)
         /\ ~Passed(p) /\ ~Here(p) => taken[p] = {}
  /\ pc \in {"begin_tile", "rasterize", "setup", "shade"} => \A p \in FramePixels : Here(p) => taken[p] = {}
  /\ pc = "merge" => \A p \in FramePixels : Here(p) => taken[p] = Merged(cur_tile.pinfos, next, p)
  /\ pc = "end_tile" => \A p \in FramePixels : Here(p) => TakesAll(call, taken[p], p)
  /\ pc = "end_draw" => \A p \in FramePixels : TakesAll(call, taken[p], p)

DrawInv == pc # "trap" => Placed /\ Found /\ Shaded /\ Taken

(* The triangles of the calls have an area. *)
AreasAre == \A c \in Calls : \A k \in 1 .. c.indexCount \div 3 : HasArea(c, k)

-----------------------------------------------------------------------------
(* The steps up to the shading.                                            *)

(* A step within a call, before its pixels are merged. *)
LEMMA TakenStays ==
  ASSUME Taken, call' = call, taken' = taken, cur_tile'.x = cur_tile.x, cur_tile'.y = cur_tile.y,
         \/ pc \in VertexStages /\ pc' \in VertexStages
         \/ pc \in {"begin_tile", "rasterize", "setup", "shade"}
            /\ pc' \in {"begin_tile", "rasterize", "setup", "shade"}
  PROVE  Taken'
<1>1. CASE pc \in VertexStages /\ pc' \in VertexStages
  BY <1>1 DEF Taken, VertexStages, TileStages
<1>2. CASE pc \in {"begin_tile", "rasterize", "setup", "shade"}
           /\ pc' \in {"begin_tile", "rasterize", "setup", "shade"}
  <2>1. \A p : (Passed(p)' <=> Passed(p)) /\ (Here(p)' <=> Here(p))
    BY DEF Passed, Here
  <2>2. /\ DOMAIN taken = FramePixels
        /\ \A p \in FramePixels : /\ Passed(p) => TakesAll(call, taken[p], p)
                                  /\ ~Passed(p) /\ ~Here(p) => taken[p] = {}
        /\ \A p \in FramePixels : Here(p) => taken[p] = {}
    BY <1>2 DEF Taken, TileStages
  <2>3. /\ DOMAIN taken' = FramePixels
        /\ \A p \in FramePixels : /\ Passed(p)' => TakesAll(call', taken'[p], p)
                                  /\ ~Passed(p)' /\ ~Here(p)' => taken'[p] = {}
        /\ \A p \in FramePixels : Here(p)' => taken'[p] = {}
    BY <2>1, <2>2
  <2>4. QED
    BY <1>2, <2>3 DEF Taken, TileStages, VertexStages
<1>3. QED
  BY <1>1, <1>2

(* The vertices stay where they are. *)
LEMMA PlacesStay ==
  ASSUME call' = call, UNCHANGED geometry
  PROVE  CornersInPlace => CornersInPlace'
BY DEF CornersInPlace, Vertex, geometry

(* Before the first tile. *)
LEMMA AssemblyPlaces ==
  ASSUME call \in Calls, PositionsInPlace, Taken, PA_stage, pc' # "trap"
  PROVE  (Placed /\ Found /\ Shaded /\ Taken)'
<1>1. pc = "PA" /\ pc' = "begin_tile" /\ call' = call /\ taken' = taken /\ cur_tile' = NoTile
  BY DEF PA_stage, Proceed, target
<1>2. /\ cur_tile'.x = 0 /\ cur_tile'.y = 0
      /\ cur_tile'.output = <<>> /\ cur_tile'.depth_output = <<>>
  BY <1>1 DEF NoTile
<1>3. Placed'
  BY <1>1, <1>2, CornersArePlaced, TilesAre DEF Placed, TileStages
<1>4. Found' /\ Shaded'
  BY <1>1, <1>2 DEF Found, Shaded, TileStages
<1>5. DOMAIN taken = FramePixels /\ \A p \in FramePixels : taken[p] = {}
  BY <1>1 DEF Taken, VertexStages
<1>6. \A p \in FramePixels : ~Passed(p)'
  <2>1. TAKE p \in FramePixels
  <2>2. XOf(p) \in Nat /\ YOf(p) \in Nat
    BY TileOf
  <2>3. QED
    BY <1>2, <2>2 DEF Passed
<1>7. Taken'
  BY <1>1, <1>5, <1>6 DEF Taken, TileStages, VertexStages
<1>8. QED
  BY <1>3, <1>4, <1>7

(* A tile begins without fragments. *)
LEMMA TileBeginsEmpty ==
  ASSUME StagesMatch, Placed, Found, Shaded, Taken, begin_tile, pc' # "trap"
  PROVE  (Placed /\ Found /\ Shaded /\ Taken)'
<1>1. /\ pc = "begin_tile" /\ pc' = "rasterize" /\ call' = call /\ taken' = taken /\ cur_tile' = cur_tile
      /\ next' = 1 /\ UNCHANGED geometry
  BY DEF begin_tile, Proceed, target
<1>2. cur_tile.pinfos = <<>>
  BY <1>1 DEF StagesMatch
<1>3. Placed'
  BY <1>1, PlacesStay DEF Placed, TileStages
<1>4. Found'
  BY <1>1, <1>2, NoFragments DEF Found, TileStages
<1>5. Shaded'
  BY <1>1 DEF Shaded
<1>6. Taken'
  BY <1>1, TakenStays
<1>7. QED
  BY <1>3, <1>4, <1>5, <1>6

(* One more triangle of the tile. *)
LEMMA TriangleFound ==
  ASSUME AreasAre, StagesMatch, Placed, Found, Shaded, Taken, rasterize_current_tile
  PROVE  (Placed /\ Found /\ Shaded /\ Taken)'
<1> DEFINE ids == 1 .. call.indexCount \div 3
           X == cur_tile.x
           Y == cur_tile.y
           f == cur_tile.pinfos
<1>1. /\ pc = "rasterize" /\ pc' \in {"rasterize", "setup"}
      /\ call' = call /\ UNCHANGED geometry /\ taken' = taken
  BY DEF rasterize_current_tile, target
<1>2. /\ call \in Calls /\ call.indexCount \in Nat /\ next \in Nat \ {0}
      /\ DOMAIN cur_tile = DOMAIN NoTile /\ X \in Int /\ Y \in Int
  BY <1>1, DrawAssumption DEF StagesMatch, TileStages
<1>3. /\ AreFragments(f, call, X, Y, next)
      /\ CornersInPlace /\ X \in 0 .. XTiles - 1 /\ Y \in 0 .. YTiles - 1
      /\ cur_tile.output = <<>> /\ cur_tile.depth_output = <<>>
  BY <1>1 DEF Found, Placed, Shaded, TileStages
<1>4. CASE ~(next <= call.indexCount \div 3)
  <2>1. pc' = "setup" /\ cur_tile' = cur_tile
    BY <1>4 DEF rasterize_current_tile
  <2>2. AreFragments(f, call, X, Y, call.indexCount \div 3 + 1)
    <3> DEFINE n == call.indexCount \div 3
    <3>1. n \in Nat
      BY <1>2
    <3>2. ASSUME NEW i \in DOMAIN f PROVE IsFragment(f[i], call, X, Y) /\ f[i].triangle_id < n + 1
      <4>1. IsFragment(f[i], call, X, Y)
        BY <1>3 DEF AreFragments
      <4>2. f[i].triangle_id \in 1 .. n
        BY <1>2, <4>1, TileOfFragment
      <4>3. QED
        BY <3>1, <4>1, <4>2
    <3>3. \A k \in 1 .. n : k < next
      BY <1>2, <1>4, <3>1
    <3>4. QED
      BY <1>3, <3>2, <3>3 DEF AreFragments
  <2>3. Placed' /\ Found' /\ Shaded'
    BY <1>1, <1>3, <2>1, <2>2, PlacesStay DEF Placed, Found, Shaded, TileStages
  <2>4. Taken'
    BY <1>1, <2>1, TakenStays
  <2>5. QED
    BY <2>3, <2>4
<1>5. CASE next <= call.indexCount \div 3
  <2> DEFINE v == <<TileCorner(next, 0), TileCorner(next, 1), TileCorner(next, 2)>>
             found == IF Culled(call.cullMode, call.frontFace, Area(v)) THEN <<>>
                      ELSE Invocations(next, v, X, Y)
             count == Max({cur_tile.tiles, SmallTiles(found)})
  <2>1. /\ cur_tile' = [cur_tile EXCEPT !.pinfos = @ \o found, !.tiles = count]
        /\ next' = next + 1 /\ pc' = pc
    BY <1>5 DEF rasterize_current_tile
  <2>2. next \in ids
    BY <1>2, <1>5
  <2>3. IsMoved(v, call, next, X, Y)
    BY <1>2, <1>3, <2>2, TileCornersAre
  <2>4. HasArea(call, next)
    BY <1>2, <2>2 DEF AreasAre
  <2> HIDE DEF v, count
  <2>5. /\ IsSequence(found) /\ Apart(found)
        /\ \A i \in DOMAIN found : IsFragment(found[i], call, X, Y) /\ found[i].triangle_id = next
        /\ HasPixels(found, call, X, Y, next)
    BY <1>2, <2>2, <2>3, <2>4, FoundAreFragments
  <2> HIDE DEF found
  <2>6. AreFragments(f \o found, call, X, Y, next + 1)
    BY <1>2, <1>3, <2>5, FragmentsAdded
  <2>7. /\ cur_tile'.x = X /\ cur_tile'.y = Y /\ cur_tile'.pinfos = f \o found
        /\ cur_tile'.output = cur_tile.output /\ cur_tile'.depth_output = cur_tile.depth_output
    BY <1>2, <2>1 DEF NoTile
  <2>8. Placed' /\ Found' /\ Shaded'
    BY <1>1, <1>3, <2>1, <2>6, <2>7, PlacesStay DEF Placed, Found, Shaded, TileStages
  <2>9. Taken'
    BY <1>1, <2>1, <2>7, TakenStays
  <2>10. QED
    BY <2>8, <2>9
<1>6. QED
  BY <1>4, <1>5

(* A sequence of fragments has its indices. *)
LEMMA FragmentsAre ==
  ASSUME NEW f, NEW c, NEW X, NEW Y, NEW n, AreFragments(f, c, X, Y, n)
  PROVE  Len(f) \in Nat /\ DOMAIN f = 1 .. Len(f)
<1>1. PICK S : f \in Seq(S)
  BY DEF AreFragments, IsSequence
<1>2. QED
  BY <1>1

(* A tile without pixels is left at once. *)
LEMMA EmptyTile ==
  ASSUME StagesMatch, Placed, Found, Shaded, Taken, setup_pixel_input_current_tile,
         Len(cur_tile.pinfos) = 0
  PROVE  (Placed /\ Found /\ Shaded /\ Taken)'
<1>1. /\ pc = "setup" /\ pc' = "end_tile" /\ call' = call /\ UNCHANGED geometry /\ taken' = taken
      /\ cur_tile' = cur_tile
  BY DEF setup_pixel_input_current_tile, target
<1>2. /\ AreFragments(cur_tile.pinfos, call, cur_tile.x, cur_tile.y, call.indexCount \div 3 + 1)
      /\ call \in Calls /\ call.indexCount \in Nat
  BY <1>1, DrawAssumption DEF Found, StagesMatch, TileStages
<1>3. Placed' /\ Found' /\ Shaded'
  BY <1>1, PlacesStay DEF Placed, Found, Shaded, TileStages
<1>4. /\ DOMAIN taken = FramePixels
      /\ \A p \in FramePixels : /\ Passed(p) => TakesAll(call, taken[p], p)
                                /\ ~Passed(p) /\ ~Here(p) => taken[p] = {}
      /\ \A p \in FramePixels : Here(p) => taken[p] = {}
  BY <1>1 DEF Taken, TileStages
<1>5. ASSUME NEW p \in FramePixels, Here(p) PROVE TakesAll(call, taken[p], p)
  <2>1. DOMAIN cur_tile.pinfos = {}
    BY <1>2, FragmentsAre
  <2>2. TakesAll(call, Merged(cur_tile.pinfos, 1, p), p)
    BY <1>2, <1>5, <2>1, AllMerged DEF Here
  <2>3. Merged(cur_tile.pinfos, 1, p) = {}
    BY <2>1 DEF Merged
  <2>4. QED
    BY <1>4, <1>5, <2>2, <2>3
<1>6. Taken'
  <2>1. \A p : (Passed(p)' <=> Passed(p)) /\ (Here(p)' <=> Here(p))
    BY <1>1 DEF Passed, Here
  <2>2. /\ DOMAIN taken' = FramePixels
        /\ \A p \in FramePixels : /\ Passed(p)' => TakesAll(call', taken'[p], p)
                                  /\ ~Passed(p)' /\ ~Here(p)' => taken'[p] = {}
        /\ \A p \in FramePixels : Here(p)' => TakesAll(call', taken'[p], p)
    BY <1>1, <1>4, <1>5, <2>1
  <2>3. QED
    BY <1>1, <2>2 DEF Taken, VertexStages
<1>7. QED
  BY <1>3, <1>6

(* The pixel shader's inputs come from outputs of the vertex shader.       *)
LEMMA OutputsDoSuffice ==
  ASSUME call \in Calls,
         \A i \in DOMAIN Slots(call.ps_inputs) :
           MatchingSlot(Slots(call.vs_outputs), Slots(call.ps_inputs)[i].location).format
             = Slots(call.ps_inputs)[i].format
  PROVE  OutputsSuffice
<1> DEFINE p == call.ps_inputs
           q == call.vs_outputs
<1>1. p \in InterfaceVariables /\ q \in InterfaceVariables
  BY DrawAssumption
<1>2. SUFFICES ASSUME NEW loc \in Locations(p) PROVE loc \in Locations(q)
  BY DEF OutputsSuffice
<1>3. PICK i \in DOMAIN Slots(p) : Slots(p)[i].location = loc /\ Slots(p)[i].format \in Formats
  BY <1>1, SlotsAre
<1>4. MatchingSlot(Slots(q), loc).format \in Formats
  BY <1>3
<1>5. QED
  BY <1>1, <1>4, MatchingSlotIs

(* The set-up fetches the corners of the pixels. *)
LEMMA SetupPlaces ==
  ASSUME StagesMatch, Placed, Found, Shaded, Taken, setup_pixel_input_current_tile, pc' # "trap",
         Len(cur_tile.pinfos) # 0
  PROVE  (Placed /\ Found /\ Shaded /\ Taken)'
<1> DEFINE n == Len(cur_tile.pinfos)
           N == Units(n)
           p == call.ps_inputs
           q == call.vs_outputs
           from(i) == MatchingSlot(Slots(q), Slots(p)[i].location)
           vertex(u) == 3 * (cur_tile.pinfos[(u \div 3) + 1].triangle_id - 1) + (u % 3)
<1>1. pc = "setup" /\ pc' = "shade" /\ call' = call /\ UNCHANGED geometry /\ taken' = taken /\ next' = 0
  BY DEF setup_pixel_input_current_tile, target, Proceed
<1>2. /\ AreFragments(cur_tile.pinfos, call, cur_tile.x, cur_tile.y, call.indexCount \div 3 + 1)
      /\ call \in Calls /\ call.indexCount \in Nat /\ DOMAIN cur_tile = DOMAIN NoTile
      /\ cur_tile.x \in Int /\ cur_tile.y \in Int /\ CornersInPlace
      /\ cur_tile.output = <<>> /\ cur_tile.depth_output = <<>>
  BY <1>1, DrawAssumption DEF Found, StagesMatch, TileStages, Placed, Shaded
<1>3. n \in Nat /\ DOMAIN cur_tile.pinfos = 1 .. n
  BY <1>2, FragmentsAre
<1>4. N \in Nat /\ n <= N /\ 3 * N \in Nat
  BY <1>3, UnitsSuffice
<1>5. \A i \in DOMAIN Slots(p) : from(i).format = Slots(p)[i].format
  BY <1>1 DEF setup_pixel_input_current_tile, Proceed, PixelSlots, OutputSlots
<1>6. PICK input :
        cur_tile' = [cur_tile EXCEPT
          !.input = input,
          !.positions = [u \in 0 .. 3 * N - 1 |-> IF u < 3 * n THEN assembly[vertex(u)] ELSE Junk]]
  BY DEF setup_pixel_input_current_tile
<1> HIDE DEF from, N
<1> DEFINE positions == [u \in 0 .. 3 * N - 1 |-> IF u < 3 * n THEN assembly[vertex(u)] ELSE Junk]
<1>7. /\ cur_tile'.x = cur_tile.x /\ cur_tile'.y = cur_tile.y /\ cur_tile'.pinfos = cur_tile.pinfos
      /\ cur_tile'.output = cur_tile.output /\ cur_tile'.depth_output = cur_tile.depth_output
      /\ cur_tile'.positions = positions
  <2> HIDE DEF positions
  <2>1. cur_tile' = [cur_tile EXCEPT !.input = input, !.positions = positions]
    BY <1>6 DEF positions
  <2>2. QED
    BY <1>2, <2>1 DEF NoTile
<1>8. OutputsSuffice'
  <2>1. OutputsSuffice
    BY <1>2, <1>5, OutputsDoSuffice DEF from
  <2>2. QED
    BY <1>1, <2>1 DEF OutputsSuffice
<1>9. ASSUME NEW i \in 1 .. n, NEW c \in 0 .. 2
      PROVE  positions[3 * (i - 1) + c].z = Order!Corner(call, cur_tile.pinfos[i].triangle_id, c).z
  <2> DEFINE u == 3 * (i - 1) + c
             t == cur_tile.pinfos[i].triangle_id
  <2>1. u \in 0 .. 3 * N - 1 /\ u < 3 * n /\ u \div 3 = i - 1 /\ u % 3 = c /\ (i - 1) + 1 = i
    BY <1>3, <1>4
  <2>2. t \in 1 .. call.indexCount \div 3
    <3>1. IsFragment(cur_tile.pinfos[i], call, cur_tile.x, cur_tile.y)
      BY <1>2, <1>3 DEF AreFragments
    <3>2. QED
      BY <3>1 DEF IsFragment
  <2> HIDE DEF u
  <2>3. vertex(u) = 3 * (t - 1) + c
    BY <2>1
  <2> HIDE DEF t, vertex
  <2>4. positions[u] = assembly[vertex(u)]
    BY <2>1
  <2>5. 3 * (t - 1) + c \in 0 .. call.indexCount - 1 /\ Order!Corner(call, t, c) = Vertex(3 * (t - 1) + c)
    BY <1>2, <2>2, CornerIs
  <2>6. assembly[3 * (t - 1) + c].z = Vertex(3 * (t - 1) + c).z
    BY <1>2, <2>5 DEF CornersInPlace
  <2>7. QED
    BY <2>3, <2>4, <2>5, <2>6 DEF u, t
<1> HIDE DEF positions, vertex
<1>10. PlacesFetched'
  BY <1>1, <1>3, <1>7, <1>9 DEF PlacesFetched
<1>11. Shaded'
  <2>1. SubgroupSize \in Nat \ {0}
    BY DrawAssumption
  <2>2. next' * SubgroupSize = 0 /\ next' \in Nat
    BY <1>1, <2>1
  <2>3. IsSequence(<<>>) /\ Len(<<>>) = 0
    BY NoFragments DEF AreFragments
  <2>4. ShadedBelow(next * SubgroupSize + 1)'
    BY <1>3, <1>7, <2>2 DEF ShadedBelow
  <2>5. QED
    BY <1>1, <1>2, <1>7, <1>8, <1>10, <2>2, <2>3, <2>4 DEF Shaded
<1>12. Placed' /\ Found'
  BY <1>1, <1>2, <1>7, PlacesStay DEF Placed, Found, TileStages
<1>13. Taken'
  BY <1>1, <1>7, TakenStays
<1>14. QED
  BY <1>11, <1>12, <1>13

(* Every subgroup has run once enough have. *)
LEMMA SubgroupsSuffice ==
  ASSUME NEW n \in Nat, NEW k \in Nat, ~(k < Subgroups(n))
  PROVE  n <= k * SubgroupSize
<1>1. SubgroupSize \in Nat \ {0} /\ Subgroups(n) \in Nat /\ Units(n) = Subgroups(n) * SubgroupSize
      /\ n <= Units(n)
  BY SizesAre, UnitsSuffice, DrawAssumption DEF Units
<1> DEFINE m == Subgroups(n)
           g == SubgroupSize
<1>2. m \in Nat /\ g \in Nat \ {0} /\ n <= m * g /\ m <= k
  BY <1>1
<1> HIDE DEF m, g
<1>3. k - m \in Nat /\ k * g = m * g + (k - m) * g /\ (k - m) * g \in Nat /\ m * g \in Nat
  BY <1>2
<1>4. n <= k * g
  BY <1>2, <1>3
<1>5. QED
  BY <1>4 DEF g

(* A subgroup more. *)
LEMMA SubgroupShaded ==
  ASSUME StagesMatch, PixelInputsMatch, Placed, Found, Shaded, Taken, shade_current_tile,
         next < Subgroups(Len(cur_tile.pinfos))
  PROVE  (Placed /\ Found /\ Shaded /\ Taken)'
<1> DEFINE f == cur_tile.pinfos
           n == Len(f)
           G == SubgroupSize
           lane(j) == next * G + j - 1
           F == [j \in 1 .. G |-> IF lane(j) < n THEN PixelColor(lane(j)) ELSE Junk]
           D == [j \in 1 .. G |-> IF lane(j) < n THEN PixelDepth(lane(j)) ELSE Junk]
           out == cur_tile.output
           dep == cur_tile.depth_output
<1>1. /\ pc = "shade" /\ pc' = "shade" /\ call' = call /\ UNCHANGED geometry /\ taken' = taken
      /\ next' = next + 1
      /\ cur_tile' = [cur_tile EXCEPT !.output = @ \o F, !.depth_output = @ \o D]
  BY DEF shade_current_tile, target
<1>2. /\ AreFragments(f, call, cur_tile.x, cur_tile.y, call.indexCount \div 3 + 1)
      /\ call \in Calls /\ DOMAIN cur_tile = DOMAIN NoTile
      /\ OutputsSuffice /\ PlacesFetched /\ next \in Nat
      /\ IsSequence(out) /\ Len(out) = next * G
      /\ IsSequence(dep) /\ Len(dep) = next * G
      /\ ShadedBelow(next * G + 1)
  BY <1>1 DEF Found, StagesMatch, TileStages, Shaded
<1>3. n \in Nat /\ DOMAIN f = 1 .. n
  BY <1>2, FragmentsAre
<1>4. G \in Nat \ {0} /\ next * G \in Nat /\ (next + 1) * G = next * G + G
  <2>1. G \in Nat \ {0}
    BY DrawAssumption
  <2> HIDE DEF G
  <2>2. QED
    BY <1>2, <2>1
<1>5. IsSequence(F) /\ Len(F) = G /\ IsSequence(D) /\ Len(D) = G
  <2> DEFINE h(j) == IF lane(j) < n THEN PixelColor(lane(j)) ELSE Junk
             e(j) == IF lane(j) < n THEN PixelDepth(lane(j)) ELSE Junk
  <2>1. F = [j \in 1 .. G |-> h(j)] /\ D = [j \in 1 .. G |-> e(j)]
    OBVIOUS
  <2> HIDE DEF F, D, h, e, G
  <2>2. F \in Seq({h(j) : j \in 1 .. G}) /\ D \in Seq({e(j) : j \in 1 .. G})
    BY <1>4, <2>1
  <2>3. Len(F) = G /\ Len(D) = G
    BY <1>4, <2>1
  <2>4. QED
    BY <2>2, <2>3 DEF IsSequence
<1>6. ASSUME NEW i \in 1 .. n, next * G < i, i < (next + 1) * G + 1
      PROVE  /\ i - next * G \in 1 .. G
             /\ F[i - next * G] = PixelColor(i - 1) /\ D[i - next * G] = PixelDepth(i - 1)
  <2>1. PICK j \in 1 .. G : j = i - next * G
    <3> HIDE DEF G
    <3>1. QED
      BY <1>3, <1>4, <1>6
  <2>2. lane(j) = i - 1 /\ i - 1 < n
    <3> DEFINE m == next * G
    <3>1. m \in Nat
      BY <1>4
    <3> HIDE DEF m
    <3>2. j = i - m
      BY <2>1 DEF m
    <3>3. m + j - 1 = i - 1 /\ i - 1 < n
      BY <1>3, <3>1, <3>2
    <3>4. QED
      BY <3>3 DEF m
  <2> HIDE DEF lane, G
  <2>3. F[j] = PixelColor(i - 1) /\ D[j] = PixelDepth(i - 1)
    BY <2>2
  <2>4. QED
    BY <2>1, <2>3
<1> HIDE DEF F, D
<1>7. /\ cur_tile'.x = cur_tile.x /\ cur_tile'.y = cur_tile.y /\ cur_tile'.pinfos = f
      /\ cur_tile'.output = out \o F /\ cur_tile'.depth_output = dep \o D
      /\ cur_tile'.positions = cur_tile.positions
  BY <1>1, <1>2 DEF NoTile
<1> HIDE DEF out, dep, G
<1>8. /\ IsSequence(out \o F) /\ Len(out \o F) = next * G + G
      /\ \A i \in 1 .. next * G : (out \o F)[i] = out[i]
      /\ \A i \in 1 .. G : (out \o F)[next * G + i] = F[i]
  <2> DEFINE m == next * G
  <2>1. IsSequence(out) /\ IsSequence(F) /\ Len(out) = m /\ Len(F) = G
    BY <1>2, <1>5
  <2> HIDE DEF m
  <2>4. /\ IsSequence(out \o F) /\ Len(out \o F) = Len(out) + Len(F)
        /\ \A i \in 1 .. Len(out) : (out \o F)[i] = out[i]
        /\ \A i \in 1 .. Len(F) : (out \o F)[Len(out) + i] = F[i]
    BY <2>1, JoinedAt
  <2>2. /\ IsSequence(out \o F) /\ Len(out \o F) = m + G
        /\ \A i \in 1 .. m : (out \o F)[i] = out[i]
        /\ \A i \in 1 .. G : (out \o F)[m + i] = F[i]
    BY <2>1, <2>4
  <2>3. QED
    BY <2>2 DEF m
<1>9. /\ IsSequence(dep \o D) /\ Len(dep \o D) = next * G + G
      /\ \A i \in 1 .. next * G : (dep \o D)[i] = dep[i]
      /\ \A i \in 1 .. G : (dep \o D)[next * G + i] = D[i]
  <2> DEFINE m == next * G
  <2>1. IsSequence(dep) /\ IsSequence(D) /\ Len(dep) = m /\ Len(D) = G
    BY <1>2, <1>5
  <2> HIDE DEF m
  <2>4. /\ IsSequence(dep \o D) /\ Len(dep \o D) = Len(dep) + Len(D)
        /\ \A i \in 1 .. Len(dep) : (dep \o D)[i] = dep[i]
        /\ \A i \in 1 .. Len(D) : (dep \o D)[Len(dep) + i] = D[i]
    BY <2>1, JoinedAt
  <2>2. /\ IsSequence(dep \o D) /\ Len(dep \o D) = m + G
        /\ \A i \in 1 .. m : (dep \o D)[i] = dep[i]
        /\ \A i \in 1 .. G : (dep \o D)[m + i] = D[i]
    BY <2>1, <2>4
  <2>3. QED
    BY <2>2 DEF m
<1>10. ASSUME NEW i \in 1 .. n, i < (next + 1) * G + 1
       PROVE  IsShaded(call, f[i], (out \o F)[i], (dep \o D)[i])
  <2>1. CASE i < next * G + 1
    <3>1. i \in 1 .. next * G
      BY <1>3, <1>4, <2>1
    <3>2. IsShaded(call, f[i], out[i], dep[i])
      BY <1>2, <1>3, <2>1 DEF ShadedBelow, out, dep
    <3>3. QED
      BY <1>8, <1>9, <3>1, <3>2
  <2>2. CASE ~(i < next * G + 1)
    <3>1. next * G < i
      BY <1>3, <1>4, <2>2
    <3>2. /\ i - next * G \in 1 .. G
          /\ F[i - next * G] = PixelColor(i - 1) /\ D[i - next * G] = PixelDepth(i - 1)
      BY <1>6, <1>10, <3>1
    <3>3. next * G + (i - next * G) = i
      BY <1>3, <1>4
    <3>4. (out \o F)[i] = PixelColor(i - 1) /\ (dep \o D)[i] = PixelDepth(i - 1)
      BY <1>8, <1>9, <3>2, <3>3
    <3>5. i - 1 \in Nat /\ (i - 1) + 1 = i
      BY <1>3
    <3>6. IsFragment(f[i], call, cur_tile.x, cur_tile.y)
      BY <1>2, <1>3 DEF AreFragments
    <3>7. IsShaded(call, f[(i - 1) + 1], PixelColor(i - 1), PixelDepth(i - 1))
      BY <1>1, <1>2, <1>3, <3>5, <3>6, PixelIsShaded
    <3>8. QED
      BY <3>4, <3>5, <3>7
  <2>3. QED
    BY <2>1, <2>2
<1>11. Shaded'
  <2>1. ShadedBelow(next * SubgroupSize + 1)'
    BY <1>1, <1>3, <1>7, <1>10 DEF ShadedBelow, G
  <2>2. next' \in Nat /\ next' * SubgroupSize = next * G + G
    BY <1>1, <1>2, <1>4 DEF G
  <2>3. OutputsSuffice' /\ PlacesFetched'
    BY <1>1, <1>2, <1>7 DEF OutputsSuffice, PlacesFetched
  <2>4. /\ IsSequence(cur_tile'.output) /\ Len(cur_tile'.output) = next' * SubgroupSize
        /\ IsSequence(cur_tile'.depth_output) /\ Len(cur_tile'.depth_output) = next' * SubgroupSize
    BY <1>7, <1>8, <1>9, <2>2
  <2>5. QED
    BY <1>1, <2>1, <2>2, <2>3, <2>4 DEF Shaded
<1>12. Placed' /\ Found'
  BY <1>1, <1>2, <1>7, PlacesStay DEF Placed, Found, TileStages
<1>13. Taken'
  BY <1>1, <1>7, TakenStays
<1>14. QED
  BY <1>11, <1>12, <1>13

(* All subgroups have run. *)
LEMMA AllShaded ==
  ASSUME StagesMatch, Placed, Found, Shaded, Taken, shade_current_tile,
         ~(next < Subgroups(Len(cur_tile.pinfos)))
  PROVE  (Placed /\ Found /\ Shaded /\ Taken)'
<1> DEFINE f == cur_tile.pinfos
           n == Len(f)
<1>1. /\ pc = "shade" /\ pc' = "merge" /\ call' = call /\ UNCHANGED geometry /\ taken' = taken
      /\ next' = 1 /\ cur_tile' = cur_tile
  BY DEF shade_current_tile, target
<1>2. /\ AreFragments(f, call, cur_tile.x, cur_tile.y, call.indexCount \div 3 + 1)
      /\ next \in Nat /\ ShadedBelow(next * SubgroupSize + 1)
  BY <1>1 DEF Found, TileStages, Shaded
<1>3. n \in Nat /\ DOMAIN f = 1 .. n
  BY <1>2, FragmentsAre
<1>4. n <= next * SubgroupSize /\ next * SubgroupSize \in Nat
  <2>1. SubgroupSize \in Nat \ {0}
    BY DrawAssumption
  <2>2. n <= next * SubgroupSize
    BY <1>2, <1>3, SubgroupsSuffice
  <2>3. QED
    BY <1>2, <2>1, <2>2
<1>5. \A i \in DOMAIN f : i < next * SubgroupSize + 1
  BY <1>3, <1>4
<1>6. \A i \in DOMAIN f : IsShaded(call, f[i], cur_tile.output[i], cur_tile.depth_output[i])
  BY <1>2, <1>5 DEF ShadedBelow
<1>7. ShadedBelow(Len(cur_tile.pinfos) + 1)'
  BY <1>1, <1>6 DEF ShadedBelow
<1>8. Placed' /\ Found' /\ Shaded'
  BY <1>1, <1>7, PlacesStay DEF Placed, Found, Shaded, TileStages
<1>9. Taken'
  <2>1. \A p : (Passed(p)' <=> Passed(p)) /\ (Here(p)' <=> Here(p))
    BY <1>1 DEF Passed, Here
  <2>2. /\ DOMAIN taken = FramePixels
        /\ \A p \in FramePixels : /\ Passed(p) => TakesAll(call, taken[p], p)
                                  /\ ~Passed(p) /\ ~Here(p) => taken[p] = {}
        /\ \A p \in FramePixels : Here(p) => taken[p] = {}
    BY <1>1 DEF Taken, TileStages
  <2>3. \A p : Merged(f, 1, p) = {}
    BY <1>3 DEF Merged
  <2>4. /\ DOMAIN taken' = FramePixels
        /\ \A p \in FramePixels : /\ Passed(p)' => TakesAll(call', taken'[p], p)
                                  /\ ~Passed(p)' /\ ~Here(p)' => taken'[p] = {}
        /\ \A p \in FramePixels : Here(p)' => taken'[p] = Merged(cur_tile'.pinfos, next', p)
    BY <1>1, <2>1, <2>2, <2>3
  <2>5. QED
    BY <1>1, <2>4 DEF Taken, VertexStages
<1>10. QED
  BY <1>8, <1>9

-----------------------------------------------------------------------------
(* The merge and the end of a tile.                                        *)

(* The pixel whose turn it is to be merged. *)
LEMMA PixelAtTurn ==
  ASSUME StagesMatch, Placed, Found, Shaded, Taken, pc = "merge", next <= Len(cur_tile.pinfos)
  PROVE  LET f == cur_tile.pinfos
             info == f[next]
             p == <<info.x, info.y>>
         IN /\ next \in DOMAIN f /\ next \in Nat \ {0}
            /\ XOf(p) = cur_tile.x /\ YOf(p) = cur_tile.y
            /\ info.triangle_id \in 1 .. call.indexCount \div 3
            /\ Order!Touches(call, info.triangle_id, p) /\ ~IsCulled(call, info.triangle_id)
            /\ IsShaded(call, info, cur_tile.output[next], cur_tile.depth_output[next])
            /\ p \in FramePixels => \A t \in taken[p] : t < info.triangle_id
<1> DEFINE f == cur_tile.pinfos
           info == f[next]
           p == <<info.x, info.y>>
<1>1. /\ AreFragments(f, call, cur_tile.x, cur_tile.y, call.indexCount \div 3 + 1)
      /\ cur_tile.x \in Int /\ cur_tile.y \in Int
      /\ next \in Nat \ {0} /\ ShadedBelow(Len(f) + 1)
      /\ \A q \in FramePixels : Here(q) => taken[q] = Merged(f, next, q)
  BY DEF Found, Shaded, Taken, StagesMatch, TileStages
<1>2. Len(f) \in Nat /\ DOMAIN f = 1 .. Len(f)
  BY <1>1, FragmentsAre
<1>3. next \in DOMAIN f /\ next < Len(f) + 1
  BY <1>1, <1>2
<1>4. IsFragment(info, call, cur_tile.x, cur_tile.y)
  BY <1>1, <1>3 DEF AreFragments
<1>5. /\ XOf(p) = cur_tile.x /\ YOf(p) = cur_tile.y
      /\ info.triangle_id \in 1 .. call.indexCount \div 3
      /\ Order!Touches(call, info.triangle_id, p) /\ ~IsCulled(call, info.triangle_id)
  BY <1>1, <1>4, TileOfFragment
<1>6. IsShaded(call, info, cur_tile.output[next], cur_tile.depth_output[next])
  BY <1>1, <1>3 DEF ShadedBelow
<1>7. ASSUME p \in FramePixels, NEW t \in taken[p] PROVE t < info.triangle_id
  <2>1. t \in Merged(f, next, p)
    BY <1>1, <1>5, <1>7 DEF Here
  <2>2. PICK i \in DOMAIN f : i < next /\ f[i].x = p[1] /\ f[i].y = p[2] /\ t = f[i].triangle_id
    BY <2>1 DEF Merged
  <2>3. p[1] = f[next].x /\ p[2] = f[next].y
    OBVIOUS
  <2>4. InSequence(f)
    BY <1>1 DEF AreFragments
  <2>5. f[i].triangle_id < f[next].triangle_id
    BY <1>3, <2>2, <2>3, <2>4 DEF InSequence
  <2>6. QED
    BY <2>2, <2>5
<1>8. QED
  BY <1>1, <1>3, <1>5, <1>6, <1>7

(* One more fragment has been merged. *)
LEMMA MergedMore ==
  ASSUME NEW f, NEW n \in Nat, n \in DOMAIN f, DOMAIN f \subseteq Nat, NEW q
  PROVE  Merged(f, n + 1, q) = IF f[n].x = q[1] /\ f[n].y = q[2] THEN Merged(f, n, q) \cup {f[n].triangle_id}
                               ELSE Merged(f, n, q)
<1> DEFINE A == {j \in DOMAIN f : j < n /\ f[j].x = q[1] /\ f[j].y = q[2]}
           B == {j \in DOMAIN f : j < n + 1 /\ f[j].x = q[1] /\ f[j].y = q[2]}
<1>1. \A j \in DOMAIN f : j < n + 1 <=> j < n \/ j = n
  OBVIOUS
<1>2. Merged(f, n, q) = {f[i].triangle_id : i \in A} /\ Merged(f, n + 1, q) = {f[i].triangle_id : i \in B}
  BY DEF Merged
<1>3. CASE f[n].x = q[1] /\ f[n].y = q[2]
  <2>1. B = A \cup {n}
    BY <1>1, <1>3
  <2> HIDE DEF A, B
  <2>2. QED
    BY <1>2, <1>3, <2>1
<1>4. CASE ~(f[n].x = q[1] /\ f[n].y = q[2])
  <2>1. B = A
    BY <1>1, <1>4
  <2> HIDE DEF A, B
  <2>2. QED
    BY <1>2, <1>4, <2>1
<1>5. QED
  BY <1>3, <1>4

(* The merge goes over the pixels in their order.                          *)
LEMMA MergeTakes ==
  ASSUME StagesMatch, Placed, Found, Shaded, Taken, merge_current_tile, pc' # "trap"
  PROVE  (Placed /\ Found /\ Shaded /\ Taken)'
<1> DEFINE f == cur_tile.pinfos
           n == Len(f)
<1>1. /\ pc = "merge" /\ pc' \in {"merge", "end_tile"} /\ call' = call /\ UNCHANGED geometry
      /\ cur_tile' = cur_tile
  BY DEF merge_current_tile, merge_pixel
<1>2. /\ AreFragments(f, call, cur_tile.x, cur_tile.y, call.indexCount \div 3 + 1)
      /\ call \in Calls /\ call.indexCount \in Nat
      /\ next \in Nat \ {0} /\ ShadedBelow(n + 1)
  BY <1>1, DrawAssumption DEF Found, StagesMatch, TileStages, Shaded
<1>3. n \in Nat /\ DOMAIN f = 1 .. n
  BY <1>2, FragmentsAre
<1>4. /\ DOMAIN taken = FramePixels
      /\ \A p \in FramePixels : /\ Passed(p) => TakesAll(call, taken[p], p)
                                /\ ~Passed(p) /\ ~Here(p) => taken[p] = {}
      /\ \A p \in FramePixels : Here(p) => taken[p] = Merged(f, next, p)
  BY <1>1 DEF Taken, TileStages
<1>5. \A p : (Passed(p)' <=> Passed(p)) /\ (Here(p)' <=> Here(p))
  BY <1>1 DEF Passed, Here
<1>6. Placed' /\ Found'
  BY <1>1, PlacesStay DEF Placed, Found, TileStages
<1>7. CASE next <= n
  <2> DEFINE info == f[next]
             p == <<info.x, info.y>>
             k == info.triangle_id
  <2>1. /\ next \in DOMAIN f /\ XOf(p) = cur_tile.x /\ YOf(p) = cur_tile.y
    BY <1>1, <1>7, PixelAtTurn
  <2>2. pc' = "merge" /\ next' = next + 1
        /\ \/ p \notin FramePixels /\ taken' = taken
           \/ p \in FramePixels /\ taken' = [taken EXCEPT ![p] = @ \cup {k}]
    <3>1. merge_pixel /\ next' = next + 1
      BY <1>2, <1>3, <1>7 DEF merge_current_tile
    <3>2. QED
      BY <1>1, <3>1 DEF merge_pixel, target
  <2>3. ASSUME NEW q
        PROVE  Merged(f, next + 1, q)
                 = IF info.x = q[1] /\ info.y = q[2] THEN Merged(f, next, q) \cup {k} ELSE Merged(f, next, q)
    <3> HIDE DEF f
    <3>1. DOMAIN f \subseteq Nat /\ next \in Nat
      BY <1>2, <1>3
    <3>2. QED
      BY <2>1, <3>1, MergedMore
  <2>4. \A q \in FramePixels : q = p <=> info.x = q[1] /\ info.y = q[2]
    BY DEF FramePixels
  <2>5. Here(p) /\ ~Passed(p)
    <3>1. cur_tile.x \in Int /\ cur_tile.y \in Int
      BY <1>1 DEF StagesMatch
    <3> HIDE DEF p
    <3>2. QED
      BY <2>1, <3>1 DEF Here, Passed
  <2> HIDE DEF info, p, k
  <2>6. DOMAIN taken' = FramePixels
    BY <1>4, <2>2
  <2>7. \A q \in FramePixels : q # p => taken'[q] = taken[q]
    BY <1>4, <2>2
  <2>8. p \in FramePixels => taken'[p] = taken[p] \cup {k}
    BY <1>4, <2>2
  <2>9. ASSUME NEW q \in FramePixels
        PROVE  /\ Passed(q) => TakesAll(call, taken'[q], q)
               /\ ~Passed(q) /\ ~Here(q) => taken'[q] = {}
               /\ Here(q) => taken'[q] = Merged(f, next + 1, q)
    <3>1. CASE q = p
      BY <1>4, <2>3, <2>4, <2>5, <2>8, <3>1
    <3>2. CASE q # p
      BY <1>4, <2>3, <2>4, <2>7, <3>2
    <3>3. QED
      BY <3>1, <3>2
  <2>10. Taken'
    BY <1>1, <1>5, <2>2, <2>6, <2>9 DEF Taken, VertexStages
  <2>11. next' \in Nat \ {0}
    BY <1>2, <2>2
  <2>12. Shaded'
    BY <1>1, <1>2, <2>2, <2>11 DEF Shaded, ShadedBelow
  <2>13. QED
    BY <1>6, <2>10, <2>12
<1>8. CASE ~(next <= n)
  <2>1. pc' = "end_tile" /\ taken' = taken
    BY <1>2, <1>3, <1>8 DEF merge_current_tile, target
  <2>2. ASSUME NEW p \in FramePixels, Here(p) PROVE TakesAll(call, taken[p], p)
    <3>1. \A i \in DOMAIN f : i < next
      BY <1>2, <1>3, <1>8
    <3>2. TakesAll(call, Merged(f, next, p), p)
      BY <1>2, <2>2, <3>1, AllMerged DEF Here
    <3>3. QED
      BY <1>4, <2>2, <3>2
  <2>3. Taken'
    BY <1>1, <1>4, <1>5, <2>1, <2>2 DEF Taken, VertexStages
  <2>4. Shaded'
    BY <2>1 DEF Shaded
  <2>5. QED
    BY <1>6, <2>3, <2>4
<1>9. QED
  BY <1>7, <1>8

(* The next tile, or the end. *)
LEMMA TileDone ==
  ASSUME StagesMatch, Placed, Found, Shaded, Taken, end_tile, pc' # "trap"
  PROVE  (Placed /\ Found /\ Shaded /\ Taken)'
<1> DEFINE x == (cur_tile.x + 1) % XTiles
           y == IF x = 0 THEN cur_tile.y + 1 ELSE cur_tile.y
<1>1. /\ pc = "end_tile" /\ pc' = IF y < YTiles THEN "begin_tile" ELSE "end_draw"
      /\ call' = call /\ UNCHANGED geometry /\ taken' = taken
      /\ cur_tile' = [NoTile EXCEPT !.x = x, !.y = y]
  BY DEF end_tile, Proceed, target
<1>2. /\ cur_tile.x \in 0 .. XTiles - 1 /\ cur_tile.y \in 0 .. YTiles - 1 /\ CornersInPlace
  BY <1>1 DEF Placed, TileStages
<1>3. XTiles \in Nat \ {0} /\ YTiles \in Nat \ {0}
  BY TilesAre
<1>4. /\ x \in 0 .. XTiles - 1 /\ y \in Nat
      /\ \/ x = cur_tile.x + 1 /\ y = cur_tile.y
         \/ x = 0 /\ cur_tile.x = XTiles - 1 /\ y = cur_tile.y + 1
  <2>1. \A a \in Nat \ {0} : \A b \in 0 .. a - 1 :
          (b + 1) % a = IF b = a - 1 THEN 0 ELSE b + 1
    <3>1. TAKE a \in Nat \ {0}
    <3>2. TAKE b \in 0 .. a - 1
    <3>3. CASE b = a - 1
      <4>1. (1 * a + 0) % a = 0
        BY QuotientOf
      <4>2. b + 1 = 1 * a + 0
        BY <3>3
      <4>3. QED
        BY <3>3, <4>1, <4>2
    <3>4. CASE b # a - 1
      <4>1. b + 1 \in 0 .. a - 1
        BY <3>4
      <4>2. (0 * a + (b + 1)) % a = b + 1
        BY <4>1, QuotientOf
      <4>3. 0 * a + (b + 1) = b + 1
        OBVIOUS
      <4>4. QED
        BY <3>4, <4>2, <4>3
    <3>5. QED
      BY <3>3, <3>4
  <2>2. x = IF cur_tile.x = XTiles - 1 THEN 0 ELSE cur_tile.x + 1
    BY <1>2, <1>3, <2>1
  <2> HIDE DEF x
  <2>3. QED
    BY <1>2, <1>3, <2>2
<1> HIDE DEF x, y
<1>5. /\ cur_tile'.x = x /\ cur_tile'.y = y
      /\ cur_tile'.output = <<>> /\ cur_tile'.depth_output = <<>>
  BY <1>1 DEF NoTile
<1>6. Placed'
  BY <1>1, <1>2, <1>3, <1>4, <1>5, PlacesStay DEF Placed, TileStages
<1>7. Found' /\ Shaded'
  BY <1>1, <1>5 DEF Found, Shaded, TileStages
<1>8. /\ DOMAIN taken = FramePixels
      /\ \A p \in FramePixels : /\ Passed(p) => TakesAll(call, taken[p], p)
                                /\ ~Passed(p) /\ ~Here(p) => taken[p] = {}
      /\ \A p \in FramePixels : Here(p) => TakesAll(call, taken[p], p)
  BY <1>1 DEF Taken, TileStages
<1>9. ASSUME NEW p \in FramePixels
      PROVE  /\ Passed(p)' <=> (Passed(p) \/ Here(p))
             /\ y < YTiles \/ Passed(p) \/ Here(p)
  <2>1. XOf(p) \in 0 .. XTiles - 1 /\ YOf(p) \in 0 .. YTiles - 1
    BY TileOf
  <2> DEFINE a == XOf(p)
             b == YOf(p)
             cx == cur_tile.x
             cy == cur_tile.y
  <2>2. /\ Passed(p)' <=> (b < y \/ (b = y /\ a < x))
        /\ Passed(p) <=> (b < cy \/ (b = cy /\ a < cx))
        /\ Here(p) <=> (a = cx /\ b = cy)
    BY <1>5 DEF Passed, Here
  <2>3. /\ a \in 0 .. XTiles - 1 /\ b \in 0 .. YTiles - 1 /\ cx \in 0 .. XTiles - 1 /\ cy \in 0 .. YTiles - 1
        /\ (x = cx + 1 /\ y = cy) \/ (x = 0 /\ cx = XTiles - 1 /\ y = cy + 1)
    BY <1>2, <1>4, <2>1
  <2> HIDE DEF a, b, cx, cy
  <2>4. (b < y \/ (b = y /\ a < x)) <=> (b < cy \/ (b = cy /\ a < cx) \/ (a = cx /\ b = cy))
    BY <1>3, <2>3
  <2>5. y < YTiles \/ b < cy \/ (b = cy /\ a < cx) \/ (a = cx /\ b = cy)
    BY <1>3, <1>4, <2>3
  <2>6. QED
    BY <2>2, <2>4, <2>5
<1>10. CASE y < YTiles
  <2>1. pc' = "begin_tile"
    BY <1>1, <1>10
  <2>2. ASSUME NEW p \in FramePixels
        PROVE  /\ Passed(p)' => TakesAll(call', taken'[p], p)
               /\ ~Passed(p)' => taken'[p] = {}
               /\ Here(p)' => ~Passed(p)'
    <3>1. Here(p)' => ~Passed(p)'
      BY <1>4, <1>5 DEF Here, Passed
    <3>2. QED
      BY <1>1, <1>8, <1>9, <3>1
  <2>3. Taken'
    BY <1>1, <1>8, <2>1, <2>2 DEF Taken, TileStages, VertexStages
  <2>4. QED
    BY <1>6, <1>7, <2>3
<1>11. CASE ~(y < YTiles)
  <2>1. pc' = "end_draw"
    BY <1>1, <1>11
  <2>2. \A p \in FramePixels : TakesAll(call, taken[p], p)
    BY <1>8, <1>9, <1>11
  <2>3. Taken'
    BY <1>1, <1>8, <2>1, <2>2 DEF Taken, TileStages, VertexStages
  <2>4. QED
    BY <1>6, <1>7, <2>3
<1>12. QED
  BY <1>10, <1>11

-----------------------------------------------------------------------------
(* Every step of a draw call.                                              *)

(* At first nothing is drawn. *)
LEMMA InitDraw == Init => DrawInv
<1> SUFFICES ASSUME Init PROVE DrawInv
  OBVIOUS
<1>1. pc = "idle" /\ call = NoCall /\ taken = [p \in FramePixels |-> {}]
  BY DEF Init
<1>2. DOMAIN taken = FramePixels
  BY <1>1
<1>3. QED
  BY <1>1, <1>2 DEF DrawInv, Placed, Found, Shaded, Taken, TileStages, VertexStages

(* Every step keeps the tiles in order. *)
LEMMA NextDraw ==
  ASSUME AreasAre, PixelsInv, DrawInv, [Next]_vars
  PROVE  DrawInv'
<1>1. SUFFICES ASSUME pc' # "trap" PROVE (Placed /\ Found /\ Shaded /\ Taken)'
  BY DEF DrawInv
<1>2. pc # "trap"
  BY <1>1 DEF Next, vars, clear_attachment, begin_draw_indexed, setup_descriptors, IA_stage, VS_stage,
     PA_stage, begin_tile, rasterize_current_tile, setup_pixel_input_current_tile, shade_current_tile,
     merge_current_tile, end_tile, end_draw
<1>3. StagesMatch /\ PixelInputsMatch /\ Placed /\ Found /\ Shaded /\ Taken
  BY <1>2 DEF PixelsInv, DrawInv
<1>4. CASE clear_attachment
  BY <1>3, <1>4 DEF clear_attachment, Placed, Found, Shaded, Taken, TileStages, VertexStages
<1>5. CASE begin_draw_indexed
  <2>1. pc' = "descriptors" /\ taken' = [p \in FramePixels |-> {}]
    BY <1>1, <1>5 DEF begin_draw_indexed, Proceed
  <2>2. DOMAIN taken' = FramePixels /\ \A p \in FramePixels : taken'[p] = {}
    BY <2>1
  <2>3. QED
    BY <2>1, <2>2 DEF Placed, Found, Shaded, Taken, TileStages, VertexStages
<1>6. ASSUME setup_descriptors \/ IA_stage \/ VS_stage
      PROVE  (Placed /\ Found /\ Shaded /\ Taken)'
  <2>1. /\ pc \in VertexStages /\ pc' \in VertexStages
        /\ call' = call /\ cur_tile' = cur_tile /\ taken' = taken
    BY <1>1, <1>6 DEF setup_descriptors, IA_stage, VS_stage, Proceed, VertexStages, target
  <2>2. Taken'
    BY <1>3, <2>1, TakenStays
  <2>3. QED
    BY <2>1, <2>2 DEF Placed, Found, Shaded, TileStages, VertexStages
<1>7. CASE PA_stage
  <2>1. call \in Calls /\ PositionsInPlace
    BY <1>3, <1>7 DEF StagesMatch, PA_stage
  <2>2. QED
    BY <1>1, <1>3, <1>7, <2>1, AssemblyPlaces
<1>8. CASE begin_tile
  BY <1>1, <1>3, <1>8, TileBeginsEmpty
<1>9. CASE rasterize_current_tile
  BY <1>3, <1>9, TriangleFound
<1>10. CASE setup_pixel_input_current_tile
  BY <1>1, <1>3, <1>10, EmptyTile, SetupPlaces
<1>11. CASE shade_current_tile
  BY <1>3, <1>11, SubgroupShaded, AllShaded
<1>12. CASE merge_current_tile
  BY <1>1, <1>3, <1>12, MergeTakes
<1>13. CASE end_tile
  BY <1>1, <1>3, <1>13, TileDone
<1>14. CASE end_draw
  <2>1. pc' = "idle" /\ call' = NoCall /\ taken' = taken
    BY <1>1, <1>14 DEF end_draw, Proceed, target
  <2>2. QED
    BY <1>3, <2>1 DEF Placed, Found, Shaded, Taken, TileStages, VertexStages
<1>15. CASE UNCHANGED vars
  <2>1. UNCHANGED <<pc, call, cur_tile, next, ia, vs, assembly, taken>>
    BY <1>15 DEF vars
  <2>2. \A p : (Passed(p)' <=> Passed(p)) /\ (Here(p)' <=> Here(p))
    BY <2>1 DEF Passed, Here
  <2>3. /\ OutputsSuffice' <=> OutputsSuffice
        /\ PlacesFetched' <=> PlacesFetched
        /\ CornersInPlace' <=> CornersInPlace
    BY <2>1 DEF OutputsSuffice, PlacesFetched, CornersInPlace, Vertex
  <2>4. Placed' /\ Found'
    BY <1>3, <2>1, <2>3 DEF Placed, Found
  <2>5. Shaded'
    BY <1>3, <2>1, <2>3 DEF Shaded, ShadedBelow
  <2>6. Taken'
    BY <1>3, <2>1, <2>2 DEF Taken
  <2>7. QED
    BY <2>4, <2>5, <2>6
<1>16. QED
  BY <1>4, <1>5, <1>6, <1>7, <1>8, <1>9, <1>10, <1>11, <1>12, <1>13, <1>14, <1>15 DEF Next

-----------------------------------------------------------------------------
(* RasterOrder.                                                            *)

(* At first the framebuffer is cleared there, too. *)
LEMMA InitOrder == Init => Order!Init
BY DEF Init, Order!Init, FramePixels, Order!Pixels

(* A depth that fails or passes the test may do so. *)
LEMMA TestsAre ==
  ASSUME NEW p, NEW z \in Nat, depth[p] \in Nat,
         call.depthTest => call.depthCompareOp \in DepthOps
  PROVE  /\ call.depthTest /\ DepthSkips(z, depth[p]) => Order!MayFail(p, z)
         /\ (call.depthTest => ~DepthSkips(z, depth[p])) => Order!MayPass(p, z)
<1>1. CASE ~call.depthTest
  BY <1>1 DEF Order!MayPass
<1>2. CASE call.depthTest
  <2>1. CASE call.depthCompareOp = "less"
    BY <1>2, <2>1 DEF DepthSkips, Order!MayFail, Order!MayPass, Order!Nearer
  <2>2. CASE call.depthCompareOp = "less_or_equal"
    BY <1>2, <2>2 DEF DepthSkips, Order!MayFail, Order!MayPass, Order!Nearer
  <2>3. CASE call.depthCompareOp = "greater"
    BY <1>2, <2>3 DEF DepthSkips, Order!MayFail, Order!MayPass, Order!Nearer
  <2>4. CASE call.depthCompareOp = "greater_or_equal"
    BY <1>2, <2>4 DEF DepthSkips, Order!MayFail, Order!MayPass, Order!Nearer
  <2>5. QED
    BY <1>2, <2>1, <2>2, <2>3, <2>4 DEF DepthOps
<1>3. QED
  BY <1>1, <1>2

(* A merge that does not stop is one a pixel takes in its order. *)
LEMMA MergeIsTake ==
  ASSUME StagesMatch, Placed, Found, Shaded, Taken, merge_current_tile, call \in Calls,
         CullsAsMeant(call), AreasAre, CornersInPlace,
         depth \in [FramePixels -> Nat],
         pc = "merge", next <= Len(cur_tile.pinfos),
         merge_pixel
  PROVE  Order!Next \/ UNCHANGED Order!orderVars
<1> DEFINE info == cur_tile.pinfos[next]
           p == <<info.x, info.y>>
           k == info.triangle_id
           z == cur_tile.depth_output[next]
           out == cur_tile.output[next]
<1>1. /\ k \in 1 .. call.indexCount \div 3
      /\ Order!Touches(call, k, p) /\ ~IsCulled(call, k)
      /\ IsShaded(call, info, out, z)
      /\ p \in FramePixels => \A t \in taken[p] : t < k
  BY PixelAtTurn
<1>2. call' = call
  BY DEF merge_current_tile
<1>3. ~Order!Discarded(call, k)
  <2>1. Order!Turn(call, k) \in Int
    <3>1. cur_tile.x \in Int /\ cur_tile.y \in Int
      BY DEF StagesMatch
    <3> HIDE DEF k
    <3>2. QED
      BY <1>1, <3>1, TileCornersAre, MovedTriangle
  <2>2. Order!Turn(call, k) # 0
    BY <1>1 DEF AreasAre, HasArea
  <2> HIDE DEF k
  <2>3. QED
    BY <1>1, <2>1, <2>2, CulledIsDiscarded DEF IsCulled
<1>4. z \in Nat /\ z \in Order!Depths(k, p)
  BY <1>1, AllowedAre DEF IsShaded
<1>5. PICK v \in Order!Attributes(k, p, call.valueLocation), a \in Order!Opacity(k, p) :
        out = [value |-> v, alpha |-> a]
  BY <1>1, AllowedAre DEF IsShaded
<1>6. call # NoCall /\ k \in Order!Triangles(call)
  BY <1>1, DrawAssumption DEF Order!Triangles
<1>7. FramePixels = Order!Pixels
  BY DEF FramePixels, Order!Pixels
<1> HIDE DEF z, out, k
<1>8. Blended(color[p], out) = Order!Drawn(p, v, a)
  BY <1>5 DEF Blended, Order!Drawn
<1>9. CASE p \in FramePixels /\ taken' = [taken EXCEPT ![p] = @ \cup {k}]
           /\ (call.depthTest => call.depthCompareOp \in DepthOps)
           /\ \/ call.depthTest /\ DepthSkips(z, depth[p]) /\ UNCHANGED <<color, depth>>
              \/ /\ call.depthTest => ~DepthSkips(z, depth[p])
                 /\ depth' = [depth EXCEPT ![p] = IF call.depthWrite THEN z ELSE @]
                 /\ color' = [color EXCEPT ![p] = Blended(@, out)]
  <2> HIDE DEF p
  <2>1. depth[p] \in Nat
    BY <1>9
  <2>2. \/ Order!MayFail(p, z) /\ UNCHANGED <<color, depth>>
        \/ /\ Order!MayPass(p, z)
           /\ depth' = [depth EXCEPT ![p] = IF call.depthWrite THEN z ELSE @]
           /\ color' = [color EXCEPT ![p] = Blended(@, out)]
    BY <1>4, <1>9, <2>1, TestsAre
  <2>3. color' = [color EXCEPT ![p] = Blended(@, out)] => color' = [color EXCEPT ![p] = Order!Drawn(p, v, a)]
    BY <1>8
  <2>4. \A t \in taken[p] : t < k
    BY <1>1, <1>9 DEF p
  <2>5. Order!Take(p, k)
    BY <1>1, <1>2, <1>3, <1>4, <1>5, <1>6, <1>9, <2>2, <2>3, <2>4 DEF Order!Take, p
  <2>6. QED
    BY <1>6, <1>7, <1>9, <2>5 DEF Order!Next
<1>10. CASE UNCHANGED target
  BY <1>2, <1>10 DEF Order!orderVars, target
<1>11. QED
  BY <1>9, <1>10 DEF merge_pixel, p, z, out, k

(* Which way a triangle turns is a number. *)
LEMMA TurnsAre ==
  ASSUME call \in Calls, NEW k \in 1 .. call.indexCount \div 3
  PROVE  Order!Turn(call, k) \in Int
<1>1. ASSUME NEW i \in 0 .. 2 PROVE IsPoint(Order!Corner(call, k, i))
  <2> DEFINE m == 3 * (k - 1) + i
  <2>1. m \in 0 .. call.indexCount - 1 /\ Order!Corner(call, k, i) = Vertex(m)
    BY CornerIs
  <2> HIDE DEF m
  <2>2. QED
    BY <2>1, VertexIs DEF IsPoint
<1>2. 0 \in 0 .. 2 /\ 1 \in 0 .. 2 /\ 2 \in 0 .. 2
  OBVIOUS
<1>3. QED
  BY <1>1, <1>2, CrossIs DEF Order!Turn

(* Every step of a draw call is one RasterOrder allows, or one it does not *)
(* see.                                                                    *)
LEMMA NextOrder ==
  ASSUME AreasAre, \A c \in Calls : CullsAsMeant(c), PixelsInv, DrawInv, TypeOK, [Next]_vars
  PROVE  [Order!Next]_Order!orderVars
<1>1. CASE pc = "trap" \/ UNCHANGED vars
  <2>1. UNCHANGED vars
    BY <1>1 DEF Next, clear_attachment, begin_draw_indexed, setup_descriptors, IA_stage, VS_stage,
       PA_stage, begin_tile, rasterize_current_tile, setup_pixel_input_current_tile,
       shade_current_tile, merge_current_tile, end_tile, end_draw
  <2>2. QED
    BY <2>1 DEF vars, Order!orderVars
<1>2. SUFFICES ASSUME pc # "trap", Next PROVE Order!Next \/ UNCHANGED Order!orderVars
  BY <1>1
<1>3. StagesMatch /\ Placed /\ Found /\ Shaded /\ Taken
  BY <1>2 DEF PixelsInv, DrawInv
<1>4. FramePixels = Order!Pixels
  BY DEF FramePixels, Order!Pixels
<1>5. CASE clear_attachment
  <2>1. call = NoCall
    BY <1>3, <1>5 DEF clear_attachment, Placed
  <2>2. Order!Clear
    BY <1>4, <1>5, <2>1 DEF clear_attachment, Order!Clear
  <2>3. QED
    BY <2>2 DEF Order!Next
<1>6. CASE begin_draw_indexed
  <2>1. call = NoCall
    BY <1>3, <1>6 DEF begin_draw_indexed, Placed
  <2>2. Order!Begin
    BY <1>4, <1>6, <2>1 DEF begin_draw_indexed, Order!Begin
  <2>3. QED
    BY <2>2 DEF Order!Next
<1>7. ASSUME \/ setup_descriptors \/ IA_stage \/ VS_stage \/ PA_stage \/ begin_tile
             \/ rasterize_current_tile \/ setup_pixel_input_current_tile \/ shade_current_tile
             \/ end_tile
      PROVE  UNCHANGED Order!orderVars
  BY <1>7 DEF setup_descriptors, IA_stage, VS_stage, PA_stage, begin_tile, rasterize_current_tile,
     setup_pixel_input_current_tile, shade_current_tile, end_tile, target, Order!orderVars
<1>8. CASE merge_current_tile
  <2>1. pc = "merge" /\ call' = call
    BY <1>8 DEF merge_current_tile
  <2>2. call \in Calls /\ CornersInPlace /\ depth \in [FramePixels -> Nat]
    BY <1>3, <2>1 DEF StagesMatch, Placed, TileStages, TypeOK
  <2>3. CASE next <= Len(cur_tile.pinfos) /\ merge_pixel
    BY <1>3, <1>8, <2>1, <2>2, <2>3, MergeIsTake
  <2>4. CASE UNCHANGED target
    BY <2>1, <2>4 DEF target, Order!orderVars
  <2>5. QED
    BY <1>8, <2>3, <2>4 DEF merge_current_tile
<1>9. CASE end_draw
  <2>1. /\ pc = "end_draw" /\ call' = NoCall /\ UNCHANGED <<color, depth, taken>>
    BY <1>9 DEF end_draw, target
  <2>2. call \in Calls /\ call # NoCall
    BY <1>3, <2>1, DrawAssumption DEF StagesMatch
  <2>3. ASSUME NEW p \in Order!Pixels, NEW k \in Order!Triangles(call),
               Order!Inside(call, k, p), ~Order!Discarded(call, k)
        PROVE  k \in taken[p]
    <3>1. k \in 1 .. call.indexCount \div 3 /\ TakesAll(call, taken[p], p)
      BY <1>3, <1>4, <2>1 DEF Taken, Order!Triangles
    <3>2. Order!Turn(call, k) # 0
      BY <2>2, <3>1 DEF AreasAre, HasArea
    <3>3. Order!Turn(call, k) \in Int
      BY <2>2, <3>1, TurnsAre
    <3>4. ~IsCulled(call, k)
      BY <2>2, <2>3, <3>2, <3>3, CulledIsDiscarded DEF IsCulled
    <3>5. QED
      BY <2>3, <3>1, <3>4 DEF TakesAll
  <2>4. Order!End
    BY <2>1, <2>2, <2>3 DEF Order!End
  <2>5. QED
    BY <2>4 DEF Order!Next
<1>10. QED
  BY <1>2, <1>5, <1>6, <1>7, <1>8, <1>9 DEF Next

-----------------------------------------------------------------------------
(* Types.                                                                  *)

(* What is made of a storage is one. *)
LEMMA StoragesStay ==
  ASSUME NEW s \in Storages
  PROVE  /\ \A n, a \in Nat : alloc_align(s, n, a) \in Storages
         /\ \A n \in Nat \ {0} : alloc_page_aligned(s, n) \in Storages
         /\ enter_scope(s) \in Storages
         /\ s.scopes # <<>> => exit_scope(s) \in Storages
<1>1. PICK c \in Nat, saved \in Seq(Nat) : s = [cursor |-> c, scopes |-> saved]
  BY DEF Storages
<1>2. \A n \in Nat : alloc(s, n) \in Storages
  BY <1>1 DEF alloc, Storages
<1>3. \A n, a \in Nat : alloc_align(s, n, a) \in Storages
  BY <1>2 DEF alloc_align
<1>4. ASSUME NEW n \in Nat \ {0} PROVE page_align_up(n) + Page \in Nat
  <2>1. Page \in Nat \ {0}
    BY StorageAssumption
  <2>2. page_align_down(n) \in Nat
    BY PagesAre
  <2>3. n % Page = 0 => n >= Page
    <3>1. SUFFICES ASSUME n < Page PROVE n % Page = n
      BY <2>1
    <3>2. \A a \in Nat \ {0} : \A b \in 0 .. a - 1 : b % a = b
      <4>1. TAKE a \in Nat \ {0}
      <4>2. TAKE b \in 0 .. a - 1
      <4>3. (0 * a + b) % a = b
        BY QuotientOf
      <4>4. 0 * a + b = b
        OBVIOUS
      <4>5. QED
        BY <4>3, <4>4
    <3>3. QED
      BY <2>1, <3>1, <3>2
  <2>4. QED
    BY <2>1, <2>2, <2>3 DEF page_align_up
<1>5. \A n \in Nat \ {0} : alloc_page_aligned(s, n) \in Storages
  BY <1>2, <1>4 DEF alloc_page_aligned
<1>6. enter_scope(s) \in Storages
  <2>1. Append(saved, c) \in Seq(Nat)
    OBVIOUS
  <2>2. enter_scope(s) = [cursor |-> c, scopes |-> Append(saved, c)]
    BY <1>1 DEF enter_scope
  <2>3. QED
    BY <2>1, <2>2 DEF Storages
<1>7. ASSUME saved # <<>> PROVE exit_scope(s) \in Storages
  <2>1. Len(saved) \in Nat \ {0} /\ Len(saved) \in 1 .. Len(saved)
    BY <1>7
  <2>2. saved[Len(saved)] \in Nat
    BY <2>1
  <2>3. SubSeq(saved, 1, Len(saved) - 1) \in Seq(Nat)
    <3>1. Len(saved) - 1 \in Nat /\ \A i \in 1 .. Len(saved) - 1 : i \in 1 .. Len(saved)
      BY <2>1
    <3>2. QED
      BY <3>1, SubSeqProperties
  <2>4. QED
    BY <1>1, <2>2, <2>3 DEF exit_scope, Storages
<1>8. QED
  BY <1>1, <1>3, <1>5, <1>6, <1>7

(* The storage stays one. *)
LEMMA StorageTypes ==
  ASSUME ScopesOpen, StagesMatch, ts \in Storages, Next, pc # "trap",
         pc = "descriptors" => next \in Nat \ {0}
  PROVE  ts' \in Storages
<1>1. PICK d : pc \in CallStages \cup TileStages => Nested(ts, <<0>>) \/ Nested(ts, <<0, d>>)
  BY DEF ScopesOpen
<1>2. pc \in CallStages \cup TileStages => ts.scopes # <<>>
  <2>1. <<0>> # <<>> /\ <<0, d>> # <<>>
    <3>1. Len(<<0>>) = 1 /\ Len(<<0, d>>) = 2 /\ Len(<<>>) = 0
      OBVIOUS
    <3>2. QED
      BY <3>1
  <2>2. QED
    BY <1>1, <2>1 DEF Nested
<1>3. pc # "idle" => call \in Calls /\ call.indexCount \in Nat
  BY DrawAssumption DEF StagesMatch
<1>4. CASE clear_attachment
  BY <1>4 DEF clear_attachment
<1>5. CASE begin_draw_indexed
  BY <1>5, StoragesStay DEF begin_draw_indexed, Proceed
<1>6. CASE setup_descriptors
  <2>1. call \in Calls /\ next \in Nat \ {0}
    BY <1>3, <1>6 DEF setup_descriptors
  <2>2. CASE next <= Len(call.sets)
    <3> DEFINE S == [type : STRING, bound : BOOLEAN]
    <3>1. call.sets \in Seq(Seq(S))
      BY <2>1, DrawAssumption DEF DescriptorSets
    <3> HIDE DEF S
    <3>2. next \in 1 .. Len(call.sets)
      BY <2>1, <2>2, <3>1
    <3>3. call.sets[next] \in Seq(S)
      BY <3>1, <3>2
    <3>4. 2 * Len(call.sets[next]) \in Nat
      BY <3>3
    <3>5. ts' = alloc_align(ts, 2 * Len(call.sets[next]), 8)
      BY <1>6, <2>2 DEF setup_descriptors, Proceed
    <3>6. QED
      BY <3>4, <3>5, StoragesStay
  <2>3. CASE ~(next <= Len(call.sets))
    BY <1>6, <2>3 DEF setup_descriptors
  <2>4. QED
    BY <2>2, <2>3
<1>7. CASE IA_stage
  <2>1. ts' = alloc_align(ts, Units(call.indexCount) * InputStride, 8) /\ pc = "IA"
    BY <1>7 DEF IA_stage, Proceed
  <2>2. InputStride \in Nat
    BY <1>3, <2>1, LayoutIs, DrawAssumption DEF InputStride
  <2>3. Units(call.indexCount) * InputStride \in Nat
    BY <1>3, <2>1, <2>2, SizesAre
  <2>4. QED
    BY <2>1, <2>3, StoragesStay
<1>8. CASE VS_stage
  <2> DEFINE output == alloc_align(ts, OutputWords(call.indexCount), 8)
  <2>1. ts' = alloc_align(output, Units(call.indexCount) * 4, 8) /\ pc = "VS"
    BY <1>8 DEF VS_stage, Proceed
  <2>2. OutputStride \in Nat
    BY <1>3, <2>1, LayoutIs, DrawAssumption DEF OutputStride
  <2>3. OutputWords(call.indexCount) \in Nat /\ Units(call.indexCount) * 4 \in Nat
    BY <1>3, <2>1, <2>2, SizesAre DEF OutputWords
  <2>4. output \in Storages
    BY <2>3, StoragesStay
  <2> HIDE DEF output
  <2>5. QED
    BY <2>1, <2>3, <2>4, StoragesStay
<1>9. CASE PA_stage
  <2>1. ts' = alloc_align(ts, 4 * call.indexCount * 6, 8) /\ pc = "PA"
    BY <1>9 DEF PA_stage, Proceed
  <2>2. 4 * call.indexCount * 6 \in Nat
    BY <1>3, <2>1
  <2>3. QED
    BY <2>1, <2>2, StoragesStay
<1>10. CASE begin_tile
  <2> DEFINE scope == enter_scope(ts)
             pinfos == alloc_page_aligned(scope, 7 * MaxInvocations)
  <2>1. ts' = alloc_align(pinfos, 4 * MaxTiles, 8)
    BY <1>10 DEF begin_tile, Proceed
  <2>2. 7 * MaxInvocations \in Nat \ {0} /\ 4 * MaxTiles \in Nat
    BY DrawAssumption
  <2>3. scope \in Storages
    BY StoragesStay
  <2> HIDE DEF scope
  <2>4. pinfos \in Storages
    BY <2>2, <2>3, StoragesStay
  <2> HIDE DEF pinfos
  <2>5. QED
    BY <2>1, <2>2, <2>4, StoragesStay
<1>11. CASE rasterize_current_tile
  BY <1>11 DEF rasterize_current_tile
<1>12. CASE setup_pixel_input_current_tile
  <2> DEFINE units == Units(Len(cur_tile.pinfos))
             output == alloc_align(ts, 4 * units, 8)
             positions == alloc_align(output, 4 * units * 3, 8)
             depths == alloc_align(positions, units, 8)
  <2>1. ts' = ts \/ ts' = alloc_align(depths, 3 * PixelStride * units, 8)
    BY <1>12 DEF setup_pixel_input_current_tile, Proceed
  <2>2. pc = "setup" /\ \E S : cur_tile.pinfos \in Seq(S)
    BY <1>12 DEF setup_pixel_input_current_tile, StagesMatch, OfTriangles, TileStages
  <2>3. units \in Nat /\ \A k \in Nat : k * units \in Nat
    <3>1. Len(cur_tile.pinfos) \in Nat
      BY <2>2
    <3>2. QED
      BY <3>1, SizesAre
  <2>4. PixelStride \in Nat
    BY <1>3, <2>2, LayoutIs, DrawAssumption DEF PixelStride
  <2> HIDE DEF units
  <2>5. 4 * units \in Nat /\ 4 * units * 3 \in Nat /\ 3 * PixelStride \in Nat
    BY <2>3, <2>4
  <2>6. 3 * PixelStride * units \in Nat
    BY <2>3, <2>5
  <2>7. output \in Storages
    BY <2>5, StoragesStay
  <2> HIDE DEF output
  <2>8. positions \in Storages
    BY <2>5, <2>7, StoragesStay
  <2> HIDE DEF positions
  <2>9. depths \in Storages
    BY <2>3, <2>8, StoragesStay
  <2> HIDE DEF depths
  <2>10. QED
    BY <2>1, <2>6, <2>9, StoragesStay
<1>13. CASE shade_current_tile
  BY <1>13 DEF shade_current_tile
<1>14. CASE merge_current_tile
  BY <1>14 DEF merge_current_tile
<1>15. CASE end_tile
  BY <1>2, <1>15, StoragesStay DEF end_tile, Proceed, tile_released, TileStages
<1>16. CASE end_draw
  BY <1>2, <1>16, StoragesStay DEF end_draw, Proceed, CallStages
<1>17. QED
  BY <1>4, <1>5, <1>6, <1>7, <1>8, <1>9, <1>10, <1>11, <1>12, <1>13, <1>14, <1>15, <1>16 DEF Next

(* What the blending makes of two colours is one. *)
LEMMA BlendedIs ==
  ASSUME NEW dst \in [value : Values, alpha : Values], NEW src \in [value : Values, alpha : Values]
  PROVE  Blended(dst, src) \in [value : Values, alpha : Values]
<1>1. Full \in Nat \ {0}
  BY DrawAssumption
<1>2. PICK u \in Nat, v \in Nat, a \in Nat :
        /\ u = dst.value /\ v = src.value /\ a = src.alpha
        /\ u <= Full /\ v <= Full /\ a <= Full
  BY <1>1 DEF Values
<1>3. ASSUME NEW n \in Nat, n <= Full * Full PROVE n \div Full \in Values
  <2>1. n \div Full \in Nat
    BY <1>1
  <2>2. n \div Full <= (Full * Full) \div Full
    <3>1. Full * Full \in Int
      BY <1>1
    <3>2. QED
      BY <1>1, <1>3, <3>1, QuotientsInOrder
  <2>3. (Full * Full) \div Full = Full
    <3>1. \A g \in Nat \ {0} : (g * g) \div g = g
      <4>1. TAKE g \in Nat \ {0}
      <4>2. g * g + 0 = g * g /\ 0 \in 0 .. g - 1
        OBVIOUS
      <4>3. (g * g + 0) \div g = g
        BY <4>2, QuotientOf
      <4>4. QED
        BY <4>2, <4>3
    <3>2. QED
      BY <1>1, <3>1
  <2>4. QED
    BY <1>1, <2>1, <2>2, <2>3 DEF Values
<1>4. Full - a \in Nat /\ Full - a <= Full
  BY <1>1, <1>2
<1>5. \A x, y \in Nat : x * y \in Nat
  OBVIOUS
<1>6. \A x, y, z \in Nat : x <= y => x * z <= y * z
  <2>1. TAKE x \in Nat, y \in Nat, z \in Nat
  <2>2. x <= y => y - x \in Nat /\ (y - x) * z \in Nat /\ y * z = x * z + (y - x) * z
    OBVIOUS
  <2>3. x * z \in Nat /\ y * z \in Nat
    OBVIOUS
  <2>4. QED
    BY <2>2, <2>3
<1> DEFINE b == Full - a
<1>7. b \in Nat /\ b <= Full /\ a + b = Full
  BY <1>1, <1>2, <1>4
<1>8. u * b + v * a \in Nat /\ u * b + v * a <= Full * Full
  <2> HIDE DEF b
  <2>1. u * b <= Full * b /\ v * a <= Full * a
    BY <1>1, <1>2, <1>6, <1>7
  <2>2. Full * b + Full * a = Full * Full
    <3>1. \A f, d, e \in Nat : f * d + f * e = f * (d + e)
      OBVIOUS
    <3>2. Full * b + Full * a = Full * (b + a) /\ b + a = Full
      BY <1>1, <1>2, <1>7, <3>1
    <3>3. QED
      BY <3>2
  <2>3. u * b \in Nat /\ v * a \in Nat /\ Full * b \in Nat /\ Full * a \in Nat
    BY <1>1, <1>2, <1>5, <1>7
  <2>4. QED
    BY <2>1, <2>2, <2>3
<1>9. a * b \in Nat /\ a * b <= Full * Full
  <2> HIDE DEF b
  <2>1. a * b <= Full * b /\ b * Full <= Full * Full /\ Full * b = b * Full
    BY <1>1, <1>2, <1>6, <1>7
  <2>2. a * b \in Nat /\ Full * b \in Nat /\ Full * Full \in Nat
    BY <1>1, <1>2, <1>5, <1>7
  <2>3. QED
    BY <2>1, <2>2
<1>10. Blended(dst, src) = IF call.blend THEN [value |-> (u * b + v * a) \div Full, alpha |-> (a * b) \div Full]
                           ELSE src
  BY <1>2 DEF Blended
<1> HIDE DEF b
<1>11. (u * b + v * a) \div Full \in Values /\ (a * b) \div Full \in Values
  BY <1>3, <1>8, <1>9
<1>12. QED
  BY <1>10, <1>11

(* The framebuffer keeps to its colours and depths. *)
LEMMA TargetTypes ==
  ASSUME TypeOK, pc # "trap" => StagesMatch /\ Placed /\ Found /\ Shaded /\ Taken, [Next]_vars
  PROVE  /\ color' \in [FramePixels -> [value : Values, alpha : Values]]
         /\ depth' \in [FramePixels -> Nat]
<1> DEFINE Colors == [value : Values, alpha : Values]
<1>1. color \in [FramePixels -> Colors] /\ depth \in [FramePixels -> Nat]
  BY DEF TypeOK
<1>2. CASE UNCHANGED <<color, depth>>
  BY <1>1, <1>2
<1>3. CASE clear_attachment
  <2>1. PICK c \in Clears : color' = [p \in FramePixels |-> c.color] /\ depth' = [p \in FramePixels |-> c.depth]
    BY <1>3 DEF clear_attachment
  <2>2. c.color \in Colors /\ c.depth \in Nat
    BY DrawAssumption DEF Values
  <2> HIDE DEF Colors
  <2>3. QED
    BY <2>1, <2>2 DEF Colors
<1>4. CASE /\ pc = "merge" /\ merge_pixel /\ next <= Len(cur_tile.pinfos)
  <2> DEFINE info == cur_tile.pinfos[next]
             p == <<info.x, info.y>>
             z == cur_tile.depth_output[next]
             out == cur_tile.output[next]
  <2>1. IsShaded(call, info, out, z)
    BY <1>4, PixelAtTurn
  <2>2. z \in Nat /\ out \in Colors
    BY <2>1 DEF IsShaded
  <2> HIDE DEF info, z, out, Colors
  <2>3. \/ UNCHANGED <<color, depth>>
        \/ /\ p \in FramePixels
           /\ depth' = [depth EXCEPT ![p] = IF call.depthWrite THEN z ELSE @]
           /\ color' = [color EXCEPT ![p] = Blended(@, out)]
    BY <1>4 DEF merge_pixel, target, info, z, out
  <2> HIDE DEF p
  <2>4. ASSUME p \in FramePixels, depth' = [depth EXCEPT ![p] = IF call.depthWrite THEN z ELSE @],
               color' = [color EXCEPT ![p] = Blended(@, out)]
        PROVE  color' \in [FramePixels -> Colors] /\ depth' \in [FramePixels -> Nat]
    <3>1. color[p] \in Colors /\ depth[p] \in Nat
      BY <1>1, <2>4
    <3>2. Blended(color[p], out) \in Colors
      BY <2>2, <3>1, BlendedIs DEF Colors
    <3>3. QED
      BY <1>1, <2>2, <2>4, <3>1, <3>2
  <2>5. QED
    BY <1>1, <2>3, <2>4 DEF Colors
<1>5. QED
  <2>1. \/ UNCHANGED <<color, depth>> \/ clear_attachment
        \/ pc = "merge" /\ merge_pixel /\ next <= Len(cur_tile.pinfos)
    BY DEF Next, vars, begin_draw_indexed, setup_descriptors, IA_stage, VS_stage, PA_stage, begin_tile,
       rasterize_current_tile, setup_pixel_input_current_tile, shade_current_tile, merge_current_tile,
       end_tile, end_draw, target
  <2>2. pc = "merge" => pc # "trap"
    OBVIOUS
  <2>3. QED
    BY <1>2, <1>3, <1>4, <2>1

(* The tile stays one of the framebuffer's, or the one after the last, and *)
(* its pixels those of triangles.                                          *)
LEMMA TileTypes ==
  ASSUME TypeOK, PixelsInv, PixelsInv', DrawInv, Next, pc # "trap"
  PROVE  /\ cur_tile'.x \in 0 .. XTiles /\ cur_tile'.y \in 0 .. YTiles
         /\ \A i \in DOMAIN cur_tile'.pinfos : cur_tile'.pinfos[i].triangle_id \in Nat \ {0}
<1>1. /\ DOMAIN cur_tile = DOMAIN NoTile /\ StagesMatch
      /\ cur_tile.x \in 0 .. XTiles /\ cur_tile.y \in 0 .. YTiles
      /\ \A i \in DOMAIN cur_tile.pinfos : cur_tile.pinfos[i].triangle_id \in Nat \ {0}
  BY DEF TypeOK, PixelsInv, StagesMatch
<1>2. XTiles \in Nat \ {0} /\ YTiles \in Nat \ {0}
  BY TilesAre
<1>3. ASSUME cur_tile'.x = cur_tile.x, cur_tile'.y = cur_tile.y, cur_tile'.pinfos = cur_tile.pinfos
      PROVE  /\ cur_tile'.x \in 0 .. XTiles /\ cur_tile'.y \in 0 .. YTiles
             /\ \A i \in DOMAIN cur_tile'.pinfos : cur_tile'.pinfos[i].triangle_id \in Nat \ {0}
  BY <1>1, <1>3
<1>4. CASE PA_stage \/ end_draw
  <2>1. cur_tile' = NoTile
    BY <1>4 DEF PA_stage, end_draw
  <2>2. cur_tile'.x = 0 /\ cur_tile'.y = 0 /\ cur_tile'.pinfos = <<>>
    BY <2>1 DEF NoTile
  <2>3. QED
    BY <1>2, <2>2
<1>5. CASE rasterize_current_tile
  <2>1. /\ pc = "rasterize" /\ pc' \in {"rasterize", "setup"} /\ call' = call
        /\ \/ cur_tile' = cur_tile
           \/ \E f, t : cur_tile' = [cur_tile EXCEPT !.pinfos = f, !.tiles = t]
    BY <1>5 DEF rasterize_current_tile
  <2>2. cur_tile'.x = cur_tile.x /\ cur_tile'.y = cur_tile.y
    BY <1>1, <2>1 DEF NoTile
  <2>3. OfTriangles(cur_tile'.pinfos, 1 .. call'.indexCount \div 3)
    BY <2>1 DEF PixelsInv, StagesMatch, TileStages
  <2>4. PICK S : cur_tile'.pinfos \in Seq(S) /\ \A info \in S : info.triangle_id \in 1 .. call'.indexCount \div 3
    BY <2>3 DEF OfTriangles
  <2>5. \A i \in DOMAIN cur_tile'.pinfos : cur_tile'.pinfos[i].triangle_id \in Nat \ {0}
    <3>1. TAKE i \in DOMAIN cur_tile'.pinfos
    <3>2. cur_tile'.pinfos[i] \in S
      BY <2>4
    <3>3. cur_tile'.pinfos[i].triangle_id \in 1 .. call'.indexCount \div 3
      BY <2>4, <3>2
    <3>4. call'.indexCount \in Nat
      BY <1>1, <2>1, DrawAssumption DEF StagesMatch
    <3>5. QED
      BY <3>3, <3>4
  <2>6. QED
    BY <1>1, <2>2, <2>5
<1>6. CASE setup_pixel_input_current_tile
  <2>1. \/ cur_tile' = cur_tile
        \/ \E f, t : cur_tile' = [cur_tile EXCEPT !.input = f, !.positions = t]
    BY <1>6 DEF setup_pixel_input_current_tile
  <2>2. cur_tile'.x = cur_tile.x /\ cur_tile'.y = cur_tile.y /\ cur_tile'.pinfos = cur_tile.pinfos
    BY <1>1, <2>1 DEF NoTile
  <2>3. QED
    BY <1>3, <2>2
<1>7. CASE shade_current_tile
  <2>1. \/ cur_tile' = cur_tile
        \/ \E f, t : cur_tile' = [cur_tile EXCEPT !.output = f, !.depth_output = t]
    BY <1>7 DEF shade_current_tile
  <2>2. cur_tile'.x = cur_tile.x /\ cur_tile'.y = cur_tile.y /\ cur_tile'.pinfos = cur_tile.pinfos
    BY <1>1, <2>1 DEF NoTile
  <2>3. QED
    BY <1>3, <2>2
<1>8. CASE end_tile
  <2> DEFINE x == (cur_tile.x + 1) % XTiles
             y == IF x = 0 THEN cur_tile.y + 1 ELSE cur_tile.y
  <2>1. pc = "end_tile" /\ cur_tile' = [NoTile EXCEPT !.x = x, !.y = y]
    BY <1>8 DEF end_tile
  <2>2. cur_tile.x \in 0 .. XTiles - 1 /\ cur_tile.y \in 0 .. YTiles - 1
    BY <2>1 DEF DrawInv, Placed, TileStages
  <2>3. x \in 0 .. XTiles /\ y \in 0 .. YTiles
    <3>1. \A n \in Nat, g \in Nat \ {0} : n % g \in 0 .. g - 1
      OBVIOUS
    <3>2. x \in 0 .. XTiles - 1
      <4>1. cur_tile.x + 1 \in Nat
        BY <1>2, <2>2
      <4>2. QED
        BY <1>2, <3>1, <4>1
    <3> HIDE DEF x
    <3>3. QED
      BY <1>2, <2>2, <3>2
  <2> HIDE DEF x, y
  <2>4. cur_tile'.x = x /\ cur_tile'.y = y /\ cur_tile'.pinfos = <<>>
    BY <2>1 DEF NoTile
  <2>5. QED
    BY <2>3, <2>4
<1>9. ASSUME \/ clear_attachment \/ begin_draw_indexed \/ setup_descriptors \/ IA_stage \/ VS_stage
             \/ begin_tile \/ merge_current_tile
      PROVE  cur_tile' = cur_tile
  BY <1>9 DEF clear_attachment, begin_draw_indexed, setup_descriptors, IA_stage, VS_stage, begin_tile,
     merge_current_tile
<1>10. QED
  BY <1>3, <1>4, <1>5, <1>6, <1>7, <1>8, <1>9 DEF Next

(* The types, and the descriptor set whose turn it is. *)
TypesInv ==
  /\ TypeOK
  /\ pc = "descriptors" => next \in Nat \ {0}

(* At first everything has its type. *)
LEMMA InitTypes == Init => TypesInv
<1> SUFFICES ASSUME Init PROVE TypesInv
  OBVIOUS
<1>1. /\ pc = "idle" /\ call = NoCall /\ ts = create /\ cur_tile = NoTile
  BY DEF Init
<1>2. ts \in Storages
  BY <1>1 DEF create, Storages
<1>3. PICK c \in Clears : color = [p \in FramePixels |-> c.color] /\ depth = [p \in FramePixels |-> c.depth]
  BY DEF Init
<1>4. c.color \in [value : Values, alpha : Values] /\ c.depth \in Nat
  BY DrawAssumption DEF Values
<1>5. color \in [FramePixels -> [value : Values, alpha : Values]] /\ depth \in [FramePixels -> Nat]
  BY <1>3, <1>4
<1>6. cur_tile.x = 0 /\ cur_tile.y = 0 /\ cur_tile.pinfos = <<>>
  BY <1>1 DEF NoTile
<1>7. 0 \in 0 .. XTiles /\ 0 \in 0 .. YTiles
  BY TilesAre
<1>8. QED
  BY <1>1, <1>2, <1>5, <1>6, <1>7 DEF TypesInv, TypeOK, Stages

(* And every step keeps the types. *)
LEMMA NextTypes ==
  ASSUME ScopesOpen, ScopesOpen', PixelsInv, PixelsInv', DrawInv, TypesInv, [Next]_vars
  PROVE  TypesInv'
<1>1. CASE pc = "trap" \/ UNCHANGED vars
  <2>1. UNCHANGED vars
    BY <1>1 DEF Next, clear_attachment, begin_draw_indexed, setup_descriptors, IA_stage, VS_stage,
       PA_stage, begin_tile, rasterize_current_tile, setup_pixel_input_current_tile,
       shade_current_tile, merge_current_tile, end_tile, end_draw
  <2>2. UNCHANGED <<pc, call, ts, color, depth, cur_tile, next>>
    BY <2>1 DEF vars
  <2>3. QED
    BY <2>2 DEF TypesInv, TypeOK
<1>2. CASE pc # "trap" /\ Next
  <2>1. TypeOK /\ StagesMatch /\ Placed /\ Found /\ Shaded /\ Taken
    BY <1>2 DEF TypesInv, PixelsInv, DrawInv
  <2>2. pc' \in Stages
    BY DEF ScopesOpen
  <2>3. call' \in Calls \cup {NoCall}
    <3>1. call' = call \/ call' = NoCall \/ call' \in Calls
      BY <1>2 DEF Next, clear_attachment, begin_draw_indexed, setup_descriptors, IA_stage, VS_stage,
         PA_stage, begin_tile, rasterize_current_tile, setup_pixel_input_current_tile,
         shade_current_tile, merge_current_tile, end_tile, end_draw
    <3>2. QED
      BY <2>1, <3>1 DEF TypeOK
  <2>4. ts' \in Storages
    BY <1>2, <2>1, StorageTypes DEF TypesInv, TypeOK
  <2>5. color' \in [FramePixels -> [value : Values, alpha : Values]] /\ depth' \in [FramePixels -> Nat]
    BY <2>1, TargetTypes
  <2>6. /\ cur_tile'.x \in 0 .. XTiles /\ cur_tile'.y \in 0 .. YTiles
        /\ \A i \in DOMAIN cur_tile'.pinfos : cur_tile'.pinfos[i].triangle_id \in Nat \ {0}
    BY <1>2, <2>1, TileTypes
  <2>7. ASSUME pc' = "descriptors" PROVE next' \in Nat \ {0}
    <3>1. CASE begin_draw_indexed
      BY <3>1 DEF begin_draw_indexed
    <3>2. CASE setup_descriptors
      <4>1. pc = "descriptors" /\ (next' = next + 1 \/ next' = next)
        BY <3>2 DEF setup_descriptors
      <4>2. QED
        BY <4>1 DEF TypesInv
    <3>3. QED
      BY <1>2, <2>7, <3>1, <3>2 DEF Next, clear_attachment, IA_stage, VS_stage, PA_stage, begin_tile,
         rasterize_current_tile, setup_pixel_input_current_tile, shade_current_tile,
         merge_current_tile, merge_pixel, end_tile, end_draw, Proceed, target
  <2>8. QED
    BY <2>2, <2>3, <2>4, <2>5, <2>6, <2>7 DEF TypesInv, TypeOK
<1>3. QED
  BY <1>1, <1>2

(* All of it together. *)
AllInv == ScopesOpen /\ PixelsInv /\ DrawInv /\ TypesInv

(* And every step keeps it. *)
LEMMA AllStays ==
  ASSUME AreasAre, AllInv, [Next]_vars
  PROVE  AllInv'
<1>1. ScopesOpen' /\ PixelsInv'
  BY NextScopes, NextPixels DEF AllInv
<1>2. DrawInv'
  BY NextDraw DEF AllInv
<1>3. TypesInv'
  BY <1>1, NextTypes DEF AllInv
<1>4. QED
  BY <1>1, <1>2, <1>3 DEF AllInv

-----------------------------------------------------------------------------
(* The theorems.                                                           *)

(***************************************************************************)
(* The stages of a draw call keep to their types: no colour leaves what    *)
(* the target can show, however often it was blended; no depth is negative *)
(* and no cursor of the storage; no tile lies outside the framebuffer. For *)
(* calls whose triangles have an area.                                     *)
(***************************************************************************)
THEOREM DrawTypes ==
  ASSUME \A c \in Calls : \A k \in Order!Triangles(c) : HasArea(c, k)
  PROVE  Spec => []TypeOK
<1>1. AreasAre
  BY DEF AreasAre, Order!Triangles
<1>2. Init => AllInv
  BY InitScopes, InitPixels, InitDraw, InitTypes DEF AllInv
<1>3. AllInv /\ [Next]_vars => AllInv'
  BY <1>1, AllStays
<1>4. AllInv => TypeOK
  BY DEF AllInv, TypesInv
<1>5. QED
  BY <1>2, <1>3, <1>4, PTL DEF Spec

(***************************************************************************)
(* Draw implements RasterOrder: whichever sizes the framebuffer, its tiles *)
(* and the subgroups have, and whichever state a call sets, every pixel    *)
(* takes the triangles that hold its centre once, in the order of the      *)
(* index list, and shows the depth and the colour the promise allows. For  *)
(* calls whose triangles have an area and are culled as meant.             *)
(***************************************************************************)
THEOREM DrawIsInRasterOrder ==
  ASSUME \A c \in Calls : Regular(c)
  PROVE  Spec => InRasterOrder
<1>1. AreasAre /\ \A c \in Calls : CullsAsMeant(c)
  BY DEF AreasAre, Regular, Order!Triangles
<1>2. Init => AllInv /\ Order!Init
  BY InitScopes, InitPixels, InitDraw, InitTypes, InitOrder DEF AllInv
<1>3. AllInv /\ [Next]_vars => AllInv'
  BY <1>1, AllStays
<1>4. AllInv /\ [Next]_vars => [Order!Next]_Order!orderVars
  BY <1>1, NextOrder DEF AllInv, TypesInv
<1>5. QED
  BY <1>2, <1>3, <1>4, PTL DEF Spec, InRasterOrder, Order!Spec
=============================================================================
