----------------------------- MODULE RasterOrder ----------------------------
(***************************************************************************)
(* What a draw promises to whoever looks at the framebuffer: every pixel   *)
(* takes the triangles that hold its centre in the order of the index      *)
(* list, each once, and shows what the depth test and the blending of the  *)
(* call make of them. Nothing is said of the order of the pixels.          *)
(*                                                                         *)
(* Where the promise leaves a choice: a pixel whose centre is on the edge  *)
(* of a triangle may be part of it or not; a fragment exactly as deep as   *)
(* what it meets may pass the test or not; and a triangle that turns the   *)
(* other way may give a pixel any value between those of its corners.      *)
(***************************************************************************)
EXTENDS Scene

CONSTANTS
  Calls,    \* the draw calls an application makes
  Clears,   \* what it clears the framebuffer to: records of color and depth
  Full,     \* the value of a component of the colour that means 1.0
  NoCall    \* no draw is under way

VARIABLES
  drawing,  \* the call under way
  color,    \* of each pixel: a record of its value and its alpha
  depth,    \* of each pixel
  taken     \* the triangles of the call each pixel has taken

orderVars == <<drawing, color, depth, taken>>

Init ==
  /\ drawing = NoCall
  /\ \E c \in Clears : color = [p \in Pixels |-> c.color] /\ depth = [p \in Pixels |-> c.depth]
  /\ taken = [p \in Pixels |-> {}]

Clear ==
  /\ drawing = NoCall
  /\ \E c \in Clears : color' = [p \in Pixels |-> c.color] /\ depth' = [p \in Pixels |-> c.depth]
  /\ UNCHANGED <<drawing, taken>>

Begin ==
  /\ drawing = NoCall
  /\ drawing' \in Calls
  /\ taken' = [p \in Pixels |-> {}]
  /\ UNCHANGED <<color, depth>>

(* The values the corners may give to pixel p. *)
Values(k, p, val(_)) ==
  IF Turn(drawing, k) > 0 THEN {Interpolated(drawing, k, p, val)} ELSE Between(val)

Depths(k, p) == Values(k, p, LAMBDA i : Corner(drawing, k, i).z)

Attributes(k, p, loc) == Values(k, p, LAMBDA i : Corner(drawing, k, i).attr[loc])

Nearer(a, b) == IF drawing.depthCompareOp \in {"less", "less_or_equal"} THEN a < b ELSE a > b

MayPass(p, z) == drawing.depthTest => ~Nearer(depth[p], z)

MayFail(p, z) == drawing.depthTest /\ ~Nearer(z, depth[p])

(* What pixel p shows once value v of opacity a was drawn over it. *)
Drawn(p, v, a) ==
  IF drawing.blend
    THEN [value |-> (color[p].value * (Full - a) + v * a) \div Full,
          alpha |-> (a * (Full - a)) \div Full]
    ELSE [value |-> v, alpha |-> a]

Opacity(k, p) ==
  IF drawing.opacityLocation = NoCall THEN {Full} ELSE Attributes(k, p, drawing.opacityLocation)

Take(p, k) ==
  /\ drawing # NoCall
  /\ k \in Triangles(drawing)
  /\ \A j \in taken[p] : j < k
  /\ Touches(drawing, k, p) /\ ~Discarded(drawing, k)
  /\ taken' = [taken EXCEPT ![p] = @ \cup {k}]
  /\ drawing' = drawing
  /\ \E z \in Depths(k, p) :
       \/ /\ MayFail(p, z)
          /\ UNCHANGED <<color, depth>>
       \/ /\ MayPass(p, z)
          /\ depth' = [depth EXCEPT ![p] = IF drawing.depthWrite THEN z ELSE @]
          /\ \E v \in Attributes(k, p, drawing.valueLocation), a \in Opacity(k, p) :
               color' = [color EXCEPT ![p] = Drawn(p, v, a)]

End ==
  /\ drawing # NoCall
  /\ \A p \in Pixels, k \in Triangles(drawing) :
       Inside(drawing, k, p) /\ ~Discarded(drawing, k) => k \in taken[p]
  /\ drawing' = NoCall
  /\ UNCHANGED <<color, depth, taken>>

Next ==
  \/ Clear
  \/ Begin
  \/ drawing # NoCall /\ \E p \in Pixels, k \in Triangles(drawing) : Take(p, k)
  \/ End

Spec == Init /\ [][Next]_orderVars
=============================================================================
