--------------------------- MODULE SpirvSemantics ---------------------------
(***************************************************************************)
(* What the SPIR-V specification (and that of GLSL.std.450) says an        *)
(* instruction computes, on the values of LaneOperations; a matrix is the  *)
(* sequence of its columns here. It is not taken from the repository: it   *)
(* is what a shader means. Diverges names the operands for which the       *)
(* vectorizer's choice of instructions computes something else.            *)
(***************************************************************************)
EXTENDS LaneOperations

Defined(x) == x \notin {Undef, NaN}

Floored(a, b) == IF b = 0 THEN NaN ELSE a - b * ((IF b < 0 THEN -a ELSE a) \div Magnitude(b))

FloatMeaning(op, a, b) ==
  CASE op = "FOrdLessThan" -> Defined(a) /\ Defined(b) /\ a < b
    [] op = "FOrdGreaterThan" -> Defined(a) /\ Defined(b) /\ b < a
    [] op = "FOrdLessThanEqual" -> Defined(a) /\ Defined(b) /\ a =< b
    [] op = "FOrdGreaterThanEqual" -> Defined(a) /\ Defined(b) /\ b =< a
    [] ~Defined(a) \/ ~Defined(b) -> NaN
    [] op = "FAdd" -> a + b
    [] op = "FSub" -> a - b
    [] op = "FMul" -> a * b
    [] op = "FDiv" -> Exact(a, b)
    [] op = "FRem" -> IF b = 0 THEN NaN ELSE a - b * Truncated(a, b)
    [] op = "FMod" -> Floored(a, b)

(* The unsigned and the signed readings of a relation or of a division.    *)
Related(rel, a, b) ==
  CASE rel = "GreaterThan" -> a > b
    [] rel = "GreaterThanEqual" -> a >= b
    [] rel = "LessThan" -> a < b
    [] rel = "LessThanEqual" -> a <= b

Relations == {"GreaterThan", "GreaterThanEqual", "LessThan", "LessThanEqual"}

Bits(w) == {i \in 0 .. IntBits - 1 : Bit(w, i) = 1}
Number(bits) == MapThenSumSet(LAMBDA i : 2 ^ i, bits)

IntegerMeaning(op, a, b) ==
  CASE op = "IEqual" -> a = b
    [] op = "INotEqual" -> a # b
    [] \E rel \in Relations : op = "U" \o rel -> Related(CHOOSE rel \in Relations : op = "U" \o rel, a, b)
    [] \E rel \in Relations : op = "S" \o rel ->
         Related(CHOOSE rel \in Relations : op = "S" \o rel, Signed(a), Signed(b))
    [] op = "IAdd" -> ToWord(a + b)
    [] op = "ISub" -> ToWord(a - b)
    [] op = "IMul" -> ToWord(a * b)
    [] op \in {"UDiv", "SDiv", "UMod", "SRem", "SMod"} /\ b = 0 -> Undef
    [] op = "UDiv" -> a \div b
    [] op = "UMod" -> a % b
    [] op = "SDiv" -> ToWord(Truncated(Signed(a), Signed(b)))
    [] op = "SRem" -> ToWord(Signed(a) - Signed(b) * Truncated(Signed(a), Signed(b)))
    [] op = "SMod" -> ToWord(Floored(Signed(a), Signed(b)))
    [] op \in {"ShiftRightLogical", "ShiftRightArithmetic", "ShiftLeftLogical"} /\ b >= IntBits -> Undef
    [] op = "ShiftRightLogical" -> Number({i - b : i \in {i \in Bits(a) : i >= b}})
    [] op = "ShiftRightArithmetic" ->
         Number({i \in 0 .. IntBits - 1 : (IF i + b < IntBits THEN i + b ELSE IntBits - 1) \in Bits(a)})
    [] op = "ShiftLeftLogical" -> Number({i + b : i \in {i \in Bits(a) : i + b < IntBits}})
    [] op = "BitwiseOr" -> Number(Bits(a) \cup Bits(b))
    [] op = "BitwiseAnd" -> Number(Bits(a) \cap Bits(b))
    [] op = "BitwiseXor" -> Number((Bits(a) \cup Bits(b)) \ (Bits(a) \cap Bits(b)))

ScalarMeaning(op, a, b) ==
  CASE a = Undef \/ b = Undef -> Undef
    [] op = "LogicalOr" -> a \/ b
    [] op = "LogicalAnd" -> a /\ b
    [] op \in DOMAIN FloatOps -> FloatMeaning(op, a, b)
    [] OTHER -> IntegerMeaning(op, a, b)

Each(op, a, b) == [i \in DOMAIN a |-> ScalarMeaning(op, a[i], b[i])]

Total(v) == FoldLeft(FAdd, 0, v)
Inner(a, b) == Total(Each("FMul", a, b))

(* Column j of a matrix of n columns, and its row i. *)
Column(m, n, j) == [i \in 1 .. n |-> m[(j - 1) * n + i]]
RowOf(m, n, i) == [j \in 1 .. n |-> m[(j - 1) * n + i]]

Sign(x) == IF ~Defined(x) THEN x ELSE IF x > 0 THEN 1 ELSE IF x < 0 THEN -1 ELSE 0

ExtMeaning(inst, a) ==
  CASE inst = "Sqrt" -> [i \in DOMAIN a[1] |-> Root(a[1][i])]
    [] inst = "Length" -> <<Root(Inner(a[1], a[1]))>>
    [] inst = "Normalize" -> Each("FDiv", a[1], Splat(Root(Inner(a[1], a[1])), Len(a[1])))
    [] inst = "Cross" ->
         [i \in 1 .. 3 |-> LET j == (i % 3) + 1  k == (j % 3) + 1
            IN ScalarMeaning("FSub", FMul(a[1][j], a[2][k]), FMul(a[2][j], a[1][k]))]
    [] inst \in {"UMin", "FMin"} -> [i \in DOMAIN a[1] |-> IF a[2][i] < a[1][i] THEN a[2][i] ELSE a[1][i]]
    [] inst \in {"UMax", "FMax"} -> [i \in DOMAIN a[1] |-> IF a[1][i] < a[2][i] THEN a[2][i] ELSE a[1][i]]
    [] inst = "FSign" -> [i \in DOMAIN a[1] |-> Sign(a[1][i])]
    [] inst = "FAbs" -> [i \in DOMAIN a[1] |-> Absolute(a[1][i])]
    [] inst = "Reflect" ->
         [i \in DOMAIN a[1] |-> ScalarMeaning("FSub", a[1][i], FMul(FMul(2, Inner(a[2], a[1])), a[2][i]))]
    [] inst = "Pow" -> spv_pow(a[1], a[2])
    [] inst = "FClamp" ->
         [i \in DOMAIN a[1] |-> IF a[1][i] < a[2][i] THEN a[2][i] ELSE IF a[1][i] > a[3][i] THEN a[3][i] ELSE a[1][i]]

Meaning(op, a, lits, n) ==
  CASE op \in SimpleOps -> Each(op, a[1], a[2])
    [] op = "VectorTimesScalar" -> [i \in DOMAIN a[1] |-> FMul(a[1][i], a[2][1])]
    [] op = "Dot" -> <<Inner(a[1], a[2])>>
    [] op = "VectorShuffle" ->
         [i \in DOMAIN lits |-> IF lits[i] < Len(a[1]) THEN a[1][lits[i] + 1] ELSE a[2][lits[i] - Len(a[1]) + 1]]
    [] op = "MatrixTimesScalar" -> [i \in DOMAIN a[1] |-> FMul(a[1][i], a[2][1])]
    [] op = "VectorTimesMatrix" -> [j \in 1 .. n |-> Inner(a[1], Column(a[2], n, j))]
    [] op = "MatrixTimesVector" -> [i \in 1 .. n |-> Inner(RowOf(a[1], n, i), a[2])]
    [] op = "MatrixTimesMatrix" ->
         FlattenSeq([j \in 1 .. n |-> [i \in 1 .. n |-> Inner(RowOf(a[1], n, i), Column(a[2], n, j))]])
    [] op = "ExtInst" -> ExtMeaning(lits[1], a)
    [] OTHER -> Compute(op, a, lits, n)

(* Only NaN results and operands the specification leaves open are not     *)
(* compared: the minimum, the maximum and the range of what is no number.  *)
LeftOpen(op, a, lits) ==
  op = "ExtInst" /\ lits[1] \in {"FMin", "FMax", "FClamp", "FSign"}
    /\ \E k \in DOMAIN a : NaN \in Range(a[k])

Diverges(op, a, lits, n) ==
  CASE op = "SMod" -> \E i \in DOMAIN a[1] :
         LET x == Signed(a[1][i])  y == Signed(a[2][i])
         IN y # 0 /\ (x < 0) # (y < 0) /\ Remainder(x, y) # 0
    [] op = "FMod" -> \E i \in DOMAIN a[1] :
         LET x == a[1][i]  y == a[2][i]
         IN Defined(x) /\ Defined(y) /\ y # 0 /\ (x < 0) # (y < 0) /\ Remainder(x, y) # 0
    [] op = "FOrdGreaterThan" -> \E i \in DOMAIN a[1] : NaN \in {a[1][i], a[2][i]}
    [] op = "FOrdGreaterThanEqual" -> \E i \in DOMAIN a[1] : a[1][i] = a[2][i] /\ Defined(a[1][i])
    [] op = "MatrixTimesScalar" -> n > 1
    [] op = "ExtInst" /\ lits[1] = "FSign" ->
         \E i \in DOMAIN a[1] : a[1][i] = 0 \/ (Len(a[1]) = 1 /\ a[1][i] > 0)
    [] op = "ExtInst" /\ lits[1] = "FAbs" ->
         Len(a[1]) = 4 /\ Absolute(a[1][3]) # Absolute(a[1][4])
    [] OTHER -> FALSE
=============================================================================
