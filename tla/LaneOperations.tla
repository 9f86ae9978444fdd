--------------------------- MODULE LaneOperations ---------------------------
(***************************************************************************)
(* What the instructions of one lane compute. spirv_to_llvm.cpp gives most *)
(* SPIR-V instructions one LLVM instruction, and the others a few, or a    *)
(* call into spv_stdlib.cpp. A value is the sequence of its scalars; a     *)
(* matrix is the sequence of its rows. An integer is an unsigned number of *)
(* IntBits bits, a float an integer or NaN: an operation whose result is   *)
(* no integer gives NaN. What is undefined is Undef.                       *)
(***************************************************************************)
EXTENDS Integers, Sequences, SequencesExt, FiniteSetsExt, TLC

CONSTANTS IntBits, NaN, Undef

Word == 0 .. 2 ^ IntBits - 1
ToWord(n) == n % 2 ^ IntBits
Signed(w) == IF w < 2 ^ (IntBits - 1) THEN w ELSE w - 2 ^ IntBits

Magnitude(n) == IF n < 0 THEN -n ELSE n
Truncated(a, b) == (IF (a < 0) = (b < 0) THEN 1 ELSE -1) * (Magnitude(a) \div Magnitude(b))
Remainder(a, b) == a - b * Truncated(a, b)
Exact(a, b) == IF b # 0 /\ Remainder(a, b) = 0 THEN Truncated(a, b) ELSE NaN

Bit(w, i) == (w \div 2 ^ i) % 2
FromBits(on(_)) == FoldLeft(+, 0, [i \in 1 .. IntBits |-> IF on(i - 1) THEN 2 ^ (i - 1) ELSE 0])

-----------------------------------------------------------------------------
(* The LLVM instructions, for two scalars.                                 *)
LlvmFloat(inst, a, b) ==
  CASE inst = "fcmp olt" -> NaN \notin {a, b} /\ a < b
    [] inst = "fcmp ole" -> NaN \notin {a, b} /\ a <= b
    [] inst = "fcmp ogt" -> NaN \notin {a, b} /\ a > b
    [] inst = "fcmp ugt" -> NaN \in {a, b} \/ a > b
    [] NaN \in {a, b} -> NaN
    [] inst = "fadd" -> a + b
    [] inst = "fsub" -> a - b
    [] inst = "fmul" -> a * b
    [] inst = "fdiv" -> Exact(a, b)
    [] inst = "frem" -> IF b = 0 THEN NaN ELSE Remainder(a, b)

LlvmInteger(inst, a, b) ==
  CASE inst = "icmp eq" -> a = b
    [] inst = "icmp ne" -> a # b
    [] inst = "icmp ugt" -> a > b
    [] inst = "icmp uge" -> a >= b
    [] inst = "icmp ult" -> a < b
    [] inst = "icmp ule" -> a <= b
    [] inst = "icmp sgt" -> Signed(a) > Signed(b)
    [] inst = "icmp sge" -> Signed(a) >= Signed(b)
    [] inst = "icmp slt" -> Signed(a) < Signed(b)
    [] inst = "icmp sle" -> Signed(a) <= Signed(b)
    [] inst = "add" -> ToWord(a + b)
    [] inst = "sub" -> ToWord(a - b)
    [] inst = "mul" -> ToWord(a * b)
    [] inst \in {"udiv", "sdiv", "urem", "srem"} /\ b = 0 -> Undef
    [] inst = "udiv" -> a \div b
    [] inst = "urem" -> a % b
    [] inst = "sdiv" -> ToWord(Truncated(Signed(a), Signed(b)))
    [] inst = "srem" -> ToWord(Remainder(Signed(a), Signed(b)))
    [] inst \in {"lshr", "ashr", "shl"} /\ b >= IntBits -> Undef
    [] inst = "lshr" -> a \div 2 ^ b
    [] inst = "ashr" -> ToWord(Signed(a) \div 2 ^ b)
    [] inst = "shl" -> ToWord(a * 2 ^ b)
    [] inst = "or" -> FromBits(LAMBDA i : Bit(a, i) = 1 \/ Bit(b, i) = 1)
    [] inst = "xor" -> FromBits(LAMBDA i : Bit(a, i) # Bit(b, i))
    [] inst = "and" -> FromBits(LAMBDA i : Bit(a, i) = 1 /\ Bit(b, i) = 1)

(* The instruction each opcode becomes.                                    *)
IntegerCompare ==
  "IEqual" :> "icmp eq" @@ "INotEqual" :> "icmp ne"
  @@ "UGreaterThan" :> "icmp ugt" @@ "SGreaterThan" :> "icmp sgt"
  @@ "UGreaterThanEqual" :> "icmp uge" @@ "SGreaterThanEqual" :> "icmp sge"
  @@ "ULessThan" :> "icmp ult" @@ "SLessThan" :> "icmp slt"
  @@ "ULessThanEqual" :> "icmp ule" @@ "SLessThanEqual" :> "icmp sle"

IntegerArithmetic ==
  "IAdd" :> "add" @@ "ISub" :> "sub" @@ "IMul" :> "mul" @@ "UDiv" :> "udiv" @@ "SDiv" :> "sdiv"
  @@ "UMod" :> "urem" @@ "SRem" :> "srem" @@ "SMod" :> "srem"

FloatArithmetic ==
  "FAdd" :> "fadd" @@ "FSub" :> "fsub" @@ "FMul" :> "fmul" @@ "FDiv" :> "fdiv"
  @@ "FRem" :> "frem" @@ "FMod" :> "frem"

FloatCompare ==
  "FOrdLessThan" :> "fcmp olt" @@ "FOrdGreaterThan" :> "fcmp ugt"
  @@ "FOrdLessThanEqual" :> "fcmp ole" @@ "FOrdGreaterThanEqual" :> "fcmp ogt"

BitOperation ==
  "ShiftRightLogical" :> "lshr" @@ "ShiftRightArithmetic" :> "ashr" @@ "ShiftLeftLogical" :> "shl"
  @@ "BitwiseOr" :> "or" @@ "BitwiseXor" :> "xor" @@ "BitwiseAnd" :> "and"

IntegerOps == IntegerCompare @@ IntegerArithmetic @@ BitOperation
FloatOps == FloatArithmetic @@ FloatCompare
LogicalOps == {"LogicalOr", "LogicalAnd"}
SimpleOps == DOMAIN IntegerOps \cup DOMAIN FloatOps \cup LogicalOps

UnimplementedOps ==
  {"LogicalEqual", "LogicalNotEqual", "FOrdEqual", "FUnordEqual", "FOrdNotEqual", "FUnordNotEqual",
   "FUnordLessThan", "FUnordGreaterThan", "FUnordLessThanEqual", "FUnordGreaterThanEqual", "Not"}

SimpleScalar(op, a, b) ==
  CASE Undef \in {a} \/ Undef \in {b} -> Undef
    [] op = "LogicalOr" -> a \/ b
    [] op = "LogicalAnd" -> a /\ b
    [] op \in DOMAIN FloatOps -> LlvmFloat(FloatOps[op], a, b)
    [] OTHER -> LlvmInteger(IntegerOps[op], a, b)

SIMPLE_LLVM_OP(op, a, b) == [i \in DOMAIN a |-> SimpleScalar(op, a[i], b[i])]

-----------------------------------------------------------------------------
FAdd(a, b) == SimpleScalar("FAdd", a, b)
FMul(a, b) == SimpleScalar("FMul", a, b)
Splat(s, n) == [i \in 1 .. n |-> s]

(* OpSelect, by one condition or one for each component. *)
Select(cond, a, b) ==
  [i \in DOMAIN a |-> LET c == cond[IF Len(cond) = 1 THEN 1 ELSE i] IN
     IF c = Undef THEN Undef ELSE IF c THEN a[i] ELSE b[i]]

LogicalNot(a) == [i \in DOMAIN a |-> IF a[i] = Undef THEN Undef ELSE ~a[i]]
FNegate(a) == SIMPLE_LLVM_OP("FSub", Splat(0, Len(a)), a)
ConvertUToF(a) == a
ConvertSToF(a) == [i \in DOMAIN a |-> IF a[i] = Undef THEN Undef ELSE Signed(a[i])]

VectorTimesScalar(v, s) == SIMPLE_LLVM_OP("FMul", v, Splat(s[1], Len(v)))

(* Indices past the first vector name components of the second one.        *)
VectorShuffle(a, b, indices) == [i \in DOMAIN indices |-> (a \o b)[indices[i] + 1]]

llvm_dot(a, b) == FoldLeft(FAdd, 0, SIMPLE_LLVM_OP("FMul", a, b))

spv_dot(a, b) == <<FoldLeft(FAdd, FMul(a[1], b[1]), Tail(SIMPLE_LLVM_OP("FMul", a, b)))>>

(* A square matrix of n rows; its i-th row.                                *)
Row(m, n, i) == SubSeq(m, (i - 1) * n + 1, i * n)

llvm_matrix_transpose(m, n) ==
  FlattenSeq([i \in 1 .. n |-> [j \in 1 .. n |-> Row(m, n, j)[i]]])

(* Each scaled row is inserted as the first one. *)
MatrixTimesScalar(m, s, n) ==
  VectorTimesScalar(Row(m, n, n), s) \o Splat(Undef, n * (n - 1))

VectorTimesMatrix(v, m, n) ==
  [i \in 1 .. n |-> llvm_dot(v, Row(llvm_matrix_transpose(m, n), n, i))]

MatrixTimesVector(m, v, n) == [i \in 1 .. n |-> llvm_dot(v, Row(m, n, i))]

(* Variant: the second matrix is taken by rows as well.                     *)
MatrixTimesMatrixByRows(m, l, n) ==
  FlattenSeq([i \in 1 .. n |-> [j \in 1 .. n |-> llvm_dot(Row(m, n, i), Row(l, n, j))]])

MatrixTimesMatrix(m, l, n) ==
  FlattenSeq([i \in 1 .. n |-> [j \in 1 .. n |->
    llvm_dot(Row(m, n, i), Row(llvm_matrix_transpose(l, n), n, j))]])

-----------------------------------------------------------------------------
(* The functions of spv_stdlib.cpp. *)
Root(x) ==
  IF x \in {Undef, NaN} THEN x
  ELSE IF \E r \in 0 .. x : r * r = x THEN CHOOSE r \in 0 .. x : r * r = x ELSE NaN

spv_sqrt(a) == [i \in DOMAIN a |-> Root(a[i])]
spv_length(a) == spv_sqrt(spv_dot(a, a))
normalize(a) == SIMPLE_LLVM_OP("FDiv", a, Splat(spv_length(a)[1], Len(a)))
Absolute(x) == IF x \in {Undef, NaN} THEN x ELSE Magnitude(x)

(* Of four components the third is taken twice. *)
spv_fabs(a) == [i \in DOMAIN a |-> Absolute(a[IF i = 4 THEN 3 ELSE i])]

spv_cross(a, b) ==
  LET Minor(i, j) == SimpleScalar("FSub", FMul(a[i], b[j]), FMul(a[j], b[i]))
  IN <<Minor(2, 3), Minor(3, 1), Minor(1, 2)>>

spv_reflect(I, N) ==
  SIMPLE_LLVM_OP("FSub", I, VectorTimesScalar(N, <<FMul(2, spv_dot(I, N)[1])>>))

spv_pow(a, b) == <<IF {a[1], b[1]} \cap {Undef, NaN} # {} \/ b[1] < 0 THEN NaN ELSE a[1] ^ b[1]>>

spv_clamp_f32(x, lo, hi) ==
  IF Undef \in {x[1], lo[1], hi[1]} THEN <<Undef>>
  ELSE IF SimpleScalar("FOrdLessThan", hi[1], x[1]) THEN hi
  ELSE IF SimpleScalar("FOrdLessThan", x[1], lo[1]) THEN lo ELSE x

(* FSign, made of a comparison and a select; the scalar one has -1 twice.  *)
FSign(a) ==
  [i \in DOMAIN a |->
     CASE a[i] = Undef -> Undef
       [] Len(a) = 1 \/ SimpleScalar("FOrdLessThan", a[i], 0) -> -1
       [] OTHER -> 1]

Smaller(less, a, b) == Select(SIMPLE_LLVM_OP(less, a, b), a, b)

ExtInst(inst, a) ==
  CASE inst = "Normalize" -> normalize(a[1])
    [] inst = "Sqrt" -> spv_sqrt(a[1])
    [] inst = "Length" -> spv_length(a[1])
    [] inst = "Cross" -> spv_cross(a[1], a[2])
    [] inst = "UMin" -> Smaller("ULessThan", a[1], a[2])
    [] inst = "FMin" -> Smaller("FOrdLessThan", a[1], a[2])
    [] inst = "UMax" -> Smaller("UGreaterThan", a[1], a[2])
    [] inst = "FMax" -> Select(SIMPLE_LLVM_OP("FOrdLessThan", a[2], a[1]), a[1], a[2])
    [] inst = "FSign" -> FSign(a[1])
    [] inst = "Reflect" -> spv_reflect(a[1], a[2])
    [] inst = "Pow" -> spv_pow(a[1], a[2])
    [] inst = "FClamp" -> spv_clamp_f32(a[1], a[2], a[3])
    [] inst = "FAbs" -> spv_fabs(a[1])

(* What an instruction computes of its operands, for those of n columns.   *)
Compute(op, a, lits, n) ==
  CASE op \in SimpleOps -> SIMPLE_LLVM_OP(op, a[1], a[2])
    [] op = "Select" -> Select(a[1], a[2], a[3])
    [] op = "LogicalNot" -> LogicalNot(a[1])
    [] op = "FNegate" -> FNegate(a[1])
    [] op = "ConvertUToF" -> ConvertUToF(a[1])
    [] op = "ConvertSToF" -> ConvertSToF(a[1])
    [] op = "Bitcast" -> a[1]
    [] op = "CompositeConstruct" -> FlattenSeq(a)
    [] op = "VectorShuffle" -> VectorShuffle(a[1], a[2], lits)
    [] op = "VectorTimesScalar" -> VectorTimesScalar(a[1], a[2])
    [] op = "Dot" -> spv_dot(a[1], a[2])
    [] op = "MatrixTimesScalar" -> MatrixTimesScalar(a[1], a[2], n)
    [] op = "VectorTimesMatrix" -> VectorTimesMatrix(a[1], a[2], n)
    [] op = "MatrixTimesVector" -> MatrixTimesVector(a[1], a[2], n)
    [] op = "MatrixTimesMatrix" -> MatrixTimesMatrix(a[1], a[2], n)
    [] op = "ExtInst" -> ExtInst(lits[1], a)
=============================================================================
