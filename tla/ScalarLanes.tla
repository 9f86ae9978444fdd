----------------------------- MODULE ScalarLanes ----------------------------
(***************************************************************************)
(* What a compiled shader should do: every enabled lane is a SPIR-V        *)
(* invocation of its own, and each instruction is executed by one of them  *)
(* after the other. Values are those of SpirvSemantics. A reference is     *)
(* logical: a variable, the invocation it belongs to and the indices from  *)
(* it; only in a uniform block has a scalar a byte of its own, the one the *)
(* decorations of the module give it. Nothing here looks at LLVM types.    *)
(* Functions of one block are executed: the lanes a block is executed for  *)
(* are MaskMachine's subject.                                              *)
(***************************************************************************)
EXTENDS ShaderLowering, SpirvSemantics

CONSTANT SubgroupSize

Lanes == 0 .. SubgroupSize - 1

VARIABLES
  mask,      \* the enabled lanes
  frames,    \* the functions being executed: [function, at, result]
  ref_vals,  \* the results of each lane
  ref_mem    \* the scalars of the variables

scalarVars == <<mask, frames, ref_vals, ref_mem>>

ScalarInit == mask = {} /\ frames = <<>> /\ ref_vals = <<>> /\ ref_mem = <<>>

-----------------------------------------------------------------------------
(* The code: types and constants. *)
Code(f) == instructions[f]
Frame == Last(frames)
Cur == Code(Frame.function)[Frame.at]

TypeOf(id) ==
  LET f == Frame.function
  IN CASE id \in DOMAIN decls -> Decl(id).type
       [] id \in DOMAIN Parameters(f) -> Parameters(f)[id]
       [] OTHER -> (CHOOSE inst \in Range(Code(f)) : inst.id = id).type

TypeOfArg(i) == TypeOf(Cur.args[i])
PointeeOfArg(i) == Decl(TypeOfArg(i)).of
IsPointer(type) == KindOf(type) = "Ptr"

PartCount(type) == IF Decl(type).kind \in {"Vector", "Matrix"} THEN Decl(type).width ELSE ArrayLength(Decl(type))
Parts(type) ==
  CASE KindOf(type) = "Struct" -> Decl(type).members
    [] KindOf(type) \in {"Vector", "Matrix", "Array"} -> [i \in 1 .. PartCount(type) |-> Decl(type).of]
    [] OTHER -> <<>>

(* The indices of the scalars of a type, in order; a type without parts is *)
(* one scalar.                                                             *)
RECURSIVE Leaves(_)
Leaves(type) ==
  IF Parts(type) = <<>> THEN << <<>> >>
  ELSE FlattenSeq([i \in DOMAIN Parts(type) |->
         LET leaves == Leaves(Parts(type)[i]) IN [j \in DOMAIN leaves |-> <<i - 1>> \o leaves[j]]])

Scalars(type) == Len(Leaves(type))

RECURSIVE ConstantValue(_)
ConstantValue(id) ==
  IF KindOf(id) = "ConstantComposite"
    THEN FlattenSeq([i \in DOMAIN Decl(id).components |-> ConstantValue(Decl(id).components[i])])
    ELSE LET type == Decl(Decl(id).type).type  value == Decl(id).value
         IN CASE type = "I1" -> <<value # 0>> [] type = "F32" -> <<value>> [] OTHER -> <<ToWord(value)>>

(* CompositeExtract: the part the literals name. *)
RECURSIVE Part(_, _, _)
Part(value, type, path) ==
  IF path = <<>> THEN value
  ELSE LET parts == Parts(type)
           before == FoldLeft(LAMBDA n, t : n + Scalars(t), 0, SubSeq(parts, 1, path[1]))
           part == parts[path[1] + 1]
       IN Part(SubSeq(value, before + 1, before + Scalars(part)), part, Tail(path))

(* The number of columns an instruction on matrices is about.              *)
Columns(inst) ==
  CASE inst.op \in {"MatrixTimesScalar", "MatrixTimesVector", "MatrixTimesMatrix"} -> PartCount(TypeOf(inst.args[1]))
    [] inst.op = "VectorTimesMatrix" -> PartCount(TypeOf(inst.args[2]))
    [] OTHER -> 1

ValueOps == SimpleOps \cup MatrixOps
  \cup {"Select", "LogicalNot", "FNegate", "ConvertUToF", "ConvertSToF", "CompositeConstruct",
        "VectorShuffle", "VectorTimesScalar", "Dot", "ExtInst"}

(* Memory is a function of cells. *)
Read(m, cells) == [i \in DOMAIN cells |-> IF cells[i] \in DOMAIN m THEN m[cells[i]] ELSE Undef]

Write(m, cells, value) ==
  [c \in Range(cells) |-> value[CHOOSE i \in DOMAIN cells : cells[i] = c]] @@ m

-----------------------------------------------------------------------------
(* References. *)
SharedStorage == {"Uniform", "UniformConstant", "PushConstant"}
Explicit(var) == Decl(var).storage \in {"Uniform", "PushConstant"}

Instance(var, k) == <<var, IF Decl(var).storage \in SharedStorage THEN 0 ELSE k>>

(* MajorOf: how a member holds its matrices. *)
NoMajor == [stride |-> 0, rows |-> FALSE]
MajorOf(type, i) ==
  IF has_member_decoration("MatrixStride", type, i)
    THEN [stride |-> find_member_decoration("MatrixStride", type, i),
          rows |-> has_member_decoration("RowMajor", type, i)]
    ELSE NoMajor

ArrayStride(type) == IF has_decoration("ArrayStride", type) THEN find_decoration("ArrayStride", type) ELSE 0

(* The byte the decorations give the scalar at the end of a path.          *)
RECURSIVE DeclaredByte(_, _, _)
DeclaredByte(type, path, major) ==
  IF path = <<>> THEN 0
  ELSE LET i == path[1]  of == Decl(type)
       IN CASE of.kind = "Struct" -> of.offsets[i + 1] + DeclaredByte(of.members[i + 1], Tail(path), MajorOf(type, i))
            [] of.kind = "Matrix" -> IF major.rows THEN path[2] * major.stride + 4 * i ELSE i * major.stride + 4 * path[2]
            [] of.kind = "Vector" -> 4 * i
            [] OTHER -> i * ArrayStride(type) + DeclaredByte(of.of, Tail(path), major)

RefCell(ref, leaf) ==
  LET var == ref.inst[1]  path == ref.path \o leaf
  IN <<ref.inst, IF Explicit(var) THEN <<DeclaredByte(Pointee(var), path, NoMajor)>> ELSE path>>

RefCells(ref, type) == [i \in DOMAIN Leaves(type) |-> RefCell(ref, Leaves(type)[i])]

RefValue(k, id) ==
  CASE id \in DOMAIN decls /\ KindOf(id) = "Variable" -> <<[inst |-> Instance(id, k), path |-> <<>>]>>
    [] id \in DOMAIN decls -> ConstantValue(id)
    [] OTHER -> ref_vals[k][id]

RefArg(k, i) == RefValue(k, Cur.args[i])

(* What the current instruction gives lane k and, of the enabled lanes in  *)
(* turn, what it does to memory.                                           *)
AtomicMeaning(op, a, b) ==
  CASE op = "AtomicIAdd" -> ToWord(a + b)
    [] op = "AtomicISub" -> ToWord(a - b)
    [] op = "AtomicOr" -> IntegerMeaning("BitwiseOr", a, b)

TexelCell(image, coord) == <<<<image.inst[1], 1>>, <<coord[1]>>>>

RefResult(k, m) ==
  LET n == Len(Cur.args)
  IN CASE Cur.op \in ValueOps -> Meaning(Cur.op, [i \in 1 .. n |-> RefArg(k, i)], Cur.lits, Columns(Cur))
       [] Cur.op = "CompositeExtract" -> Part(RefArg(k, 1), TypeOfArg(1), Cur.lits)
       [] Cur.op = "AccessChain" ->
            <<[RefArg(k, 1)[1] EXCEPT !.path = @ \o [i \in 1 .. n - 1 |-> RefArg(k, i + 1)[1]]]>>
       [] Cur.op = "Load" /\ KindOf(Cur.type) = "Image" -> RefArg(k, 1)
       [] Cur.op \in {"Load"} \cup AtomicOps -> Read(m, RefCells(RefArg(k, 1)[1], Cur.type))
       [] Cur.op = "ImageRead" -> Read(m, <<TexelCell(RefArg(k, 1)[1], RefArg(k, 2))>>)
       [] OTHER -> <<>>

RefEffect(k, m) ==
  CASE Cur.op = "Store" -> Write(m, RefCells(RefArg(k, 1)[1], TypeOfArg(2)), RefArg(k, 2))
    [] Cur.op \in AtomicOps ->
         LET cells == RefCells(RefArg(k, 1)[1], Cur.type)
         IN Write(m, cells, <<AtomicMeaning(Cur.op, Read(m, cells)[1], RefArg(k, 2)[1])>>)
    [] Cur.op = "ImageWrite" -> Write(m, <<TexelCell(RefArg(k, 1)[1], RefArg(k, 2))>>, RefArg(k, 3))
    [] OTHER -> m

(* The lanes of a set, in order. *)
InOrder(lanes) == SetToSortSeq(lanes, <)

RefMemoryBefore(k) == FoldLeft(LAMBDA m, j : RefEffect(j, m), ref_mem, InOrder({j \in mask : j < k}))

(* One instruction of every enabled lane. *)
ScalarStep ==
  /\ ref_mem' = FoldLeft(LAMBDA m, k : RefEffect(k, m), ref_mem, InOrder(mask))
  /\ ref_vals' = [k \in Lanes |->
                    IF k \in mask /\ Cur.id # "" THEN Put(ref_vals[k], Cur.id, RefResult(k, RefMemoryBefore(k)))
                    ELSE ref_vals[k]]
=============================================================================
