------------------------------- MODULE MCShader -----------------------------
(***************************************************************************)
(* Shader for a subgroup of four lanes: shaders of the three stages with   *)
(* what those of the tests use, and modules the compiler refuses, one for  *)
(* each pass.                                                              *)
(***************************************************************************)
EXTENDS Shader

D(op, id, args) == [op |-> op, type |-> "", id |-> id, args |-> args]
Var(id, type, storage) == [op |-> "Variable", type |-> type, id |-> id, args |-> <<storage>>]
Con(id, type, value) == [op |-> "Constant", type |-> type, id |-> id, args |-> <<value>>]
B(op, type, id, args) == [op |-> op, type |-> type, id |-> id, args |-> args, lits |-> <<>>]
BL(op, type, id, args, lits) == [op |-> op, type |-> type, id |-> id, args |-> args, lits |-> lits]
Fn(id, result, type) == [op |-> "Function", type |-> result, id |-> id, args |-> <<type>>]
Param(id, type) == [op |-> "FunctionParameter", type |-> type, id |-> id, args |-> <<>>]
End == D("FunctionEnd", "", <<>>)
Label == B("Label", "", "", <<>>)
Return == B("Return", "", "", <<>>)
Store(ptr, value) == B("Store", "", "", <<ptr, value>>)
Main(locals, body) == <<Fn("main", "void", "proc"), Label>> \o locals \o body \o <<Return, End>>

Types ==
  <<D("TypeVoid", "void", <<>>), D("TypeBool", "bool", <<>>), D("TypeFloat", "float", <<32>>),
    D("TypeInt", "int", <<32>>), D("TypeVector", "vec2", <<"float", 2>>), D("TypeVector", "vec3", <<"float", 3>>),
    D("TypeVector", "vec4", <<"float", 4>>), D("TypeVector", "uvec3", <<"int", 3>>),
    D("TypeMatrix", "mat4", <<"vec4", 4>>), D("TypeFunction", "proc", <<"void">>),
    Con("c0", "int", 0), Con("c1", "int", 1), Con("c2", "int", 2), Con("c3", "int", 3),
    Con("f0", "float", 0), Con("f1", "float", 1), Con("f2", "float", 2)>>

Pointers(storage) ==
  <<D("TypePointer", storage \o "*float", <<storage, "float">>), D("TypePointer", storage \o "*int", <<storage, "int">>),
    D("TypePointer", storage \o "*vec2", <<storage, "vec2">>), D("TypePointer", storage \o "*vec3", <<storage, "vec3">>),
    D("TypePointer", storage \o "*vec4", <<storage, "vec4">>), D("TypePointer", storage \o "*mat4", <<storage, "mat4">>)>>

OffsetOf(type, i, offset) == D("MemberDecorate", type, <<i, "Offset", offset>>)
Matrix(type, i, major) == <<D("MemberDecorate", type, <<i, major, 0>>), D("MemberDecorate", type, <<i, "MatrixStride", 16>>)>>
At(var, location) == D("Decorate", var, <<"Location", location>>)
Bound(var) == <<D("Decorate", var, <<"DescriptorSet", 0>>), D("Decorate", var, <<"Binding", 0>>)>>

Accepted(code) == [known |-> TRUE, code |-> code]
EntryPoint(stage) == <<D("Capability", "", <<>>), D("EntryPoint", "main", <<stage>>), D("Name", "main", <<>>)>>

(* tests/glsl/triangle.vert: a matrix of a uniform block, a varying; and   *)
(* an array and a vector behind the matrix.                                *)
VertexShader ==
  Accepted(EntryPoint("Vertex")
    \o <<OffsetOf("Block", 0, 0)>> \o Matrix("Block", 0, "ColMajor") \o <<OffsetOf("Block", 1, 64), OffsetOf("Block", 2, 80),
         D("Decorate", "floats", <<"ArrayStride", 4>>), D("MemberDecorate", "PerVertex", <<0, "BuiltIn", 0>>),
         At("pos", 0), At("uv", 2), At("out_color", 1), At("out_uv", 0)>> \o Bound("block") \o Types
    \o <<D("TypeArray", "floats", <<"float", "c2">>), D("TypeStruct", "Block", <<"mat4", "vec4", "floats">>),
         D("TypeStruct", "PerVertex", <<"vec4">>), D("TypePointer", "*Block", <<"Uniform", "Block">>),
         D("TypePointer", "*PerVertex", <<"Output", "PerVertex">>)>>
    \o Pointers("Uniform") \o Pointers("Input") \o Pointers("Output")
    \o <<Var("block", "*Block", "Uniform"), Var("gl", "*PerVertex", "Output"), Var("pos", "Input*vec3", "Input"),
         Var("uv", "Input*vec2", "Input"), Var("out_color", "Output*vec4", "Output"), Var("out_uv", "Output*vec2", "Output")>>
    \o Main(<<>>,
       <<B("Load", "vec3", "p", <<"pos">>), BL("CompositeExtract", "float", "x", <<"p">>, <<0>>),
         BL("CompositeExtract", "float", "z", <<"p">>, <<2>>),
         B("CompositeConstruct", "vec4", "p4", <<"x", "z", "f1", "f0">>),
         B("AccessChain", "Uniform*mat4", "m_ptr", <<"block", "c0">>), B("Load", "mat4", "m", <<"m_ptr">>),
         B("MatrixTimesVector", "vec4", "mp", <<"m", "p4">>), B("MatrixTimesMatrix", "mat4", "mm", <<"m", "m">>),
         B("VectorTimesMatrix", "vec4", "pm", <<"p4", "mm">>),
         B("AccessChain", "Output*vec4", "gl_pos", <<"gl", "c0">>), Store("gl_pos", "mp"),
         B("AccessChain", "Uniform*vec4", "color_ptr", <<"block", "c1">>), B("Load", "vec4", "color", <<"color_ptr">>),
         B("AccessChain", "Uniform*float", "scale_ptr", <<"block", "c2", "c1">>), B("Load", "float", "scale", <<"scale_ptr">>),
         B("VectorTimesScalar", "vec4", "scaled", <<"color", "scale">>), Store("out_color", "scaled"),
         B("Load", "vec2", "t", <<"uv">>), Store("out_uv", "t")>>))

(* tests/glsl/triangle.frag: inputs interpolated, and a builtin one.       *)
PixelShader ==
  Accepted(EntryPoint("Fragment")
    \o <<D("ExecutionMode", "", <<>>), At("uv", 1), At("normal", 3), D("Decorate", "front", <<"BuiltIn", "FrontFacing">>),
         At("out_color", 0)>> \o Types
    \o <<D("TypePointer", "*bool", <<"Input", "bool">>)>> \o Pointers("Input") \o Pointers("Output")
    \o <<Var("normal", "Input*vec3", "Input"), Var("uv", "Input*vec2", "Input"), Var("front", "*bool", "Input"),
         Var("out_color", "Output*vec4", "Output")>>
    \o Main(<<>>,
       <<B("Load", "vec2", "t", <<"uv">>), B("Load", "vec3", "n", <<"normal">>), B("Load", "bool", "is_front", <<"front">>),
         BL("ExtInst", "vec3", "abs", <<"n">>, <<"FAbs">>), B("Dot", "float", "d", <<"n", "abs">>),
         B("LogicalNot", "bool", "back", <<"is_front">>), B("Select", "float", "s", <<"back", "d", "f1">>),
         BL("VectorShuffle", "vec4", "c", <<"t", "n">>, <<1, 0, 4, 2>>),
         B("VectorTimesScalar", "vec4", "cs", <<"c", "s">>), B("FNegate", "vec4", "neg", <<"cs">>),
         Store("out_color", "neg")>>))

ComputeOf(decorated, declared, functions) ==
  Accepted(EntryPoint("GLCompute") \o <<D("Decorate", "gid", <<"BuiltIn", "GlobalInvocationId">>)>> \o decorated
    \o Types \o Pointers("Input") \o <<D("TypePointer", "*uvec3", <<"Input", "uvec3">>), Var("gid", "*uvec3", "Input")>>
    \o declared \o functions)

Gid == <<B("Load", "uvec3", "id3", <<"gid">>), BL("CompositeExtract", "int", "id", <<"id3">>, <<0>>)>>

(* A buffer of integers: several lanes store to one element and each to    *)
(* its own; private and local variables in between.                        *)
Buffer == <<OffsetOf("Buf", 0, 0), D("Decorate", "ints", <<"ArrayStride", 4>>)>> \o Bound("buf")
BufferDecls ==
  <<D("TypeRuntimeArray", "ints", <<"int">>), D("TypeStruct", "Buf", <<"ints">>),
    D("TypePointer", "*Buf", <<"Uniform", "Buf">>)>> \o Pointers("Uniform") \o <<Var("buf", "*Buf", "Uniform")>>
Element(id, index) == B("AccessChain", "Uniform*int", id, <<"buf", "c0", index>>)

ComputeShader ==
  ComputeOf(Buffer, BufferDecls \o Pointers("Private") \o Pointers("Function")
      \o <<Var("p_float", "Private*float", "Private"), Var("p_vec3", "Private*vec3", "Private"),
           Var("p_int", "Private*int", "Private"), [op |-> "ConstantTrue", type |-> "bool", id |-> "yes", args |-> <<>>]>>,
    Main(<<Var("n", "Function*int", "Function")>>, Gid \o
     <<Element("first", "c0"), Store("first", "id"), B("Load", "int", "seen", <<"first">>),
       B("IAdd", "int", "next", <<"id", "c1">>), Store("p_int", "next"), Store("n", "next"),
       B("ConvertSToF", "float", "f", <<"id">>), Store("p_float", "f"),
       B("CompositeConstruct", "vec3", "v", <<"f", "f1", "f2">>), Store("p_vec3", "v"),
       B("Load", "int", "n1", <<"p_int">>), B("Load", "float", "f3", <<"p_float">>),
       B("AccessChain", "Private*float", "y_ptr", <<"p_vec3", "c1">>), B("Load", "float", "y", <<"y_ptr">>),
       B("FOrdLessThan", "bool", "less", <<"y", "f3">>), B("Select", "int", "which", <<"less", "n1", "c1">>),
       B("Load", "int", "n2", <<"n">>), Element("own", "n2"), Store("own", "which")>>))

(* A value and a pointer go through calls; the callee has a variable.      *)
CallShader ==
  ComputeOf(Buffer, BufferDecls \o Pointers("Function")
      \o <<D("TypeFunction", "add_t", <<"int", "int", "Function*int">>), D("TypeFunction", "put_t", <<"void", "int">>)>>,
    <<Fn("add", "int", "add_t"), Param("x", "int"), Param("px", "Function*int"), Label, Var("tmp", "Function*int", "Function"),
      B("Load", "int", "old", <<"px">>), B("IAdd", "int", "sum", <<"x", "old">>), Store("tmp", "sum"), Store("px", "sum"),
      B("Load", "int", "res", <<"tmp">>), B("ReturnValue", "", "", <<"res">>), End,
      Fn("put", "void", "put_t"), Param("w", "int"), Label, Element("slot", "w"), Store("slot", "w"), Return, End>>
    \o Main(<<Var("acc", "Function*int", "Function")>>, Gid \o
     <<Store("acc", "c1"), BL("FunctionCall", "int", "r1", <<"id", "acc">>, <<"add">>),
       BL("FunctionCall", "int", "r2", <<"r1", "acc">>, <<"add">>),
       BL("FunctionCall", "void", "", <<"r1">>, <<"put">>), B("BitwiseAnd", "int", "r3", <<"r1", "r2">>),
       B("Nop", "", "", <<>>), Element("e", "c0"), Store("e", "r3")>>))

(* tests/hlsl/image1d_read_write.comp *)
ImageShader ==
  ComputeOf(Bound("img"),
    <<D("TypeImage", "image", <<"int">>), D("TypeSampler", "sampler", <<>>), D("TypeSampledImage", "sampled", <<"image">>),
      D("TypePointer", "*image", <<"UniformConstant", "image">>), Var("img", "*image", "UniformConstant")>>,
    Main(<<>>, Gid \o
     <<B("Load", "image", "i", <<"img">>), B("BitwiseXor", "int", "next", <<"id", "c1">>),
       B("ImageRead", "int", "texel", <<"i", "next">>), B("IMul", "int", "twice", <<"texel", "c2">>),
       B("ImageWrite", "", "", <<"i", "id", "twice">>), B("ImageRead", "int", "back", <<"i", "next">>),
       B("ImageWrite", "", "", <<"i", "c0", "back">>)>>))

(* Lanes that are disabled take part in an atomic operation.               *)
AtomicShader ==
  ComputeOf(Buffer, BufferDecls,
    Main(<<>>, Gid \o
     <<Element("count", "c0"), B("AtomicIAdd", "int", "ticket", <<"count", "c1">>),
       B("AtomicISub", "int", "left", <<"count", "id">>), Element("e", "c1"), B("AtomicOr", "int", "bits", <<"e", "ticket">>)>>))

(* Members behind holes, an element of a structure in an array, a matrix   *)
(* made of columns, an output of a called function: see Strays.            *)
Holes ==
  <<OffsetOf("Hollow", 0, 0), OffsetOf("Hollow", 1, 16), OffsetOf("Hollow", 2, 48), D("Decorate", "hollow", <<"DescriptorSet", 0>>),
    D("Decorate", "hollow", <<"Binding", 1>>)>>
HollowDecls ==
  <<D("TypeStruct", "Hollow", <<"float", "vec4", "float">>), D("TypePointer", "*Hollow", <<"PushConstant", "Hollow">>)>>
  \o Pointers("PushConstant") \o <<Var("hollow", "*Hollow", "PushConstant")>>

HollowShader(last) ==
  ComputeOf(Holes, HollowDecls,
    Main(<<>>,
     <<B("AccessChain", "PushConstant*float", "a", <<"hollow", "c0">>), B("Load", "float", "va", <<"a">>),
       B("AccessChain", "PushConstant*vec4", "b", <<"hollow", "c1">>), B("Load", "vec4", "vb", <<"b">>),
       B("AccessChain", "PushConstant*float", "e", <<"hollow", "c1", "c3">>), B("Load", "float", "ve", <<"e">>)>> \o last))

BehindHole == <<B("AccessChain", "PushConstant*float", "c", <<"hollow", "c2">>), B("Load", "float", "vc", <<"c">>)>>
MatrixOfColumns ==
  <<B("CompositeConstruct", "mat4", "cols", <<"vb", "vb", "vb", "vb">>), B("MatrixTimesVector", "vec4", "product", <<"cols", "vb">>)>>

(* A matrix by columns and a table of a table.                             *)
TableShader(body) ==
  ComputeOf(<<OffsetOf("Tables", 0, 0), OffsetOf("Tables", 1, 16), D("Decorate", "row", <<"ArrayStride", 4>>),
              D("Decorate", "table", <<"ArrayStride", 8>>)>> \o Matrix("Tables", 1, "ColMajor"),
    <<D("TypeArray", "row", <<"float", "c2">>), D("TypeArray", "table", <<"row", "c2">>),
      D("TypeStruct", "Tables", <<"table", "mat4">>), D("TypePointer", "*Tables", <<"PushConstant", "Tables">>)>>
    \o Pointers("PushConstant") \o <<Var("t", "*Tables", "PushConstant")>>,
    Main(<<>>, body))

TableBodies ==
  <<<<B("AccessChain", "PushConstant*float", "entry", <<"t", "c0", "c1", "c1">>), B("Load", "float", "ve", <<"entry">>)>>,
    <<B("AccessChain", "PushConstant*vec4", "column", <<"t", "c1", "c1">>), B("Load", "vec4", "vc", <<"column">>)>>,
    <<B("AccessChain", "PushConstant*mat4", "m", <<"t", "c1">>), B("Load", "mat4", "vm", <<"m">>),
      BL("CompositeExtract", "vec4", "column", <<"vm">>, <<1>>)>>,
    <<B("FOrdGreaterThanEqual", "bool", "same", <<"f1", "f1">>)>>>>

OutputInCall ==
  Accepted(EntryPoint("Fragment") \o <<At("out_color", 0)>> \o Types \o Pointers("Output")
    \o <<Var("out_color", "Output*vec4", "Output"),
         [op |-> "ConstantComposite", type |-> "vec4", id |-> "red", args |-> <<"f1", "f0", "f0", "f1">>],
         Fn("shade", "void", "proc"), Label, Store("out_color", "red"), Return, End>>
    \o Main(<<>>, <<BL("FunctionCall", "void", "", <<>>, <<"shade">>)>>))

(* A branch on a condition, which is lowered but executed elsewhere.       *)
BranchShader ==
  ComputeOf(Buffer, BufferDecls,
    Main(<<>>, Gid \o
     <<B("UGreaterThan", "bool", "more", <<"id", "c1">>), B("SelectionMerge", "", "", <<>>),
       B("BranchConditional", "", "", <<"more">>), Label, B("Branch", "", "", <<>>), Label,
       BL("Phi", "int", "phi", <<"c1", "id">>, <<1, 2>>)>>))

-----------------------------------------------------------------------------
(* Refused: by parse_meta, by the sizes, by the types, by the lowering, by *)
(* the functions the emitted code calls.                                   *)
Wrong ==
  <<<<D("Line", "", <<>>)>>, <<Label>>, <<D("TypeFloat", "quad", <<128>>)>>, <<D("TypeStruct", "Bare", <<"float">>)>>,
    <<Var("shared", "float", "Workgroup")>>, <<End>>, <<Param("p", "int")>>,
    <<Fn("f", "void", "proc"), Fn("g", "void", "proc")>>, <<D("Decorate", "x", <<"Kind", 1, 2, 3>>)>>,
    <<[op |-> "ConstantComposite", type |-> "vec2", id |-> "none", args |-> <<>>]>>,
    <<OffsetOf("In", 0, 0), OffsetOf("Out", 0, 0), D("TypeStruct", "In", <<"float">>), D("TypeStruct", "Out", <<"In">>)>>,
    Pointers("Input") \o <<Var("nowhere", "Input*vec2", "Input")>>,
    <<D("TypeVector", "vec2", <<"float", 2>>)>>,
    <<OffsetOf("Back", 0, 4), OffsetOf("Back", 1, 0), D("TypeStruct", "Back", <<"float", "float">>)>>,
    <<D("TypePointer", "*vec5", <<"Private", "proc">>), Var("priv", "*vec5", "Private")>>,
    <<D("Decorate", "vertex", <<"BuiltIn", "VertexIndex">>)>> \o Pointers("Input") \o <<Var("vertex", "Input*int", "Input")>>
      \o Main(<<>>, <<>>),
    Main(<<>>, <<B("Kill", "", "", <<>>), Label>>), Main(<<>>, <<B("BranchConditional", "", "", <<"c0">>)>>),
    Main(<<>>, <<B("GroupNonUniformElect", "bool", "first", <<"c3">>)>>),
    Main(<<>>, <<B("FOrdEqual", "bool", "equal", <<"f0", "f1">>)>>)>>

Refused ==
  <<[known |-> FALSE, code |-> <<>>]>> \o
  [i \in DOMAIN Wrong |-> Accepted(Types \o Wrong[i])]

StorageShader ==
  Accepted(EntryPoint("GLCompute") \o Buffer \o Types \o
    <<D("TypeRuntimeArray", "ints", <<"int">>), D("TypeStruct", "Buf", <<"ints">>),
      D("TypePointer", "*Buf", <<"StorageBuffer", "Buf">>), Var("buf", "*Buf", "StorageBuffer")>> \o Main(<<>>, <<>>))

Shaders ==
  <<VertexShader, PixelShader, ComputeShader, CallShader, ImageShader, AtomicShader, HollowShader(<<>>),
    HollowShader(BehindHole), HollowShader(MatrixOfColumns), OutputInCall, BranchShader, StorageShader>>
  \o [i \in DOMAIN TableBodies |-> TableShader(TableBodies[i])] \o Refused

SomeMasks == {0 .. 3, {0, 2}, {1}, {3}}

(* Barycentric coordinates of the corners, and of a pixel outside.         *)
SomeData ==
  {[buffer |-> [i \in 1 .. 24 |-> (i * i + s) % 8], texels |-> [i \in 1 .. 8 |-> (3 * i + s) % 8],
    vertices |-> [v \in 1 .. 12 |-> [loc \in 1 .. 4 |-> [c \in 1 .. 4 |-> ((v * c + 2 * loc + s) % 7) - 3]]],
    barycentrics |-> <<<<1, 0, 0>>, <<0, 1, 0>>, <<0, 0, 1>>, <<1, 1, -1>>>>,
    invocation |-> s, front |-> s = 1] : s \in {0, 1}}

-----------------------------------------------------------------------------
(* Small operands for every operation: all words, floats around zero, and  *)
(* vectors and matrices of them.                                           *)
FloatSamples == {-2, -1, 0, 1, 3, NaN}
Vectors(n) == {[i \in 1 .. n |-> ((i * i) % 4) - s] : s \in {0, 1, 3}}
Matrices(n) == {[i \in 1 .. n * n |-> ((i * i + s) % 7) - 2] : s \in {0, 3}}

Case(op, a, lits, n) == [op |-> op, a |-> a, lits |-> lits, n |-> n]
Cases ==
  {Case(op, <<<<x>>, <<y>>>>, <<>>, 1) : op \in DOMAIN IntegerOps, x \in Word, y \in Word}
  \cup {Case(op, <<<<x>>, <<y>>>>, <<>>, 1) : op \in DOMAIN FloatOps, x \in FloatSamples, y \in FloatSamples}
  \cup UNION {{Case("ExtInst", <<v, w>>, <<inst>>, 1) : inst \in {"Sqrt", "FMin", "FMax", "FSign", "FAbs"},
                 v \in Vectors(n), w \in Vectors(n)} : n \in {1, 2, 4}}
  \cup {Case("ExtInst", <<v, w>>, <<inst>>, 1) : inst \in {"Cross", "Reflect", "Length", "Normalize"},
          v \in Vectors(3), w \in Vectors(3)}
  \cup UNION {{Case("MatrixTimesMatrix", <<m, l>>, <<>>, n) : m \in Matrices(n), l \in Matrices(n)}
              \cup {Case("MatrixTimesVector", <<m, v>>, <<>>, n) : m \in Matrices(n), v \in Vectors(n)}
              \cup {Case("MatrixTimesScalar", <<m, s>>, <<>>, n) : m \in Matrices(n), s \in {<<2>>}}
              \cup {Case("VectorTimesMatrix", <<v, m>>, <<>>, n) : m \in Matrices(n), v \in Vectors(n)} : n \in {2, 3}}

(* The operands that are matrices, which the emitted code has by rows.     *)
MatrixOperands(op) ==
  CASE op = "MatrixTimesMatrix" -> {1, 2} [] op \in {"MatrixTimesVector", "MatrixTimesScalar"} -> {1}
    [] op = "VectorTimesMatrix" -> {2} [] OTHER -> {}

Emitted(c) ==
  LET rows == [i \in DOMAIN c.a |-> IF i \in MatrixOperands(c.op) THEN llvm_matrix_transpose(c.a[i], c.n) ELSE c.a[i]]
      result == Compute(c.op, rows, c.lits, c.n)
  IN IF c.op \in {"MatrixTimesMatrix", "MatrixTimesScalar"} THEN llvm_matrix_transpose(result, c.n) ELSE result

(* The LLVM instructions and library functions chosen for an operation     *)
(* compute what SPIR-V defines on exactly the operands Diverges leaves:    *)
(* SMod and FMod of operands of different signs, an ordered comparison     *)
(* that takes NaN or loses equality, FSign, the absolute value of the      *)
(* fourth component, a scaled matrix differ, and nothing else does.        *)
OperationsAgree ==
  pc = "header" =>
    \A c \in Cases : LeftOpen(c.op, c.a, c.lits)
                    \/ (Diverges(c.op, c.a, c.lits, c.n) <=> Emitted(c) # Meaning(c.op, c.a, c.lits, c.n))
=============================================================================
