--------------------------- MODULE ShaderLowering ---------------------------
(***************************************************************************)
(* The second pass of build_llvm_module_vectorized: it sets up a function, *)
(* with a pointer for each variable it may use, and then lowers one        *)
(* instruction after the other, giving each result a value in every lane.  *)
(* Here are its order and everything that makes it give up: what the code  *)
(* it emits does is in Shader. An operand that is an id is in args, one    *)
(* that is a number or a name in lits.                                     *)
(***************************************************************************)
EXTENDS ShaderTypes, LaneOperations

VARIABLES
  fn,       \* the function; they are numbered as they are declared
  typed,    \* the type of each id that has a value
  entered,  \* entry_bb is set
  open,     \* cur_bb is not NULL
  merge     \* cur_merge_id is set

lowerVars == <<fn, typed, entered, open, merge>>

LowerInit == fn = 1 /\ typed = <<>> /\ entered = FALSE /\ open = FALSE /\ merge = FALSE

Functions == SelectSeq(decl_types, LAMBDA id : KindOf(id) = "Function")
Fun == Functions[fn]
Body == instructions[Fun]
I == Body[at]

IsEntry(f) == f \in DOMAIN entries
IsPixelShader(f) == IsEntry(f) /\ entries[f] = "Fragment"
is_void_fn(f) == KindOf(Decl(f).result) = "Primitive" /\ Decl(Decl(f).result).type = "Void"

KnownBuiltins == {"GlobalInvocationId", "WorkgroupSize", "FrontFacing"}

GlobalUsable(f, var) ==
  LET type == Pointee(var)  storage == Decl(var).storage
  IN /\ ~Decl(var).init
     /\ KindOf(type) = "Vector" => Decl(type).width <= 4 /\ KindOf(Decl(type).of) = "Primitive"
     /\ storage \in {"Uniform", "UniformConstant", "StorageBuffer"} =>
          has_decoration("DescriptorSet", var) /\ has_decoration("Binding", var)
     /\ storage = "Output" => IsBuiltinStruct(type) \/ has_decoration("Location", var)
     /\ storage = "Input" =>
          IF has_decoration("BuiltIn", var) THEN find_decoration("BuiltIn", var) \in KnownBuiltins
          ELSE IsEntry(f) => (IsFloat(type) \/ KindOf(type) = "Vector") /\ has_decoration("Location", var)

Locals(f) == {var \in Variables : Decl(var).storage = "Function" /\ Decl(var).function = f}

(* A function that is no entry point has no pipeline inputs.               *)
Visible(f, id) ==
  \/ KindOf(id) \in {"Constant", "ConstantComposite"}
  \/ /\ KindOf(id) = "Variable"
     /\ CASE Decl(id).storage = "Function" -> Decl(id).function = f
          [] Decl(id).storage = "Input" -> IsEntry(f) \/ has_decoration("BuiltIn", id)
          [] OTHER -> TRUE

Parameters(f) == [p \in {Decl(f).params[i].id : i \in DOMAIN Decl(f).params} |->
                    (CHOOSE q \in Range(Decl(f).params) : q.id = p).type]

begin_function ==
  /\ pc = "lower" /\ fn <= Len(Functions)
  /\ IF /\ \A var \in Range(global_variables) : GlobalUsable(Fun, var)
        /\ \A var \in Locals(Fun) : ~Decl(var).init
       THEN /\ typed' = [id \in {id \in DOMAIN decls : Visible(Fun, id)} |-> Decl(id).type] @@ Parameters(Fun)
            /\ pc' = "body" /\ at' = 1
       ELSE pc' = "trap" /\ UNCHANGED <<at, typed>>
  /\ entered' = FALSE /\ open' = TRUE /\ merge' = FALSE
  /\ UNCHANGED <<program, tables, typeVars, fn>>

-----------------------------------------------------------------------------
(* The assertions of each instruction about its operands.                  *)
Arg(i) == typed[I.args[i]]
Present == Range(I.args) \subseteq DOMAIN typed
Width(t) == IF KindOf(t) = "Vector" THEN Decl(t).width ELSE 0
IsInt(t) == KindOf(t) = "Primitive" /\ Decl(t).type = "I32"
IsMatrix(t) == KindOf(t) \in {"Matrix", "Array"} /\ Width(Decl(t).of) > 0
Rows(t) == IF KindOf(t) = "Matrix" THEN Decl(t).width ELSE ArrayLength(Decl(t))
RowSize(t) == Width(Decl(t).of)

(* Along the indices: the type pointed to, and whether all is well so far. *)
ChainLowers ==
  LET indices == Tail(I.args)
      n == Len(indices)
      step[i \in 0 .. n] ==
        IF i = 0 THEN [ok |-> TRUE, type |-> Decl(Arg(1)).of]
        ELSE LET type == step[i - 1].type
                 constant == indices[i] \in DOMAIN decls /\ KindOf(indices[i]) = "Constant"
                 member == IF Decl(type).is_builtin THEN Decl(I.type).of
                           ELSE Decl(type).members[Decl(indices[i]).value + 1]
             IN IF ~step[i - 1].ok \/ KindOf(type) # "Struct" THEN step[i - 1]
                ELSE IF ~constant THEN [ok |-> FALSE, type |-> type]
                ELSE [ok |-> i = n => Decl(I.type).of = member, type |-> member]
  IN I.type \in DOMAIN llvm_types /\ step[n].ok

ExtractLowers ==
  LET step[i \in 0 .. Len(I.lits)] ==
        IF i = 0 THEN [ok |-> I.lits # <<>>, type |-> Arg(1)]
        ELSE LET type == step[i - 1].type
             IN IF step[i - 1].ok /\ KindOf(type) \in {"Array", "Matrix", "Vector"}
                  THEN [ok |-> TRUE, type |-> Decl(type).of] ELSE [ok |-> FALSE, type |-> type]
  IN step[Len(I.lits)].ok

ConstructLowers ==
  CASE KindOf(I.type) \in {"Vector", "Matrix"} -> Len(I.args) = Decl(I.type).width
    [] KindOf(I.type) = "Array" -> Len(I.args) = ArrayLength(Decl(I.type))
    [] OTHER -> FALSE

Same == \A i \in DOMAIN I.args : Arg(i) = Arg(1)

ExtInstLowers ==
  LET inst == I.lits[1]
  IN CASE inst \in {"Normalize", "Length"} -> Width(Arg(1)) \in 2 .. 4
       [] inst \in {"Sqrt", "FSign"} -> IsFloat(Arg(1)) \/ Width(Arg(1)) > 0
       [] inst = "FAbs" -> IsFloat(Arg(1)) \/ Width(Arg(1)) \in 2 .. 4
       [] inst \in {"Cross", "Reflect"} -> Width(Arg(1)) = 3 /\ Same
       [] inst \in {"UMin", "FMin", "UMax", "FMax"} -> Same
       [] inst \in {"Pow", "FClamp"} -> IsFloat(Arg(1)) /\ Same
       [] OTHER -> FALSE

MatrixLowers ==
  CASE I.op = "MatrixTimesScalar" -> IsMatrix(Arg(1))
    [] I.op = "VectorTimesMatrix" -> IsMatrix(Arg(2)) /\ Width(Arg(1)) = Rows(Arg(2))
    [] I.op = "MatrixTimesVector" -> IsMatrix(Arg(1)) /\ Width(Arg(2)) = RowSize(Arg(1))
    [] OTHER -> IsMatrix(Arg(1)) /\ IsMatrix(Arg(2)) /\ RowSize(Arg(1)) = Rows(Arg(2))

(* lookup_image_op: the standard library has three of the functions the    *)
(* types of the texel and of the coordinate may name.                      *)
lookup_image_op(texel, coord, read) ==
  \/ IsInt(texel) /\ Width(coord) = 0
  \/ read /\ Width(texel) = 4 /\ IsFloat(Decl(texel).of) /\ Width(coord) = 2

CallLowers ==
  LET f == I.lits[1]
  IN f \in Range(Functions) /\ Len(I.args) = Len(Decl(f).params)

(* The instructions that ask about the subgroup take elements of the mask  *)
(* register, which is the address of an integer.                           *)
SubgroupOps == {"GroupNonUniformBallot", "GroupNonUniformBallotBitCount", "GroupNonUniformElect",
                "GroupNonUniformBroadcastFirst"}
AtomicOps == {"AtomicIAdd", "AtomicISub", "AtomicOr"}
MatrixOps == {"MatrixTimesScalar", "VectorTimesMatrix", "MatrixTimesVector", "MatrixTimesMatrix"}
UnaryOps == {"LogicalNot", "FNegate", "Bitcast", "ConvertUToF"}

Lowers ==
  CASE I.op \in SimpleOps -> I.id \notin DOMAIN typed
    [] I.op \in UnimplementedOps \cup SubgroupOps -> FALSE
    [] I.op = "AccessChain" -> open /\ ChainLowers
    [] I.op \in {"Load", "Store"} -> open
    [] I.op \in {"Select", "Kill", "Nop"} \cup UnaryOps -> TRUE
    [] I.op = "Phi" -> Len(I.args) = Len(I.lits)
    [] I.op \in AtomicOps -> IsInt(I.type) /\ IsInt(Arg(2)) /\ IsInt(Decl(Arg(1)).of)
    [] I.op = "VectorTimesScalar" -> Width(Arg(1)) > 0
    [] I.op = "CompositeExtract" -> ExtractLowers
    [] I.op = "CompositeConstruct" -> ConstructLowers
    [] I.op = "VectorShuffle" -> Width(Arg(1)) > 0 /\ Width(Arg(2)) > 0
    [] I.op = "Dot" -> Width(Arg(1)) \in 2 .. 4 /\ Width(Arg(1)) = Width(Arg(2))
    [] I.op = "ExtInst" -> ExtInstLowers
    [] I.op \in MatrixOps -> MatrixLowers
    [] I.op = "ConvertSToF" -> IsFloat(I.type) /\ IsInt(Arg(1))
    [] I.op = "ImageRead" -> lookup_image_op(I.type, Arg(2), TRUE)
    [] I.op = "ImageWrite" -> lookup_image_op(Arg(3), Arg(2), FALSE)
    [] I.op = "ImageSampleImplicitLod" -> Width(Arg(2)) = 2 /\ KindOf(Arg(1)) = "SampledImage"
    [] I.op = "FunctionCall" -> CallLowers
    [] OTHER -> FALSE

Terminators == {"Branch", "BranchConditional", "Switch", "Return", "ReturnValue", "Unreachable"}
Merges == {"LoopMerge", "SelectionMerge"}

Lowering(ops) == pc = "body" /\ at <= Len(Body) /\ I.op \in ops

(* The first label comes while the block of the allocas is the current     *)
(* one; every later one must come after a terminator.                      *)
lower_label ==
  /\ Lowering({"Label"})
  /\ IF open /\ entered THEN pc' = "trap" /\ at' = at ELSE Advance
  /\ entered' = (entered \/ open)
  /\ open' = TRUE
  /\ UNCHANGED <<program, tables, typeVars, fn, typed, merge>>

lower_merge ==
  /\ Lowering(Merges)
  /\ Advance
  /\ merge' = TRUE
  /\ UNCHANGED <<program, tables, typeVars, fn, typed, entered, open>>

(* A branch on a condition needs a merge instruction before it, a switch   *)
(* may have its default only, and an entry point returns no value.         *)
lower_terminator ==
  /\ Lowering(Terminators)
  /\ IF /\ I.op = "BranchConditional" => merge
        /\ I.op = "Switch" => Len(I.lits) = 1
        /\ I.op = "ReturnValue" => ~IsEntry(Fun) /\ Present
        /\ I.op \in {"Return", "Unreachable"} => open
       THEN Advance ELSE pc' = "trap" /\ at' = at
  /\ open' = FALSE
  /\ merge' = (merge /\ I.op \in {"Branch", "Switch"})
  /\ UNCHANGED <<program, tables, typeVars, fn, typed, entered>>

lower_instruction ==
  /\ pc = "body" /\ at <= Len(Body) /\ I.op \notin Terminators \cup Merges \cup {"Label"}
  /\ IF (I.op = "Phi" \/ Present) /\ Lowers
       THEN Advance /\ typed' = IF I.id = "" THEN typed ELSE Put(typed, I.id, I.type)
       ELSE pc' = "trap" /\ UNCHANGED <<at, typed>>
  /\ UNCHANGED <<program, tables, typeVars, fn, entered, open, merge>>

end_function ==
  /\ pc = "body" /\ at > Len(Body)
  /\ pc' = "lower" /\ fn' = fn + 1 /\ at' = 1
  /\ UNCHANGED <<program, tables, typeVars, typed, entered, open, merge>>

end_of_functions ==
  /\ pc = "lower" /\ fn > Len(Functions)
  /\ pc' = "lowered"
  /\ UNCHANGED <<program, at, tables, typeVars, lowerVars>>

lower_functions ==
  \/ begin_function \/ lower_label \/ lower_merge \/ lower_terminator
  \/ lower_instruction \/ end_function \/ end_of_functions
=============================================================================
