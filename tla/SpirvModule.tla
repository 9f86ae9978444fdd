----------------------------- MODULE SpirvModule ----------------------------
(***************************************************************************)
(* The first pass of spirv_to_llvm.cpp over a SPIR-V module: parse_meta    *)
(* reads one instruction after the other into the tables of the builder.   *)
(* An instruction is a record of its opcode, its result type, its result   *)
(* id (for a decoration the id it decorates) and its other operands; "" is *)
(* an operand it does not have. Ids are strings. A failed assertion or an  *)
(* unimplemented case ends the compilation: pc is "trap".                  *)
(***************************************************************************)
EXTENDS Integers, Sequences, FiniteSets, SequencesExt, FiniteSetsExt, TLC

CONSTANT Programs   \* a sequence of modules to compile: [known, code]

VARIABLES
  pc,                 \* the phase of the compilation, or "trap"
  program,
  at,                 \* pCode: the next instruction or declaration
  decorations,
  member_decorations,
  entries,            \* the entry points, with their execution model
  decls,              \* the tables of types, constants, variables, functions
  decl_types,         \* the ids declared, in order
  global_variables,
  instructions,       \* the bodies of the functions
  cur_function

tables == <<decorations, member_decorations, entries, decls, decl_types,
            global_variables, instructions, cur_function>>
parseVars == <<pc, program, at, tables>>

ParseInit ==
  /\ pc = "header"
  /\ \E i \in DOMAIN Programs : program = Programs[i]
  /\ at = 1
  /\ decorations = <<>> /\ member_decorations = <<>>
  /\ entries = <<>> /\ decls = <<>>
  /\ decl_types = <<>> /\ global_variables = <<>>
  /\ instructions = <<>>
  /\ cur_function = ""

Instruction == program.code[at]

Op(ops) == pc = "parse" /\ at <= Len(program.code) /\ Instruction.op \in ops

Advance == pc' = pc /\ at' = at + 1

Put(table, key, value) == (key :> value) @@ table

(* CLASSIFY *)
Declare(kind, fields) ==
  /\ decls' = Put(decls, Instruction.id, [kind |-> kind] @@ fields)
  /\ decl_types' = Append(decl_types, Instruction.id)

(* The first decoration of the kind; the target need not be decorated.     *)
has_decoration(kind, target) ==
  \E i \in DOMAIN decorations : decorations[i].target = target /\ decorations[i].kind = kind

find_decoration(kind, target) ==
  decorations[Min({i \in DOMAIN decorations :
                     decorations[i].target = target /\ decorations[i].kind = kind})].param

(* Asserted of a type before its members' decorations are looked at.       *)
HasMemberDecorations(type) == \E i \in DOMAIN member_decorations : member_decorations[i].target = type

MemberDecorated(kind, type, member) ==
  {i \in DOMAIN member_decorations :
     /\ member_decorations[i].target = type
     /\ member_decorations[i].member = member
     /\ member_decorations[i].kind = kind}

has_member_decoration(kind, type, member) == MemberDecorated(kind, type, member) # {}

find_member_decoration(kind, type, member) ==
  member_decorations[Min(MemberDecorated(kind, type, member))].param

read_header ==
  /\ pc = "header"
  /\ pc' = IF program.known THEN "parse" ELSE "trap"
  /\ UNCHANGED <<program, at, tables>>

OpEntryPoint ==
  /\ Op({"EntryPoint"})
  /\ entries' = Put(entries, Instruction.id, Instruction.args[1])
  /\ Advance
  /\ UNCHANGED <<program, decorations, member_decorations, decls, decl_types,
                 global_variables, instructions, cur_function>>

(* A decoration of a value has a kind and at most two parameters, one of a *)
(* member its number, a kind and at most one.                              *)
OpDecorate ==
  /\ Op({"Decorate", "MemberDecorate"})
  /\ LET args == Instruction.args
         Param(i) == IF i \in DOMAIN args THEN args[i] ELSE 0
     IN IF Instruction.op = "Decorate"
          THEN /\ decorations' = Append(decorations, [target |-> Instruction.id, kind |-> args[1], param |-> Param(2)])
               /\ UNCHANGED member_decorations
          ELSE /\ member_decorations' = Append(member_decorations,
                    [target |-> Instruction.id, member |-> args[1], kind |-> args[2], param |-> Param(3)])
               /\ UNCHANGED decorations
  /\ IF Len(Instruction.args) <= 3 THEN Advance ELSE pc' = "trap" /\ at' = at
  /\ UNCHANGED <<program, entries, decls, decl_types, global_variables, instructions, cur_function>>

FloatTypes == 16 :> "F16" @@ 32 :> "F32" @@ 64 :> "F64"
IntegerTypes == 8 :> "I8" @@ 16 :> "I16" @@ 32 :> "I32" @@ 64 :> "I64"

(* OpTypeVoid, OpTypeBool, OpTypeFloat, OpTypeInt. *)
PrimitiveOf(inst) ==
  CASE inst.op = "TypeVoid" -> "Void"
    [] inst.op = "TypeBool" -> "I1"
    [] inst.op = "TypeFloat" /\ inst.args[1] \in DOMAIN FloatTypes -> FloatTypes[inst.args[1]]
    [] inst.op = "TypeInt" /\ inst.args[1] \in DOMAIN IntegerTypes -> IntegerTypes[inst.args[1]]
    [] OTHER -> "unimplemented"

OpTypePrimitive ==
  /\ Op({"TypeVoid", "TypeBool", "TypeFloat", "TypeInt"})
  /\ IF PrimitiveOf(Instruction) = "unimplemented"
       THEN pc' = "trap" /\ UNCHANGED <<at, decls, decl_types>>
       ELSE Declare("Primitive", [type |-> PrimitiveOf(Instruction)]) /\ Advance
  /\ UNCHANGED <<program, decorations, member_decorations, entries,
                 global_variables, instructions, cur_function>>

(* The types made of one other type. A runtime array is kept as a pointer. *)
OpTypeDerived ==
  /\ LET args == Instruction.args
     IN \/ Op({"TypeVector"}) /\ Declare("Vector", [of |-> args[1], width |-> args[2]])
        \/ Op({"TypeMatrix"}) /\ Declare("Matrix", [of |-> args[1], width |-> args[2]])
        \/ Op({"TypeArray"}) /\ Declare("Array", [of |-> args[1], width |-> args[2]])
        \/ Op({"TypePointer"}) /\ Declare("Ptr", [of |-> args[2], storage |-> args[1]])
        \/ Op({"TypeRuntimeArray"}) /\ Declare("RuntimeArray", [of |-> args[1], storage |-> ""])
        \/ Op({"TypeImage"}) /\ Declare("Image", [of |-> args[1]])
        \/ Op({"TypeSampledImage"}) /\ Declare("SampledImage", [of |-> args[1]])
        \/ Op({"TypeSampler"}) /\ Declare("Sampler", <<>>)
        \/ Op({"TypeFunction"}) /\ Declare("FunTy", [ret |-> args[1], params |-> Tail(args)])
  /\ Advance
  /\ UNCHANGED <<program, decorations, member_decorations, entries,
                 global_variables, instructions, cur_function>>

(* The members from the first builtin one on must all be builtin; the      *)
(* others have an offset.                                                  *)
OpTypeStruct ==
  /\ Op({"TypeStruct"})
  /\ LET id == Instruction.id
         members == DOMAIN Instruction.args
         Builtin(i) == has_member_decoration("BuiltIn", id, i - 1)
         Offset(i) == IF Builtin(i) THEN 0 ELSE find_member_decoration("Offset", id, i - 1)
         readable ==
           /\ HasMemberDecorations(id)
           /\ \A i \in members : Builtin(i) \/ has_member_decoration("Offset", id, i - 1)
           /\ \A i, j \in members : i < j /\ Builtin(i) => Builtin(j)
     IN IF readable
          THEN /\ Declare("Struct", [members |-> Instruction.args,
                                     offsets |-> [i \in members |-> Offset(i)],
                                     is_builtin |-> \E i \in members : Builtin(i)])
               /\ Advance
          ELSE pc' = "trap" /\ UNCHANGED <<at, decls, decl_types>>
  /\ UNCHANGED <<program, decorations, member_decorations, entries,
                 global_variables, instructions, cur_function>>

GlobalStorage == {"Uniform", "UniformConstant", "Output", "Input", "Private", "StorageBuffer", "PushConstant"}

OpVariable ==
  /\ Op({"Variable"})
  /\ LET storage == Instruction.args[1]
     IN /\ Declare("Variable", [type |-> Instruction.type, storage |-> storage,
                                init |-> Len(Instruction.args) > 1, function |-> cur_function])
        /\ global_variables' = IF storage \in GlobalStorage THEN Append(global_variables, Instruction.id)
                               ELSE global_variables
        /\ IF storage \in GlobalStorage \/ (storage = "Function" /\ cur_function # "")
             THEN Advance ELSE pc' = "trap" /\ at' = at
  /\ UNCHANGED <<program, decorations, member_decorations, entries, instructions, cur_function>>

(* OpConstant, OpConstantTrue, OpConstantFalse; what is undefined is zero. *)
OpConstant ==
  /\ Op({"Constant", "ConstantTrue", "ConstantFalse", "Undef"})
  /\ LET op == Instruction.op
         value == CASE op = "Constant" -> Instruction.args[1] [] op = "ConstantTrue" -> -1 [] OTHER -> 0
     IN Declare("Constant", [type |-> Instruction.type, value |-> value])
  /\ Advance
  /\ UNCHANGED <<program, decorations, member_decorations, entries, global_variables, instructions, cur_function>>

OpConstantComposite ==
  /\ Op({"ConstantComposite"})
  /\ Declare("ConstantComposite", [type |-> Instruction.type, components |-> Instruction.args])
  /\ IF Instruction.args # <<>> THEN Advance ELSE pc' = "trap" /\ at' = at
  /\ UNCHANGED <<program, decorations, member_decorations, entries, global_variables, instructions, cur_function>>

OpFunction ==
  /\ Op({"Function"})
  /\ IF cur_function = ""
       THEN /\ Declare("Function", [type |-> Instruction.args[1], result |-> Instruction.type, params |-> <<>>])
            /\ cur_function' = Instruction.id
            /\ instructions' = Put(instructions, Instruction.id, <<>>)
            /\ Advance
       ELSE pc' = "trap" /\ UNCHANGED <<at, decls, decl_types, cur_function, instructions>>
  /\ UNCHANGED <<program, decorations, member_decorations, entries, global_variables>>

OpFunctionParameter ==
  /\ Op({"FunctionParameter"})
  /\ IF cur_function # ""
       THEN /\ decls' = [decls EXCEPT ![cur_function].params =
                           Append(@, [id |-> Instruction.id, type |-> Instruction.type])]
            /\ Advance
       ELSE pc' = "trap" /\ UNCHANGED <<at, decls>>
  /\ UNCHANGED <<program, decorations, member_decorations, entries, decl_types,
                 global_variables, instructions, cur_function>>

OpFunctionEnd ==
  /\ Op({"FunctionEnd"})
  /\ IF cur_function # "" THEN Advance ELSE pc' = "trap" /\ at' = at
  /\ cur_function' = ""
  /\ UNCHANGED <<program, decorations, member_decorations, entries, decls, decl_types,
                 global_variables, instructions>>

Skipped == {"Name", "MemberName", "Capability", "Extension", "ExtInstImport", "MemoryModel",
            "ExecutionMode", "Source", "SourceExtension"}

skip_instruction ==
  /\ Op(Skipped)
  /\ Advance
  /\ UNCHANGED <<program, tables>>

Trapped == {"SourceContinued", "String", "Line", "TypeOpaque", "TypeEvent", "TypeForwardPointer",
            "ConstantSampler", "ConstantNull", "SpecConstantTrue", "SpecConstantFalse", "SpecConstant",
            "SpecConstantComposite", "SpecConstantOp", "ImageTexelPointer", "DecorationGroup",
            "GroupDecorate", "GroupMemberDecorate"}

trap_instruction ==
  /\ Op(Trapped)
  /\ pc' = "trap"
  /\ UNCHANGED <<program, at, tables>>

Declarations ==
  {"EntryPoint", "Decorate", "MemberDecorate", "TypeVoid", "TypeBool", "TypeFloat", "TypeInt",
   "TypeVector", "TypeMatrix", "TypeArray", "TypePointer", "TypeRuntimeArray", "TypeImage",
   "TypeSampledImage", "TypeSampler", "TypeFunction", "TypeStruct", "Variable", "Constant",
   "ConstantTrue", "ConstantFalse", "Undef", "ConstantComposite", "Function", "FunctionParameter",
   "FunctionEnd"} \cup Skipped \cup Trapped

(* Everything else belongs to the function being read.                     *)
body_instruction ==
  /\ pc = "parse" /\ at <= Len(program.code) /\ Instruction.op \notin Declarations
  /\ IF cur_function # ""
       THEN instructions' = [instructions EXCEPT ![cur_function] = Append(@, Instruction)] /\ Advance
       ELSE pc' = "trap" /\ UNCHANGED <<at, instructions>>
  /\ UNCHANGED <<program, decorations, member_decorations, entries, decls, decl_types,
                 global_variables, cur_function>>

end_of_code ==
  /\ pc = "parse" /\ at > Len(program.code)
  /\ pc' = "sizes" /\ at' = 1
  /\ UNCHANGED <<program, tables>>

parse_meta ==
  \/ read_header \/ OpEntryPoint \/ OpDecorate \/ OpTypePrimitive \/ OpTypeDerived
  \/ OpTypeStruct \/ OpVariable \/ OpConstant \/ OpConstantComposite \/ OpFunction
  \/ OpFunctionParameter \/ OpFunctionEnd \/ skip_instruction \/ trap_instruction
  \/ body_instruction \/ end_of_code

Decl(id) == decls[id]
KindOf(id) == decls[id].kind
Variables == {id \in DOMAIN decls : decls[id].kind = "Variable"}
Pointee(var) == decls[decls[var].type].of
=============================================================================
