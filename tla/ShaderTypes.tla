----------------------------- MODULE ShaderTypes ----------------------------
(***************************************************************************)
(* Where the data of a shader lies: the sizes parse_meta counts for the    *)
(* types, the slots it gives the inputs, the outputs and the private       *)
(* variables of a lane, and then the LLVM types build_llvm_module_         *)
(* vectorized makes, with the places LLVM gives their parts. The two are   *)
(* computed apart. Sizes and offsets are in bytes.                         *)
(***************************************************************************)
EXTENDS SpirvModule, ShaderInterface

VARIABLES
  type_sizes,       \* counted by parse_meta
  private_offsets,
  private_storage_size,
  llvm_types        \* the LLVM type of a type id: see LlvmType

typeVars == <<type_sizes, private_offsets, private_storage_size, llvm_types>>

TypesInit ==
  /\ type_sizes = <<>>
  /\ private_offsets = <<>> /\ private_storage_size = 0
  /\ llvm_types = <<>>

CurrentId == decl_types[at]
Current == decls[CurrentId]

PrimitiveSize ==
  "I1" :> 1 @@ "I8" :> 1 @@ "I16" :> 2 @@ "I32" :> 4 @@ "F32" :> 4 @@ "I64" :> 8 @@ "F64" :> 8

(* get_size looks into these only; the rest of the types have no size as a *)
(* member. The type of a member is declared before it, and sized.          *)
Sized == {"Primitive", "Array", "Matrix", "RuntimeArray", "Vector"}

HasSize(id) == id \in DOMAIN type_sizes /\ KindOf(id) \in Sized

ArrayLength(type) ==
  IF type.width \in DOMAIN decls /\ KindOf(type.width) = "Constant" THEN Decl(type.width).value ELSE 0

(* get_size, for the kinds it knows; 0 where it asserts.                   *)
get_size(type) ==
  CASE type.kind = "Primitive" -> IF type.type \in DOMAIN PrimitiveSize THEN PrimitiveSize[type.type] ELSE 0
    [] type.kind = "RuntimeArray" -> 8
    [] type.kind = "Array" -> IF HasSize(type.of) THEN type_sizes[type.of] * ArrayLength(type) ELSE 0
    [] OTHER -> IF HasSize(type.of) THEN type_sizes[type.of] * type.width ELSE 0

(* A structure ends with its last member.                                  *)
StructSize(type) ==
  LET n == Len(type.members)
  IN type.offsets[n] + type_sizes[type.members[n]]

size_declaration ==
  /\ pc = "sizes" /\ at <= Len(decl_types)
  /\ LET kind == Current.kind
         size == CASE kind = "FunTy" -> 0
                   [] kind \in {"Ptr", "RuntimeArray"} -> 8
                   [] kind \in {"Image", "Sampler", "SampledImage"} -> 4
                   [] kind = "Struct" -> StructSize(Current)
                   [] OTHER -> get_size(Current)
         sizeable == CASE kind = "Struct" -> Current.members # <<>> /\ HasSize(Last(Current.members))
                       [] kind \in Sized -> get_size(Current) # 0 \/ (kind = "Primitive" /\ Current.type = "Void")
                       [] OTHER -> TRUE
     IN CASE kind \in {"Function", "Constant", "Variable", "ConstantComposite"} ->
               Advance /\ UNCHANGED type_sizes
          [] sizeable -> type_sizes' = Put(type_sizes, CurrentId, size) /\ Advance
          [] OTHER -> pc' = "trap" /\ UNCHANGED <<at, type_sizes>>
  /\ UNCHANGED <<program, tables, private_offsets, private_storage_size, llvm_types>>

IsBuiltinStruct(id) == KindOf(id) = "Struct" /\ Decl(id).is_builtin

(* get_format: only floats and vectors of two to four of them.             *)
IsFloat(id) == KindOf(id) = "Primitive" /\ Decl(id).type = "F32"

HasFormat(id) == IsFloat(id) \/ (KindOf(id) = "Vector" /\ IsFloat(Decl(id).of) /\ Decl(id).width \in 2 .. 4)

FormatOf(id) ==
  IF KindOf(id) = "Primitive" THEN "f1"
  ELSE CASE Decl(id).width = 2 -> "f2" [] Decl(id).width = 3 -> "f3" [] OTHER -> "f4"

(* The variables of a storage class that have a location, in order.        *)
Located(storage) ==
  SelectSeq(decl_types, LAMBDA id :
    /\ KindOf(id) = "Variable" /\ Decl(id).storage = storage
    /\ ~has_decoration("BuiltIn", id) /\ ~IsBuiltinStruct(Pointee(id)))

InterfaceOf(storage) ==
  LET ids == Located(storage)
  IN [i \in DOMAIN ids |-> [location |-> find_decoration("Location", ids[i]), format |-> FormatOf(Pointee(ids[i]))]]

interface_readable ==
  \A storage \in {"Input", "Output"} : \A id \in Range(Located(storage)) :
    has_decoration("Location", id) /\ HasFormat(Pointee(id))

input_offset(location) == 4 * Offset(InterfaceOf("Input"), location)
input_storage_size == 4 * Stride(InterfaceOf("Input"))
output_offset(location) == 4 * Offset(InterfaceOf("Output"), location)
output_storage_size == 4 * Stride(InterfaceOf("Output"))

(* Each lane has the private variables one behind the other.               *)
Privates == SelectSeq(global_variables, LAMBDA id : Decl(id).storage = "Private")

(* Variant: the size of the pointer for that of what it points to.          *)
PrivateBelowOfPointers ==
  LET below[i \in 0 .. Len(Privates)] ==
        IF i = 0 THEN 0 ELSE below[i - 1] + type_sizes[Decl(Privates[i]).type]
  IN below

PrivateBelow ==
  LET below[i \in 0 .. Len(Privates)] ==
        IF i = 0 THEN 0 ELSE below[i - 1] + type_sizes[Pointee(Privates[i])]
  IN below

lay_out_lanes ==
  /\ pc = "sizes" /\ at > Len(decl_types)
  /\ IF /\ interface_readable
        /\ \A id \in Range(Privates) :
             KindOf(Pointee(id)) \in {"Array", "Matrix", "Struct", "Vector", "Primitive"}
       THEN /\ private_offsets' =
                 [id \in Range(Privates) |->
                    PrivateBelow[(CHOOSE i \in DOMAIN Privates : Privates[i] = id) - 1]]
            /\ private_storage_size' = PrivateBelow[Len(Privates)]
            /\ pc' = "types" /\ at' = 1
       ELSE pc' = "trap" /\ UNCHANGED <<at, private_offsets, private_storage_size>>
  /\ UNCHANGED <<program, tables, type_sizes, llvm_types>>

-----------------------------------------------------------------------------
(* What LLVM makes of a type: the bytes a value of it takes in memory and  *)
(* the offsets of its scalars, in order. A structure also has the sizes of *)
(* its elements, the element each member became and its offset.            *)
LlvmType(size, cells) == [size |-> size, cells |-> cells]

Shifted(cells, by) == [i \in DOMAIN cells |-> cells[i] + by]

Repeated(type, n) == FlattenSeq([i \in 1 .. n |-> Shifted(type.cells, (i - 1) * type.size)])

(* Variant: the components are counted from one.                            *)
LlvmVectorShifted(type, n) == LlvmType(n * type.size, [i \in 1 .. n |-> i * type.size])

(* A vector takes a power of two.                                          *)
LlvmVector(type, n) ==
  LlvmType(IF n <= 1 THEN type.size ELSE IF n = 2 THEN 2 * type.size ELSE 4 * type.size,
           [i \in 1 .. n |-> (i - 1) * type.size])

LlvmArray(type, n) == LlvmType(n * type.size, Repeated(type, n))

(* The running offset counts the members so far, not the bytes pushed      *)
(* before them, and the next difference is taken from it.                  *)
PaddingBefore(type) ==
  LET counted == [i \in DOMAIN type.members |->
                    FoldLeft(LAMBDA n, m : n + type_sizes[m], 0, SubSeq(type.members, 1, i - 1))]
  IN [i \in DOMAIN type.members |-> type.offsets[i] - counted[i]]

(* The size of each element; a member is the last element of its group.    *)
StructElements(type) ==
  FlattenSeq([i \in DOMAIN type.members |->
    (IF PaddingBefore(type)[i] # 0 THEN <<PaddingBefore(type)[i]>> ELSE <<>>)
      \o <<llvm_types[type.members[i]].size>>])

(* Variant: the padding is not counted.                                     *)
member_reloc_unpadded(type) == [i \in DOMAIN type.members |-> i]

(* member_reloc: the element of each member.                               *)
member_reloc(type) ==
  [i \in DOMAIN type.members |-> i + Cardinality({j \in 1 .. i : PaddingBefore(type)[j] # 0})]

ElementOffset(elements, e) == FoldLeft(+, 0, SubSeq(elements, 1, e - 1))

MemberOffset(type, i) == ElementOffset(StructElements(type), member_reloc(type)[i])

LlvmStruct(type) ==
  LlvmType(FoldLeft(+, 0, StructElements(type)),
           FlattenSeq([i \in DOMAIN type.members |->
                         Shifted(llvm_types[type.members[i]].cells, MemberOffset(type, i))]))

(* A structure of builtins is one vector of four floats, for the position. *)
BuiltinStruct == LlvmType(16, <<0, 4, 8, 12>>)

Mappable(id) == LET type == Decl(id) IN
  CASE type.kind = "FunTy" -> type.ret \in DOMAIN llvm_types /\ Range(type.params) \subseteq DOMAIN llvm_types
    [] type.kind = "Function" -> type.type \in DOMAIN llvm_types
    [] type.kind = "Constant" ->
         /\ type.type \in DOMAIN llvm_types
         /\ KindOf(type.type) = "Primitive" /\ Decl(type.type).type \in {"F32", "I32", "I1"}
    [] type.kind = "ConstantComposite" -> KindOf(type.type) \in {"Vector", "Array", "Matrix"}
    [] type.kind = "Array" ->
         /\ type.of \in DOMAIN llvm_types /\ KindOf(type.width) = "Constant"
         /\ ~IsFloat(Decl(type.width).type)
    [] type.kind \in {"Ptr", "RuntimeArray", "Matrix", "Vector"} -> type.of \in DOMAIN llvm_types
    [] type.kind = "Struct" /\ ~type.is_builtin ->
         /\ Range(type.members) \subseteq DOMAIN llvm_types
         /\ \A i \in DOMAIN type.members :
              /\ PaddingBefore(type)[i] >= 0
              /\ type_sizes[type.members[i]] # 0
              /\ has_member_decoration("ColMajor", id, i - 1)
                   /\ has_member_decoration("MatrixStride", id, i - 1)
                 => find_member_decoration("MatrixStride", id, i - 1) = 16
    [] OTHER -> TRUE

MappedType(type) ==
  CASE type.kind = "Primitive" /\ type.type = "Void" -> LlvmType(0, <<>>)
    [] type.kind = "Primitive" -> LlvmType(IF type.type = "F16" THEN 2 ELSE PrimitiveSize[type.type], <<0>>)
    [] type.kind = "Vector" -> LlvmVector(llvm_types[type.of], type.width)
    [] type.kind = "Matrix" -> LlvmArray(llvm_types[type.of], type.width)
    [] type.kind = "Array" -> LlvmArray(llvm_types[type.of], ArrayLength(type))
    [] type.kind = "Struct" -> IF type.is_builtin THEN BuiltinStruct ELSE LlvmStruct(type)
    [] OTHER -> LlvmType(8, <<0>>)

(* Types and values must have unique ids; variables come with each         *)
(* function. The values themselves are LaneValue's, of the lowered code.   *)
map_declaration ==
  /\ pc = "types" /\ at <= Len(decl_types)
  /\ IF Mappable(CurrentId) /\ \A i \in 1 .. at - 1 : decl_types[i] # CurrentId
       THEN /\ llvm_types' = IF Current.kind \in {"Constant", "ConstantComposite", "Function", "Variable"}
                               THEN llvm_types ELSE Put(llvm_types, CurrentId, MappedType(Current))
            /\ Advance
       ELSE pc' = "trap" /\ UNCHANGED <<at, llvm_types>>
  /\ UNCHANGED <<program, tables, type_sizes, private_offsets, private_storage_size>>

types_mapped ==
  /\ pc = "types" /\ at > Len(decl_types)
  /\ pc' = "lower" /\ at' = 1
  /\ UNCHANGED <<program, tables, typeVars>>

build_types == size_declaration \/ lay_out_lanes \/ map_declaration \/ types_mapped
=============================================================================
