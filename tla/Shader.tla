-------------------------------- MODULE Shader ------------------------------
(***************************************************************************)
(* A shader from its SPIR-V module to its results: parse_meta,             *)
(* build_llvm_module_vectorized, and then the code that was emitted, run   *)
(* for a subgroup. An instruction computes the values of all lanes, the    *)
(* disabled ones included, and goes through the addresses of all lanes;    *)
(* only masked_store and the image writes look at the mask. The same       *)
(* program runs beside it in ScalarLanes.                                  *)
(***************************************************************************)
EXTENDS ScalarLanes

CONSTANTS
  Masks,   \* the sets of enabled lanes a shader may be entered with
  Data     \* what it may be given: [buffer, texels, vertices, barycentrics, invocation, front]

VARIABLES
  vals,    \* llvm_values_per_lane
  mem,     \* the scalar at each address: a space and a byte of it
  strayed  \* history: an instruction has been executed that Strays names

runVars == <<scalarVars, vals, mem, strayed>>
compileVars == <<program, tables, typeVars, lowerVars>>
vars == <<pc, at, compileVars, runVars>>

Init ==
  /\ ParseInit /\ TypesInit /\ LowerInit /\ ScalarInit
  /\ vals = <<>> /\ mem = <<>> /\ strayed = FALSE

-----------------------------------------------------------------------------
(* Addresses. A space is what was allocated at once: a name, the depth of  *)
(* the call that allocated it, 0 when the caller of the shader did, and    *)
(* the lane it is for, where each has its own.                             *)
Address(name, depth, k, byte) == [space |-> <<name, depth, k>>, at |-> byte]

Cells(ptr, type) ==
  LET offsets == llvm_types[type].cells
  IN [i \in DOMAIN offsets |-> <<ptr.space, ptr.at + offsets[i]>>]

Depth == Len(frames)
Location(var) == find_decoration("Location", var)

VertexAddress(var, v) == Address("input", 0, 0, input_storage_size * v + input_offset(Location(var)))

(* The pointer a function has to a variable, in lane k. *)
VariablePointer(var, k) ==
  LET storage == Decl(var).storage
  IN CASE storage = "Function" -> Address(var, Depth, k, 0)
       [] storage = "Private" -> Address("private", 0, 0, private_storage_size * k + private_offsets[var])
       [] storage \in {"Uniform", "UniformConstant"} -> Address(var, 0, 0, 0)
       [] storage = "PushConstant" -> Address("push_constants", 0, 0, 0)
       [] storage = "Output" /\ IsBuiltinStruct(Pointee(var)) -> Address(var, Depth, 0, BuiltinStruct.size * k)
       [] storage = "Output" -> Address(var, Depth, k, 0)
       [] has_decoration("BuiltIn", var) \/ IsPixelShader(Frame.function) -> Address(var, 0, k, 0)
       [] OTHER -> VertexAddress(var, k)

Value(k, id) ==
  CASE id \in DOMAIN decls /\ KindOf(id) = "Variable" -> <<VariablePointer(id, k)>>
    [] id \in DOMAIN decls -> ConstantValue(id)
    [] OTHER -> vals[k][id]

ArgOf(k, i) == Value(k, Cur.args[i])

-----------------------------------------------------------------------------
(* Entering the shader. *)
Entry == CHOOSE f \in DOMAIN entries : TRUE

Executable ==
  ValueOps \cup AtomicOps \cup
  {"Label", "AccessChain", "Load", "Store", "CompositeExtract", "ImageRead", "ImageWrite",
   "FunctionCall", "Return", "ReturnValue", "Nop"}

Runnable ==
  /\ entries # <<>>
  /\ \A f \in Range(Functions) :
       /\ \A inst \in Range(Code(f)) : inst.op \in Executable
       /\ Cardinality({i \in DOMAIN Code(f) : Code(f)[i].op = "Label"}) = 1

(* The words of a block of memory, from its first byte. *)
Filled(space, words) ==
  [cell \in {<<space, 4 * (i - 1)>> : i \in DOMAIN words} |-> words[cell[2] \div 4 + 1]]

Merged(functions) == FoldFunctionOnSet(LAMBDA f, g : f @@ g, <<>>, functions, DOMAIN functions)

Inputs == {var \in Range(global_variables) : Decl(var).storage = "Input"}
LocatedInputs == Inputs \cap Range(Located("Input"))
Builtins == {var \in Inputs : has_decoration("BuiltIn", var)}

BuiltinValue(d, var, k) ==
  CASE find_decoration("BuiltIn", var) = "FrontFacing" -> <<d.front>>
    [] find_decoration("BuiltIn", var) = "GlobalInvocationId" -> <<ToWord(d.invocation * SubgroupSize + k), 0, 0>>
    [] OTHER -> <<SubgroupSize, 1, 1>>

(* The input of a lane: a vertex, or interpolated between three of them.   *)
VertexInput(d, var, v) ==
  [i \in 1 .. Len(llvm_types[Pointee(var)].cells) |-> d.vertices[v + 1][Location(var) + 1][i]]

Interpolated(d, var, k) ==
  LET b == d.barycentrics[k + 1]
      Scaled(j) == VectorTimesScalar(VertexInput(d, var, 3 * k + j), <<b[j + 1]>>)
  IN SIMPLE_LLVM_OP("FAdd", Scaled(0), SIMPLE_LLVM_OP("FAdd", Scaled(1), Scaled(2)))

Blocks == {var \in Range(global_variables) : Decl(var).storage = "Uniform"}
PushConstants == {var \in Range(global_variables) : Decl(var).storage = "PushConstant"}
Images == {var \in Range(global_variables) : Decl(var).storage = "UniformConstant"}
Vertices(k) == IF IsPixelShader(Entry) THEN 3 * k .. 3 * k + 2 ELSE {k}

(* An image is a handle in the descriptor set and its texels.              *)
Memory(d) ==
  Merged([var \in Blocks |-> Filled(<<var, 0, 0>>, d.buffer)])
  @@ Merged([var \in PushConstants |-> Filled(<<"push_constants", 0, 0>>, d.buffer)])
  @@ Merged([var \in Images |-> (<<<<var, 0, 0>>, 0>> :> var) @@ Filled(<<var, 0, 1>>, d.texels)])
  @@ Merged([x \in Builtins \X Lanes |->
       Write(<<>>, Cells(Address(x[1], 0, x[2], 0), Pointee(x[1])), BuiltinValue(d, x[1], x[2]))])
  @@ Merged([x \in LocatedInputs \X UNION {Vertices(k) : k \in Lanes} |->
       Write(<<>>, Cells(VertexAddress(x[1], x[2]), Pointee(x[1])), VertexInput(d, x[1], x[2]))])

(* The code emitted for a pixel input, from the memory of the vertices.    *)
InterpolatedInputs(m, d) ==
  LET Vertex(var, v) == Read(m, Cells(VertexAddress(var, v), Pointee(var)))
      Scaled(var, k, j) == VectorTimesScalar(Vertex(var, 3 * k + j), <<d.barycentrics[k + 1][j + 1]>>)
      Sum(var, k) == SIMPLE_LLVM_OP("FAdd", Scaled(var, k, 0),
                       SIMPLE_LLVM_OP("FAdd", Scaled(var, k, 1), Scaled(var, k, 2)))
  IN IF IsPixelShader(Entry)
       THEN Merged([x \in LocatedInputs \X Lanes |->
              Write(<<>>, Cells(Address(x[1], 0, x[2], 0), Pointee(x[1])), Sum(x[1], x[2]))])
       ELSE <<>>

RefMemory(d) ==
  LET Declared(var, words) == [cell \in {<<<<var, 0>>, <<4 * (i - 1)>>>> : i \in DOMAIN words} |-> words[cell[2][1] \div 4 + 1]]
      Texels(var) == [cell \in {<<<<var, 1>>, <<i - 1>>>> : i \in DOMAIN d.texels} |-> d.texels[cell[2][1] + 1]]
      Held(var, k, value) == Write(<<>>, RefCells([inst |-> Instance(var, k), path |-> <<>>], Pointee(var)), value)
  IN Merged([var \in Blocks \cup PushConstants |-> Declared(var, d.buffer)])
     @@ Merged([var \in Images |-> Texels(var)])
     @@ Merged([x \in Builtins \X Lanes |-> Held(x[1], x[2], BuiltinValue(d, x[1], x[2]))])
     @@ Merged([x \in LocatedInputs \X Lanes |->
          Held(x[1], x[2], IF IsPixelShader(Entry) THEN Interpolated(d, x[1], x[2]) ELSE VertexInput(d, x[1], x[2]))])

(* get_storage_ptr of the standard library calls abort().                  *)
start ==
  /\ pc = "lowered" /\ Runnable
  /\ \E d \in Data, m \in Masks :
       /\ mask' = m
       /\ mem' = Memory(d) @@ InterpolatedInputs(Memory(d), d)
       /\ ref_mem' = RefMemory(d)
  /\ frames' = <<[function |-> Entry, at |-> 1]>>
  /\ vals' = [k \in Lanes |-> <<>>] /\ ref_vals' = vals'
  /\ strayed' = FALSE
  /\ pc' = IF \E var \in Range(global_variables) : Decl(var).storage = "StorageBuffer" THEN "trap" ELSE "run"
  /\ UNCHANGED <<at, compileVars>>

-----------------------------------------------------------------------------
(* The known ways in which the emitted code does not do what the shader    *)
(* says, by their cause. Of a chain: an index into a composite that is not *)
(* the last one takes the size of the whole; the last one takes the size   *)
(* of the element, whatever the declared stride; the members of a          *)
(* structure are out of place from the second one behind its first hole    *)
(* on, or behind a member LLVM makes larger; a matrix has its rows where   *)
(* its columns should be.                                                  *)
Composite(type) == KindOf(type) # "Struct"

InPlace(type, i) ==
  /\ \A j \in 1 .. i - 1 : PaddingBefore(Decl(type))[j] = 0
  /\ \A j \in 1 .. i - 1 : llvm_types[Decl(type).members[j]].size = type_sizes[Decl(type).members[j]]

RECURSIVE PlainPath(_, _, _)
PlainPath(type, path, explicit) ==
  path = <<>> \/
    IF Composite(type)
      THEN /\ Len(path) = 1
           /\ KindOf(type) # "Matrix"
           /\ explicit /\ KindOf(type) # "Vector" => ArrayStride(type) = llvm_types[Decl(type).of].size
      ELSE LET i == path[1] + 1
           IN \/ Decl(type).is_builtin
              \/ /\ explicit => InPlace(type, i)
                 /\ PlainPath(Decl(type).members[i], Tail(path), explicit)

PlainRef(ref) == PlainPath(Pointee(ref.inst[1]), ref.path, Explicit(ref.inst[1]))

Strays ==
  LET args(k) == [i \in DOMAIN Cur.args |-> RefArg(k, i)]
      onMatrix == Cur.id # "" /\ KindOf(Cur.type) = "Matrix"
  IN \/ Cur.op \in ValueOps /\ \E k \in mask :
          Diverges(Cur.op, args(k), Cur.lits, Columns(Cur)) \/ LeftOpen(Cur.op, args(k), Cur.lits)
     \/ Cur.op = "AccessChain" /\ \E k \in mask : ~PlainRef(RefResult(k, ref_mem)[1])
     \/ Cur.op \in AtomicOps /\ mask # Lanes
     \/ Cur.op = "CompositeConstruct" /\ onMatrix
     \/ Cur.op = "CompositeExtract" /\ KindOf(TypeOfArg(1)) = "Matrix"
     \/ \E i \in DOMAIN Cur.args : Cur.args[i] \in DOMAIN decls
          /\ KindOf(Cur.args[i]) = "ConstantComposite" /\ KindOf(TypeOfArg(i)) = "Matrix"
     \/ \E i \in DOMAIN Cur.args : Cur.args[i] \in DOMAIN decls /\ Depth > 1
          /\ KindOf(Cur.args[i]) = "Variable" /\ Decl(Cur.args[i]).storage = "Output"

-----------------------------------------------------------------------------
(* The emitted code. *)
Runs(ops) == pc = "run" /\ Cur.op \in ops

Proceed ==
  /\ frames' = [frames EXCEPT ![Depth].at = @ + 1]
  /\ strayed' = (strayed \/ Strays)
  /\ UNCHANGED <<pc, at, compileVars, mask>>

Texel(k) == <<<<<<ArgOf(k, 1)[1], 0, 1>>, 4 * ArgOf(k, 2)[1]>>>>

Result(k) ==
  CASE Cur.op \in ValueOps -> Compute(Cur.op, [i \in DOMAIN Cur.args |-> ArgOf(k, i)], Cur.lits, Columns(Cur))
    [] Cur.op = "CompositeExtract" -> Part(ArgOf(k, 1), TypeOfArg(1), Cur.lits)
    [] Cur.op = "Load" -> Read(mem, Cells(ArgOf(k, 1)[1], PointeeOfArg(1)))
    [] Cur.op = "ImageRead" -> Read(mem, Texel(k))

execute_value ==
  /\ Runs(ValueOps \cup {"CompositeExtract", "Load", "ImageRead"})
  /\ vals' = [k \in Lanes |-> Put(vals[k], Cur.id, Result(k))]
  /\ UNCHANGED mem
  /\ ScalarStep /\ Proceed

(* One index of an access chain: a member, of which a transposed copy is   *)
(* made if it is a matrix held by columns, or an element. A disabled lane  *)
(* may have an undefined index, and then goes through an address of which  *)
(* nothing is known here but that no other lane uses it.                   *)
Member(s, k, i) ==
  LET type == Decl(s.type)
      member == IF type.is_builtin THEN Decl(Cur.type).of ELSE type.members[i + 1]
      there == [s.ptr EXCEPT !.at = @ + IF type.is_builtin THEN 0 ELSE MemberOffset(type, i + 1)]
      copy == Address(Cur.id, Depth, k, 0)
  IN IF has_member_decoration("ColMajor", s.type, i)
       THEN [ptr |-> copy, type |-> member,
             mem |-> Write(s.mem, Cells(copy, member),
                           llvm_matrix_transpose(Read(s.mem, Cells(there, member)), PartCount(member)))]
       ELSE [ptr |-> there, type |-> member, mem |-> s.mem]

Chain(k, m) ==
  LET n == Len(Cur.args) - 1
      ElementSize(s, i) == llvm_types[IF i = n THEN Decl(Cur.type).of ELSE s.type].size
      step[i \in 0 .. n] ==
        IF i = 0 THEN [ptr |-> ArgOf(k, 1)[1], type |-> PointeeOfArg(1), mem |-> m]
        ELSE LET s == step[i - 1]  index == ArgOf(k, i + 1)[1]
             IN IF KindOf(s.type) = "Struct" THEN Member(s, k, index)
                ELSE IF index = Undef THEN [s EXCEPT !.ptr = Address("undefined", 0, k, 0)]
                ELSE [s EXCEPT !.ptr.at = @ + index * ElementSize(s, i)]
  IN step[n]

execute_chain ==
  /\ Runs({"AccessChain"})
  /\ LET lane(s, k) == LET chain == Chain(k, s.mem)
                       IN [mem |-> chain.mem, vals |-> [s.vals EXCEPT ![k] = Put(@, Cur.id, <<chain.ptr>>)]]
         all == FoldLeft(lane, [mem |-> mem, vals |-> vals], InOrder(Lanes))
     IN mem' = all.mem /\ vals' = all.vals
  /\ ScalarStep /\ Proceed

(* Variant: all lanes load before the first one stores.                     *)
masked_store_gathered(m, cells, values) ==
  FoldLeft(LAMBDA now, k : Write(now, cells[k], IF k \in mask THEN values[k] ELSE Read(m, cells[k])),
           m, InOrder(Lanes))

(* One lane after the other: load, select, store.                          *)
masked_store(m, cells, values) ==
  FoldLeft(LAMBDA now, k : Write(now, cells[k], IF k \in mask THEN values[k] ELSE Read(now, cells[k])),
           m, InOrder(Lanes))

execute_store ==
  /\ Runs({"Store"})
  /\ mem' = masked_store(mem, [k \in Lanes |-> Cells(ArgOf(k, 1)[1], TypeOfArg(2))], [k \in Lanes |-> ArgOf(k, 2)])
  /\ UNCHANGED vals
  /\ ScalarStep /\ Proceed

(* The functions of the standard library, called for every lane. *)
spv_atomic(op, a, b) ==
  CASE Undef \in {a} \/ Undef \in {b} -> Undef
    [] op = "AtomicIAdd" -> LlvmInteger("add", a, b)
    [] op = "AtomicISub" -> LlvmInteger("sub", a, b)
    [] OTHER -> LlvmInteger("or", a, b)

execute_atomic ==
  /\ Runs(AtomicOps)
  /\ LET lane(s, k) == LET cells == Cells(ArgOf(k, 1)[1], Cur.type)  old == Read(s.mem, cells)
                       IN [mem |-> Write(s.mem, cells, <<spv_atomic(Cur.op, old[1], ArgOf(k, 2)[1])>>),
                           vals |-> [s.vals EXCEPT ![k] = Put(@, Cur.id, old)]]
         all == FoldLeft(lane, [mem |-> mem, vals |-> vals], InOrder(Lanes))
     IN mem' = all.mem /\ vals' = all.vals
  /\ ScalarStep /\ Proceed

execute_image_write ==
  /\ Runs({"ImageWrite"})
  /\ mem' = FoldLeft(LAMBDA m, k : Write(m, Texel(k), ArgOf(k, 3)), mem, InOrder(mask))
  /\ UNCHANGED vals
  /\ ScalarStep /\ Proceed

execute_nothing ==
  /\ Runs({"Label", "Nop"})
  /\ UNCHANGED <<vals, mem, ref_vals, ref_mem>>
  /\ Proceed

(* A called function has allocas of its own for its variables, and for the *)
(* outputs of the shader.                                                  *)
execute_call ==
  /\ Runs({"FunctionCall"})
  /\ LET f == Cur.lits[1]
         param(i) == Decl(f).params[i].id
         params == {param(i) : i \in DOMAIN Cur.args}
         nth(p) == CHOOSE i \in DOMAIN Cur.args : param(i) = p
     IN /\ frames' = Append(frames, [function |-> f, at |-> 1])
        /\ vals' = [k \in Lanes |-> [p \in params |-> ArgOf(k, nth(p))] @@ vals[k]]
        /\ ref_vals' = [k \in Lanes |-> IF k \in mask THEN [p \in params |-> RefArg(k, nth(p))] @@ ref_vals[k]
                                        ELSE ref_vals[k]]
        /\ mem' = Restrict(mem, {cell \in DOMAIN mem : cell[1][2] # Depth + 1})
        /\ ref_mem' = Restrict(ref_mem, {cell \in DOMAIN ref_mem : cell[1][1] \notin Locals(f)})
  /\ UNCHANGED <<pc, at, compileVars, mask, strayed>>

Caller == frames[Depth - 1]
Popped == [Front(frames) EXCEPT ![Depth - 1].at = @ + 1]

execute_return_value ==
  /\ Runs({"ReturnValue"})
  /\ LET call == Code(Caller.function)[Caller.at].id
     IN /\ vals' = [k \in Lanes |-> Put(vals[k], call, ArgOf(k, 1))]
        /\ ref_vals' = [k \in Lanes |-> IF k \in mask THEN Put(ref_vals[k], call, RefArg(k, 1)) ELSE ref_vals[k]]
  /\ frames' = Popped
  /\ strayed' = (strayed \/ Strays)
  /\ UNCHANGED <<pc, at, compileVars, mask, mem, ref_mem>>

Outputs == SelectSeq(global_variables, LAMBDA var : Decl(var).storage = "Output")

OutputAddress(var, k) ==
  IF IsBuiltinStruct(Pointee(var)) THEN Address("builtin_output", 0, 0, BuiltinStruct.size * k)
  ELSE Address("output", 0, 0, output_storage_size * k + output_offset(Location(var)))

(* deferred_stores: every output of every lane. *)
deferred_stores(m) ==
  FoldLeft(LAMBDA by_var, var :
    FoldLeft(LAMBDA now, k :
        Write(now, Cells(OutputAddress(var, k), Pointee(var)), Read(now, Cells(VariablePointer(var, k), Pointee(var)))),
      by_var, InOrder(Lanes)),
    m, Outputs)

execute_return ==
  /\ Runs({"Return"})
  /\ IF Depth > 1 THEN frames' = Popped /\ UNCHANGED <<pc, mem>>
     ELSE frames' = frames /\ mem' = deferred_stores(mem) /\ pc' = "returned"
  /\ UNCHANGED <<at, compileVars, mask, vals, ref_vals, ref_mem, strayed>>

run ==
  \/ execute_value \/ execute_chain \/ execute_store \/ execute_atomic
  \/ execute_image_write \/ execute_nothing \/ execute_call
  \/ execute_return_value \/ execute_return

compile ==
  \/ parse_meta /\ UNCHANGED <<typeVars, lowerVars>>
  \/ build_types /\ UNCHANGED lowerVars
  \/ lower_functions

Next == (compile /\ UNCHANGED runVars) \/ start \/ run

Spec == Init /\ [][Next]_vars

-----------------------------------------------------------------------------
(* What the variables hold, in every phase.                                *)
Phases == {"header", "parse", "sizes", "types", "lower", "body", "lowered", "run", "returned", "trap"}

TypeOK ==
  /\ pc \in Phases
  /\ \A id \in DOMAIN type_sizes : id \in DOMAIN decls /\ type_sizes[id] >= 0
  /\ \A id \in DOMAIN llvm_types :
       Range(llvm_types[id].cells) \subseteq 0 .. llvm_types[id].size - 1
  /\ \A f \in DOMAIN instructions : f \in DOMAIN decls /\ KindOf(f) = "Function"
  /\ pc \in {"run", "returned"} =>
       /\ frames # <<>> /\ \A i \in DOMAIN frames : frames[i].at \in DOMAIN Code(frames[i].function)
       /\ mask \subseteq Lanes
       /\ DOMAIN vals = Lanes /\ DOMAIN ref_vals = Lanes

(* The bytes an LLVM value of a type touches.                              *)
Extent(type) == Last(llvm_types[type].cells) + Min({4, llvm_types[type].size})
Apart(a, n, b, m) == a + n <= b \/ b + m <= a

(* A vector of three takes the room of four in an array, and is counted as *)
(* three.                                                                  *)
RECURSIVE HoldsVec3s(_)
HoldsVec3s(type) ==
  CASE KindOf(type) \in {"Array", "Matrix"} ->
         (KindOf(Decl(type).of) = "Vector" /\ Decl(Decl(type).of).width = 3) \/ HoldsVec3s(Decl(type).of)
    [] KindOf(type) = "Struct" -> \E i \in DOMAIN Decl(type).members : HoldsVec3s(Decl(type).members[i])
    [] OTHER -> FALSE

(* Two passes lay out the data of a lane: the slots and the private        *)
(* variables from the sizes parse_meta counts, what is written to them     *)
(* from the LLVM types. However many variables there are, slots are        *)
(* aligned, no two slots or private variables meet, and none reaches into  *)
(* the next lane.                                                          *)
LayoutSound ==
  pc = "lower" =>
    /\ \A storage \in {"Input", "Output"} :
         LET offset(var) == 4 * Offset(InterfaceOf(storage), Location(var))
             stride == 4 * Stride(InterfaceOf(storage))
         IN \A var \in Range(Located(storage)) :
              /\ offset(var) % 16 = 0 /\ stride % 16 = 0
              /\ offset(var) + Extent(Pointee(var)) <= stride
              /\ \A other \in Range(Located(storage)) :
                   Location(other) # Location(var) =>
                     Apart(offset(var), Extent(Pointee(var)), offset(other), Extent(Pointee(other)))
    /\ LET exact == {var \in DOMAIN private_offsets : ~HoldsVec3s(Pointee(var))}
       IN \A var \in exact :
            /\ private_offsets[var] + Extent(Pointee(var)) <= private_storage_size
            /\ \A other \in exact \ {var} :
                 Apart(private_offsets[var], Extent(Pointee(var)), private_offsets[other], Extent(Pointee(other)))

(* The results of a kind in the code executed so far.                      *)
Computed(pointers) ==
  IF pc # "run" THEN {}
  ELSE {inst \in {Code(Frame.function)[i] : i \in 1 .. Frame.at - 1} :
          inst.id # "" /\ IsPointer(inst.type) = pointers}

(* Every pointer an enabled lane has computed into a uniform block or the  *)
(* push constants is the address the decorations of the module give, when  *)
(* the chain is plain: the padding the code inserts and the elements it    *)
(* counts past must come out at the declared offsets. (A pointer to a      *)
(* matrix may be one to the transposed copy.)                              *)
ChainsInPlace ==
  \A inst \in Computed(TRUE), k \in mask :
    LET ref == ref_vals[k][inst.id][1]  ptr == vals[k][inst.id][1]
    IN Explicit(ref.inst[1]) /\ PlainRef(ref) /\ KindOf(Decl(inst.type).of) # "Matrix" =>
         ptr.at = RefCell(ref, Leaves(Decl(inst.type).of)[1])[2][1]

(* A value of a lane as the scalar program has it: a matrix by columns.    *)
Seen(value, type) ==
  IF KindOf(type) = "Matrix" THEN llvm_matrix_transpose(value, PartCount(type)) ELSE value

SameBlocks ==
  \A cell \in DOMAIN ref_mem :
    LET var == cell[1][1]  byte == cell[2][1]
    IN /\ var \in Blocks => ref_mem[cell] = mem[<<<<var, 0, 0>>, byte>>]
       /\ var \in Images => ref_mem[cell] = mem[<<<<var, 0, 1>>, 4 * byte>>]

(* Each enabled lane is a scalar invocation: whatever the other lanes hold *)
(* and whichever of them are disabled, it computes what the shader says,   *)
(* across calls, private variables, shared blocks and images, and its      *)
(* outputs arrive in its slots; until an instruction is executed that      *)
(* Strays names.                                                           *)
LanesAreScalar ==
  ~strayed =>
    /\ \A inst \in Computed(FALSE), k \in mask :
         KindOf(inst.type) # "Image" => Seen(vals[k][inst.id], inst.type) = ref_vals[k][inst.id]
    /\ pc \in {"run", "returned"} => SameBlocks
    /\ pc = "returned" =>
         \A var \in Range(Outputs), k \in mask :
           Read(mem, Cells(OutputAddress(var, k), Pointee(var)))
             = Read(ref_mem, SubSeq(RefCells([inst |-> Instance(var, k), path |-> <<>>], Pointee(var)), 1,
                                    Len(llvm_types[Pointee(var)].cells)))
=============================================================================
