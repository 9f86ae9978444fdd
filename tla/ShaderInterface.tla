--------------------------- MODULE ShaderInterface --------------------------
(***************************************************************************)
(* How parse_meta of spirv_to_llvm.cpp lays out what a shader takes in and *)
(* puts out, and the slots Jitted_Shader::init reads back from the         *)
(* compiled module. An interface is the sequence of the input (or the      *)
(* output) variables, in the order they are declared, each a record of its *)
(* location and its format. Sizes are in words of four bytes.              *)
(***************************************************************************)
EXTENDS Naturals, Sequences, FiniteSets, FiniteSetsExt, Ranks

SlotAlign == 4   \* 16 bytes

(* VK_FORMAT_R32_SFLOAT .. VK_FORMAT_R32G32B32A32_SFLOAT *)
Formats == {"f1", "f2", "f3", "f4"}

Words(format) == CASE format = "f1" -> 1 [] format = "f2" -> 2 [] format = "f3" -> 3 [] OTHER -> 4

RoundUp(n, a) == ((n + a - 1) \div a) * a

Locations(vars) == {vars[i].location : i \in DOMAIN vars}

(* inputs[location] = var.id: of several variables the last one stays.     *)
AtLocation(vars, loc) ==
  vars[Max({i \in DOMAIN vars : vars[i].location = loc})]

(* Where the data of the locations below loc ends. *)
EndBelow(vars) ==
  LET top == IF vars = <<>> THEN 0 ELSE Max(Locations(vars)) + 1
      end[loc \in 0 .. top] ==
        IF loc = 0 THEN 0
        ELSE IF loc - 1 \in Locations(vars)
          THEN RoundUp(end[loc - 1], SlotAlign) + Words(AtLocation(vars, loc - 1).format)
          ELSE end[loc - 1]
  IN end

Offset(vars, loc) == RoundUp(EndBelow(vars)[loc], SlotAlign)

(* input_storage_size, output_storage_size: of one lane. *)
Stride(vars) ==
  LET end == EndBelow(vars) IN RoundUp(end[Max(DOMAIN end)], SlotAlign)

(* get_input_slots, get_output_slots: one per location, from the lowest.   *)
Slots(vars) ==
  [i \in 1 .. Cardinality(Locations(vars)) |->
     LET loc == Nth(Locations(vars), i)
     IN [location |-> loc, offset |-> Offset(vars, loc), format |-> AtLocation(vars, loc).format]]

(* setup_pixel_input: the slot the last match leaves, or one of no format. *)
NoSlot == [location |-> 0, offset |-> 0, format |-> "undefined"]

MatchingSlot(slots, loc) ==
  LET match == {i \in DOMAIN slots : slots[i].location = loc}
  IN IF match = {} THEN NoSlot ELSE slots[Max(match)]
=============================================================================
