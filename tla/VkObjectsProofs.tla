-------------------------- MODULE VkObjectsProofs --------------------------
(***************************************************************************)
(* Reference counts and lifetimes of the Vulkan objects, for pools of any  *)
(* size and any number of objects, when the application is orderly.        *)
(*                                                                         *)
(* The counts are only exact between two calls. In the middle of one, a    *)
(* count also covers the releases that are still to come, and a pointer    *)
(* that is about to be overwritten no longer counts: CountsMidCall.        *)
(***************************************************************************)
EXTENDS VkObjects, FiniteSetTheorems, TLAPS

-----------------------------------------------------------------------------
(* The inductive invariant.                                                *)

Fields(kind) == DOMAIN NoRefs(kind)

(* Where a pointer may be: an object and a field of it.                    *)
Spots == UNION {{o} \X Fields(o[1]) : o \in Objects}

Targets == Objects \cup {Null}

DescriptorFields == {"buffer", "image_view", "sampler"}

(* A set's descriptors are overwritten with what the application holds.    *)
Steps == ({"release"} \X Targets) \cup ({"store"} \X Objects \X DescriptorFields \X Targets)

(* Pointers lead from objects of a lower depth to objects of a higher one. *)
Depth(kind) ==
  CASE kind \in {"set", "framebuffer", "pipeline", "bufferView", "swapchain"} -> 0
    [] kind \in {"image", "swapImage", "setLayout"} -> 2
    [] kind = "memory" -> 3
    [] OTHER -> 1

Typed ==
  /\ refcnt \in [Objects -> Nat]
  /\ DOMAIN refs = Objects
  /\ \A o \in Objects : refs[o] \in [Fields(o[1]) -> Targets]
  /\ next_free_slot \in [Kinds -> Nat]
  /\ \A k \in Kinds : next_free_slot[k] \in 1..Capacity[k]
  /\ held \subseteq Pooled
  /\ todo \in Seq(Steps)
  /\ fault \in {"none", "NULL"} \cup Kinds

(* The releases of o that are still to come. *)
Owed(t, o) == {i \in 1..Len(t) : t[i] = <<"release", o>>}

Dues(t, o) == Cardinality(Owed(t, o))

(* The pointers to o, but for those about to be overwritten. *)
Overwritten(t, p, f) == \E i \in 1..Len(t) : t[i][1] = "store" /\ t[i][2] = p /\ t[i][3] = f

Pointers(r, t, o) == {s \in Spots : r[s[1]][s[2]] = o /\ ~ Overwritten(t, s[1], s[2])}

Once(o, S) == IF o \in S THEN 1 ELSE 0

CountsMidCall ==
  \A o \in Objects :
    refcnt[o] = Cardinality(Pointers(refs, todo, o)) + Dues(todo, o) + Once(o, held)

FreeIsBlank ==
  \A o \in Objects : refcnt[o] = 0 => \A f \in Fields(o[1]) : refs[o][f] = Null

Downward ==
  \A o \in Objects : \A f \in Fields(o[1]) :
    refs[o][f] # Null => Depth(refs[o][f][1]) > Depth(o[1])

(* A swapchain and its images live and die together. *)
SwapchainWhole ==
  \A n \in 1..Capacity["swapchain"] :
    LET chain == <<"swapchain", n>>  image == <<"swapImage", n>>
    IN  /\ refcnt[chain] = 0 <=> refcnt[image] = 0
        /\ refcnt[chain] # 0 => refs[chain].images = image /\ refs[chain].surface # image

(* Stores go into sets the application holds, and store what it holds. *)
StoresHeld ==
  \A i \in 1..Len(todo) : todo[i][1] = "store" =>
    /\ todo[i][2] \in held /\ todo[i][2][1] = "set" /\ todo[i][3] \in DescriptorFields
    /\ todo[i][4] # Null => todo[i][4] \in held /\ Depth(todo[i][4][1]) > 0

StoresDiffer ==
  \A i, j \in 1..Len(todo) :
    /\ todo[i][1] = "store" /\ todo[j][1] = "store"
    /\ todo[i][2] = todo[j][2] /\ todo[i][3] = todo[j][3]
    => i = j

(* A swapchain is released when nothing but itself points to its images. *)
SwapchainGoes ==
  \A i \in 1..Len(todo) : todo[i][1] = "release" /\ todo[i][2][1] = "swapchain" =>
    /\ Len(todo) = 1 /\ todo[i][2] \notin held
    /\ refcnt[refs[todo[i][2]].images] = 1

IInv ==
  /\ Typed /\ CountsMidCall /\ FreeIsBlank /\ Downward /\ SwapchainWhole
  /\ StoresHeld /\ StoresDiffer /\ SwapchainGoes

-----------------------------------------------------------------------------
(* Finiteness, and the least element of a set of numbers.                  *)

(* A set of natural numbers that is not empty has a least element, which   *)
(* is what find_next_free_slot looks for.                                  *)
LEMMA LeastIsLeast ==
  ASSUME NEW S \in SUBSET Nat, S # {}
  PROVE  Least(S) \in S /\ \A j \in S : Least(S) <= j
<1>1. IsWellFoundedOn({ss \in Nat \X Nat : ss[1] < ss[2]}, Nat)
  BY NatLessThanWellFounded DEF OpToRel
<1>2. \E i \in S : \A j \in S : <<j, i>> \notin {ss \in Nat \X Nat : ss[1] < ss[2]}
  BY <1>1, WFMin
<1>3. \A i, j \in Nat : <<j, i>> \notin {ss \in Nat \X Nat : ss[1] < ss[2]} => i <= j
  OBVIOUS
<1>4. QED
  BY <1>2, <1>3 DEF Least

(* The slot a pool finds when it is not full is a free one. *)
LEMMA FoundSlotIsFree ==
  ASSUME NEW kind \in Kinds, Typed, FreeSlots(kind, 1) # {}
  PROVE  /\ FoundSlot(kind) \in 1..Capacity[kind]
         /\ refcnt[<<kind, FoundSlot(kind)>>] = 0
<1>1. Capacity[kind] \in Nat /\ next_free_slot[kind] \in 1..Capacity[kind]
  BY CapacityAssumption DEF Typed
<1>2. \A first \in 1..Capacity[kind] : FreeSlots(kind, first) \in SUBSET Nat
  BY <1>1 DEF FreeSlots
<1>3. FoundSlot(kind) \in FreeSlots(kind, 1) \/ FoundSlot(kind) \in FreeSlots(kind, next_free_slot[kind])
  BY <1>1, <1>2, LeastIsLeast DEF FoundSlot
<1>4. QED
  BY <1>1, <1>3 DEF FreeSlots

(* The pointers in an object of each kind. *)
LEMMA FieldsOf ==
  /\ \A kind \in {"buffer", "image", "swapImage"} : Fields(kind) = {"mem"}
  /\ Fields("bufferView") = {"buf"}
  /\ Fields("imageView") = {"img"}
  /\ Fields("set") = {"buffer", "image_view", "sampler", "layout", "pool"}
  /\ Fields("pipelineLayout") = {"pSetLayouts"}
  /\ Fields("framebuffer") = {"pAttachments", "renderPass"}
  /\ Fields("pipeline") = {"vs", "ps", "layout", "renderPass"}
  /\ Fields("swapchain") = {"surface", "images"}
  /\ \A kind \in {"memory", "sampler", "setLayout", "pool", "renderPass", "shader", "surface"} :
       Fields(kind) = {}
BY DEF Fields, NoRefs

(* A fresh object has no pointers. *)
LEMMA NoRefsIsNull ==
  ASSUME NEW kind \in Kinds \cup {"swapImage"}
  PROVE  /\ NoRefs(kind) \in [Fields(kind) -> Targets]
         /\ \A f \in Fields(kind) : NoRefs(kind)[f] = Null
BY DEF Fields, NoRefs, Kinds, Targets

(* The slots of a pool are finitely many. *)
LEMMA IntervalFinite ==
  ASSUME NEW n \in Nat
  PROVE  IsFiniteSet(1..n)
<1>1. 1 \in Int /\ n \in Int
  OBVIOUS
<1>2. QED
  BY <1>1, FS_Interval

(* A set of up to five elements is finite. *)
LEMMA FewAreFinite ==
  ASSUME NEW a, NEW b, NEW c, NEW d, NEW e
  PROVE  IsFiniteSet({a, b, c, d, e})
<1>1. IsFiniteSet({a} \cup {b})
  BY FS_Singleton, FS_AddElement
<1>2. IsFiniteSet(({a} \cup {b}) \cup {c})
  BY <1>1, FS_AddElement
<1>3. IsFiniteSet((({a} \cup {b}) \cup {c}) \cup {d})
  BY <1>2, FS_AddElement
<1>4. IsFiniteSet(((({a} \cup {b}) \cup {c}) \cup {d}) \cup {e})
  BY <1>3, FS_AddElement
<1>5. ((({a} \cup {b}) \cup {c}) \cup {d}) \cup {e} = {a, b, c, d, e}
  OBVIOUS
<1>6. QED
  BY <1>4, <1>5

(* An object has finitely many pointers. *)
LEMMA FieldsFinite ==
  ASSUME NEW kind \in Kinds \cup {"swapImage"}
  PROVE  IsFiniteSet(Fields(kind))
<1> DEFINE A == {"mem", "buf", "img", "pSetLayouts", "pSetLayouts"}
           B == {"buffer", "image_view", "sampler", "layout", "pool"}
           C == {"pAttachments", "renderPass", "vs", "ps", "surface"}
           D == {"images", "images", "images", "images", "images"}
<1>1. IsFiniteSet(A \cup B) /\ IsFiniteSet(C \cup D)
  BY FewAreFinite, FS_Union
<1>2. IsFiniteSet((A \cup B) \cup (C \cup D))
  BY <1>1, FS_Union
<1>3. Fields(kind) \subseteq (A \cup B) \cup (C \cup D)
  BY FieldsOf DEF Kinds
<1>4. QED
  BY <1>2, <1>3, FS_Subset

(* There are finitely many objects, and finitely many pointers in them. *)
LEMMA SpotsFinite ==
  IsFiniteSet(Objects) /\ IsFiniteSet(Spots)
<1>1. IsFiniteSet(Kinds)
  <2> DEFINE all == <<"memory", "buffer", "bufferView", "image", "imageView", "sampler",
                      "setLayout", "pool", "set", "pipelineLayout", "renderPass",
                      "framebuffer", "shader", "pipeline", "surface", "swapchain">>
  <2>1. all \in [1..16 -> Kinds] /\ \A k \in Kinds : \E i \in 1..16 : all[i] = k
    BY DEF Kinds
  <2>2. all \in Surjection(1..16, Kinds)
    BY <2>1 DEF Surjection
  <2>3. IsFiniteSet(1..16)
    BY IntervalFinite
  <2>4. QED
    BY <2>2, <2>3, FS_Surjection
<1>2. ASSUME NEW k \in Kinds
      PROVE  IsFiniteSet({k} \X (1..Capacity[k]))
  <2>1. IsFiniteSet(1..Capacity[k]) /\ IsFiniteSet({k})
    BY CapacityAssumption, FS_Singleton, IntervalFinite
  <2>2. QED
    BY <2>1, FS_Product
<1>3. IsFiniteSet({{k} \X (1..Capacity[k]) : k \in Kinds})
  <2> DEFINE pool == [k \in Kinds |-> {k} \X (1..Capacity[k])]
  <2>1. pool \in Surjection(Kinds, {{k} \X (1..Capacity[k]) : k \in Kinds})
    BY DEF Surjection
  <2>2. QED
    BY <1>1, <2>1, FS_Surjection
<1>4. IsFiniteSet(Pooled)
  BY <1>2, <1>3, FS_UNION DEF Pooled
<1>5. IsFiniteSet({"swapImage"} \X (1..Capacity["swapchain"]))
  <2>1. IsFiniteSet(1..Capacity["swapchain"]) /\ IsFiniteSet({"swapImage"})
    BY CapacityAssumption, FS_Singleton, IntervalFinite DEF Kinds
  <2>2. QED
    BY <2>1, FS_Product
<1>6. IsFiniteSet(Objects)
  BY <1>4, <1>5, FS_Union DEF Objects
<1>7. \A o \in Objects : IsFiniteSet({o} \X Fields(o[1]))
  <2> SUFFICES ASSUME NEW o \in Objects PROVE IsFiniteSet({o} \X Fields(o[1]))
    OBVIOUS
  <2>1. o[1] \in Kinds \cup {"swapImage"}
    BY DEF Objects, Pooled
  <2>2. IsFiniteSet(Fields(o[1]))
    BY <2>1, FieldsFinite
  <2>3. QED
    BY <2>2, FS_Singleton, FS_Product
<1>8. IsFiniteSet({{o} \X Fields(o[1]) : o \in Objects})
  <2> DEFINE part == [o \in Objects |-> {o} \X Fields(o[1])]
  <2>1. part \in Surjection(Objects, {{o} \X Fields(o[1]) : o \in Objects})
    BY DEF Surjection
  <2>2. QED
    BY <1>6, <2>1, FS_Surjection
<1>9. QED
  BY <1>6, <1>7, <1>8, FS_UNION DEF Spots

-----------------------------------------------------------------------------
(* Counting what a call still has to release.                              *)

(* The union of two sets that have nothing in common. *)
LEMMA CardinalityOfSum ==
  ASSUME NEW A, NEW B, IsFiniteSet(A), IsFiniteSet(B), A \cap B = {}
  PROVE  IsFiniteSet(A \cup B) /\ Cardinality(A \cup B) = Cardinality(A) + Cardinality(B)
<1>1. Cardinality(A \cap B) = 0 /\ Cardinality(A) \in Nat /\ Cardinality(B) \in Nat
  BY FS_EmptySet, FS_CardinalityType
<1>2. /\ IsFiniteSet(A \cup B)
      /\ Cardinality(A \cup B) = Cardinality(A) + Cardinality(B) - Cardinality(A \cap B)
  BY FS_Union
<1>3. QED
  BY <1>1, <1>2

(* The releases of o that are still to come are counted by a number. *)
LEMMA DuesType ==
  ASSUME NEW S, NEW t \in Seq(S), NEW o
  PROVE  IsFiniteSet(Owed(t, o)) /\ Dues(t, o) \in Nat
<1>1. Owed(t, o) \subseteq 1..Len(t) /\ Len(t) \in Nat
  BY DEF Owed
<1>2. IsFiniteSet(Owed(t, o))
  BY <1>1, IntervalFinite, FS_Subset
<1>3. QED
  BY <1>2, FS_CardinalityType DEF Dues

(* Nothing to do, nothing to release. *)
LEMMA DuesEmpty ==
  ASSUME NEW o
  PROVE  Owed(<< >>, o) = {} /\ Dues(<< >>, o) = 0
<1>1. Owed(<< >>, o) = {}
  BY DEF Owed
<1>2. QED
  BY <1>1, FS_EmptySet DEF Dues

(* One thing to do is one release, or none. *)
LEMMA DuesOne ==
  ASSUME NEW e, NEW o
  PROVE  Dues(<<e>>, o) = IF e = <<"release", o>> THEN 1 ELSE 0
<1>1. Owed(<<e>>, o) = IF e = <<"release", o>> THEN {1} ELSE {}
  BY DEF Owed
<1>2. QED
  BY <1>1, FS_EmptySet, FS_Singleton DEF Dues

(* What is to be released by one list of things to do and then another. *)
LEMMA DuesConcat ==
  ASSUME NEW S, NEW t \in Seq(S), NEW u \in Seq(S), NEW o
  PROVE  Dues(t \o u, o) = Dues(t, o) + Dues(u, o)
<1> DEFINE later == {i \in (Len(t) + 1)..(Len(t) + Len(u)) : u[i - Len(t)] = <<"release", o>>}
           shift == [i \in Owed(u, o) |-> i + Len(t)]
<1>1. Len(t) \in Nat /\ Len(u) \in Nat
  OBVIOUS
<1>2. Owed(t \o u, o) = Owed(t, o) \cup later
  BY DEF Owed
<1>3. Owed(t, o) \cap later = {}
  BY DEF Owed
<1>4. IsFiniteSet(later) /\ Cardinality(later) = Dues(u, o)
  <2>1. shift \in [Owed(u, o) -> later]
    BY DEF Owed
  <2>2. \A i, j \in Owed(u, o) : shift[i] = shift[j] => i = j
    BY DEF Owed
  <2>3. \A k \in later : \E i \in Owed(u, o) : shift[i] = k
    <3> TAKE k \in later
    <3>1. k - Len(t) \in Owed(u, o) /\ shift[k - Len(t)] = k
      BY <1>1 DEF Owed
    <3>2. QED
      BY <3>1
  <2> HIDE DEF shift, later
  <2>4. shift \in Bijection(Owed(u, o), later)
    BY <2>1, <2>2, <2>3 DEF Bijection, Injection, Surjection, IsInjective
  <2>5. ExistsBijection(Owed(u, o), later)
    BY <2>4 DEF ExistsBijection
  <2>6. QED
    BY <2>5, DuesType, FS_Bijection DEF Dues
<1>5. IsFiniteSet(Owed(t, o)) /\ Dues(t, o) \in Nat /\ Dues(u, o) \in Nat
  BY DuesType
<1>6. Cardinality(Owed(t, o) \cup later) = Cardinality(Owed(t, o)) + Cardinality(later)
  BY <1>3, <1>4, <1>5, CardinalityOfSum
<1>7. QED
  BY <1>2, <1>4, <1>6 DEF Dues

(* What is left to be released when the first thing has been done. *)
LEMMA DuesTail ==
  ASSUME NEW S, NEW t \in Seq(S), t # << >>, NEW o
  PROVE  /\ Dues(t, o) = (IF Head(t) = <<"release", o>> THEN 1 ELSE 0) + Dues(Tail(t), o)
         /\ Dues(Tail(t), o) \in Nat
<1> DEFINE first == <<Head(t)>>
           rest == Tail(t)
<1>1. first \in Seq(S) /\ rest \in Seq(S) /\ t = first \o rest
  OBVIOUS
<1>2. Dues(first, o) = IF Head(t) = <<"release", o>> THEN 1 ELSE 0
  BY DuesOne
<1> HIDE DEF first, rest
<1>3. Dues(first \o rest, o) = Dues(first, o) + Dues(rest, o) /\ Dues(rest, o) \in Nat
  BY <1>1, DuesConcat, DuesType
<1>4. QED
  BY <1>1, <1>2, <1>3 DEF rest

(* Doing the first thing moves the others up by one. *)
LEMMA TailMoves ==
  ASSUME NEW S, NEW t \in Seq(S), t # << >>
  PROVE  /\ Tail(t) \in Seq(S) /\ Len(Tail(t)) = Len(t) - 1 /\ Len(t) \in Nat \ {0}
         /\ Head(t) = t[1]
         /\ \A i \in 1..Len(Tail(t)) : i + 1 \in 1..Len(t) /\ Tail(t)[i] = t[i + 1]
OBVIOUS

-----------------------------------------------------------------------------
(* Counting pointers.                                                      *)

(* The pointers to an object are counted by a number. *)
LEMMA PointersType ==
  ASSUME NEW r, NEW t, NEW o
  PROVE  IsFiniteSet(Pointers(r, t, o)) /\ Cardinality(Pointers(r, t, o)) \in Nat
<1>1. Pointers(r, t, o) \subseteq Spots
  BY DEF Pointers
<1>2. QED
  BY <1>1, SpotsFinite, FS_Subset, FS_CardinalityType

(* The pointers in one object count as its fields do. *)
LEMMA OwnPointers ==
  ASSUME NEW o, NEW F, IsFiniteSet(F)
  PROVE  IsFiniteSet({o} \X F) /\ Cardinality({o} \X F) = Cardinality(F)
<1>1. IsFiniteSet({o}) /\ Cardinality({o}) = 1
  BY FS_Singleton
<1>2. Cardinality(F) \in Nat
  BY FS_CardinalityType
<1>3. QED
  BY <1>1, <1>2, FS_Product

(* How many of the pointers in F lead to q. *)
CountOf(r, F, q) == Cardinality({f \in F : r[f] = q})

Extends(E, D, a) == IsFiniteSet(D) /\ a \notin D /\ E = D \cup {a}

At(r, f, q) == IF r[f] = q THEN 1 ELSE 0

(* No fields, no pointers. *)
LEMMA CountNone ==
  ASSUME NEW r, NEW q
  PROVE  IsFiniteSet({}) /\ CountOf(r, {}, q) = 0
<1>1. {f \in {} : r[f] = q} = {}
  OBVIOUS
<1>2. QED
  BY <1>1, FS_EmptySet DEF CountOf

(* One field more counts one more or not. *)
LEMMA CountField ==
  ASSUME NEW r, NEW q, NEW D, NEW E, NEW a, Extends(E, D, a)
  PROVE  /\ IsFiniteSet(E)
         /\ CountOf(r, E, q) = CountOf(r, D, q) + At(r, a, q)
         /\ CountOf(r, D, q) \in Nat /\ At(r, a, q) \in Nat
<1> DEFINE A == {f \in D : r[f] = q}
           B == {f \in E : r[f] = q}
<1>1. IsFiniteSet(A) /\ a \notin A
  BY FS_Subset DEF Extends
<1>2. B = IF r[a] = q THEN A \cup {a} ELSE A
  BY DEF Extends
<1>3. Cardinality(A) \in Nat
  BY <1>1, FS_CardinalityType
<1>4. Cardinality(A \cup {a}) = Cardinality(A) + 1
  BY <1>1, FS_AddElement
<1>5. IsFiniteSet(E)
  BY FS_AddElement DEF Extends
<1>6. Cardinality(B) = Cardinality(A) + (IF r[a] = q THEN 1 ELSE 0)
  BY <1>2, <1>3, <1>4
<1>7. QED
  BY <1>3, <1>5, <1>6 DEF CountOf, At

(* The pointers of an object that has one. *)
LEMMA CountOne ==
  ASSUME NEW r, NEW q, NEW a
  PROVE  /\ IsFiniteSet({a}) /\ CountOf(r, {a}, q) = At(r, a, q)
         /\ At(r, a, q) \in Nat
<1> DEFINE S0 == {}  S1 == {a}
<1>1. IsFiniteSet(S0) => Extends(S1, S0, a)
  BY DEF Extends
<1>2. IsFiniteSet(S0) /\ CountOf(r, S0, q) = 0
  BY CountNone
<1> HIDE DEF S0, S1
<1>3. /\ IsFiniteSet(S1) /\ CountOf(r, S1, q) = CountOf(r, S0, q) + At(r, a, q)
      /\ At(r, a, q) \in Nat
  BY <1>1, <1>2, CountField
<1>4. QED
  BY <1>2, <1>3 DEF S1

(* Of an object that has two, counted one by one. *)
LEMMA CountTwo ==
  ASSUME NEW r, NEW q, NEW a, NEW b, a # b
  PROVE  /\ IsFiniteSet({a, b}) /\ CountOf(r, {a, b}, q) = At(r, a, q) + At(r, b, q)
         /\ At(r, a, q) \in Nat /\ At(r, b, q) \in Nat
<1> DEFINE S1 == {a}  S2 == {a, b}
<1>1. IsFiniteSet(S1) => Extends(S2, S1, b)
  BY DEF Extends
<1>2. IsFiniteSet(S1) /\ CountOf(r, S1, q) = At(r, a, q) /\ At(r, a, q) \in Nat
  BY CountOne
<1> HIDE DEF S1, S2
<1>3. /\ IsFiniteSet(S2) /\ CountOf(r, S2, q) = CountOf(r, S1, q) + At(r, b, q)
      /\ At(r, b, q) \in Nat
  BY <1>1, <1>2, CountField
<1>4. QED
  BY <1>2, <1>3 DEF S2

(* S has four elements and T one more. *)
Lists(S, T, a, b, c, d, e) ==
  /\ a # b /\ c \notin {a, b} /\ d \notin {a, b, c} /\ e \notin {a, b, c, d}
  /\ S = {a, b, c, d} /\ T = {a, b, c, d, e}

(* And of one with four, or five. *)
LEMMA CountFive ==
  ASSUME NEW r, NEW q, NEW S, NEW T, NEW a, NEW b, NEW c, NEW d, NEW e, Lists(S, T, a, b, c, d, e)
  PROVE  /\ CountOf(r, S, q) = At(r, a, q) + At(r, b, q) + At(r, c, q) + At(r, d, q)
         /\ CountOf(r, T, q)
              = At(r, a, q) + At(r, b, q) + At(r, c, q) + At(r, d, q) + At(r, e, q)
<1> DEFINE S2 == {a, b}  S3 == {a, b, c}  S4 == {a, b, c, d}  S5 == {a, b, c, d, e}
<1>1. /\ IsFiniteSet(S2) => Extends(S3, S2, c)
      /\ IsFiniteSet(S3) => Extends(S4, S3, d)
      /\ IsFiniteSet(S4) => Extends(S5, S4, e)
      /\ S = S4 /\ T = S5 /\ a # b
  BY DEF Extends, Lists
<1>2. IsFiniteSet(S2) /\ CountOf(r, S2, q) = At(r, a, q) + At(r, b, q)
  BY <1>1, CountTwo
<1> HIDE DEF S2, S3, S4, S5
<1>3. IsFiniteSet(S3) /\ CountOf(r, S3, q) = CountOf(r, S2, q) + At(r, c, q)
  BY <1>1, <1>2, CountField
<1>4. IsFiniteSet(S4) /\ CountOf(r, S4, q) = CountOf(r, S3, q) + At(r, d, q)
  BY <1>1, <1>3, CountField
<1>5. CountOf(r, S5, q) = CountOf(r, S4, q) + At(r, e, q)
  BY <1>1, <1>4, CountField
<1>6. QED
  BY <1>1, <1>2, <1>3, <1>4, <1>5

-----------------------------------------------------------------------------
(* Objects, and where pointers are.                                        *)

(* An object is a kind and a slot, and is not NULL. *)
LEMMA ObjectsAre ==
  /\ \A o \in Objects : o[1] \in Kinds \cup {"swapImage"} /\ o = <<o[1], o[2]>> /\ o # Null
  /\ \A k \in Kinds : \A i \in 1..Capacity[k] : <<k, i>> \in Pooled /\ <<k, i>> \in Objects
  /\ \A n \in 1..Capacity["swapchain"] :
       <<"swapImage", n>> \in Objects /\ <<"swapImage", n>> \notin Pooled
  /\ Pooled \subseteq Objects
  /\ \A o \in Objects : o[1] = "swapchain" => o[2] \in 1..Capacity["swapchain"]
  /\ \A o \in Objects : o[1] = "swapImage" => o[2] \in 1..Capacity["swapchain"]
BY DEF Objects, Pooled, Kinds, Null

(* A spot is a field of an object. *)
LEMMA SpotsAre ==
  /\ \A s \in Spots : s[1] \in Objects /\ s[2] \in Fields(s[1][1]) /\ s = <<s[1], s[2]>>
  /\ \A o \in Objects : \A f \in Fields(o[1]) : <<o, f>> \in Spots
BY DEF Spots

(* Between two calls no pointer is about to be overwritten. *)
LEMMA IdlePointers ==
  ASSUME NEW r, NEW o
  PROVE  Pointers(r, << >>, o) = {s \in Spots : r[s[1]][s[2]] = o}
BY DEF Pointers, Overwritten

(* What the application holds is live. *)
LEMMA HeldIsLive ==
  ASSUME IInv, NEW o \in held
  PROVE  o \in Objects /\ refcnt[o] \in Nat \ {0}
<1>1. o \in Objects
  BY ObjectsAre DEF IInv, Typed
<1>2. refcnt[o] = Cardinality(Pointers(refs, todo, o)) + Dues(todo, o) + 1
  BY <1>1 DEF IInv, CountsMidCall, Once
<1>3. QED
  BY <1>1, <1>2, PointersType, DuesType DEF IInv, Typed

(* So is what is pointed to, if the pointer is not about to be overwritten. *)
LEMMA PointedIsLive ==
  ASSUME IInv, NEW o \in Objects, NEW f \in Fields(o[1]),
         refs[o][f] # Null, ~ Overwritten(todo, o, f)
  PROVE  refs[o][f] \in Objects /\ refcnt[refs[o][f]] \in Nat \ {0}
<1> DEFINE q == refs[o][f]
<1>1. q \in Objects
  BY DEF IInv, Typed, Targets
<1>2. <<o, f>> \in Pointers(refs, todo, q)
  BY SpotsAre DEF Pointers
<1>3. Cardinality(Pointers(refs, todo, q)) \in Nat \ {0}
  BY <1>2, PointersType, FS_EmptySet
<1>4. Dues(todo, q) \in Nat /\ Once(q, held) \in Nat
  BY DuesType DEF Once, IInv, Typed
<1> HIDE DEF q
<1>5. refcnt[q] = Cardinality(Pointers(refs, todo, q)) + Dues(todo, q) + Once(q, held)
  BY <1>1 DEF IInv, CountsMidCall
<1>6. QED
  BY <1>1, <1>3, <1>4, <1>5 DEF q

(* An object whose count is 0 has no handle and no pointer to it. *)
LEMMA FreeIsForgotten ==
  ASSUME IInv, NEW o \in Objects, refcnt[o] = 0
  PROVE  /\ o \notin held /\ Dues(todo, o) = 0 /\ Pointers(refs, todo, o) = {}
         /\ Cardinality(Pointers(refs, todo, o)) = 0
<1>1. Cardinality(Pointers(refs, todo, o)) \in Nat /\ Dues(todo, o) \in Nat
  BY PointersType, DuesType DEF IInv, Typed
<1>2. 0 = Cardinality(Pointers(refs, todo, o)) + Dues(todo, o) + Once(o, held)
  BY DEF IInv, CountsMidCall
<1>3. Once(o, held) = 0 /\ Dues(todo, o) = 0 /\ Cardinality(Pointers(refs, todo, o)) = 0
  BY <1>1, <1>2 DEF Once
<1>4. QED
  BY <1>3, PointersType, FS_EmptySet DEF Once

-----------------------------------------------------------------------------
(* The invariant holds at the start, and every call preserves it.          *)

(* No object lives at the start. *)
LEMMA InitIInv == Init => IInv
<1> SUFFICES ASSUME Init PROVE IInv
  OBVIOUS
<1>1. \A o \in Objects : refs[o] = NoRefs(o[1]) /\ o[1] \in Kinds \cup {"swapImage"}
  BY ObjectsAre DEF Init
<1>2. \A o \in Objects : refs[o] \in [Fields(o[1]) -> Targets] /\ \A f \in Fields(o[1]) : refs[o][f] = Null
  BY <1>1, NoRefsIsNull
<1>3. Typed
  <2>1. refcnt \in [Objects -> Nat] /\ DOMAIN refs = Objects
    BY DEF Init
  <2>2. /\ next_free_slot \in [Kinds -> Nat]
        /\ \A k \in Kinds : next_free_slot[k] \in 1..Capacity[k]
    BY CapacityAssumption DEF Init
  <2>3. held \subseteq Pooled /\ todo \in Seq(Steps) /\ fault \in {"none"}
    BY DEF Init
  <2>4. QED
    BY <1>2, <2>1, <2>2, <2>3 DEF Typed
<1>4. CountsMidCall
  <2> SUFFICES ASSUME NEW o \in Objects
               PROVE  refcnt[o] = Cardinality(Pointers(refs, todo, o)) + Dues(todo, o) + Once(o, held)
    BY DEF CountsMidCall
  <2>1. Pointers(refs, todo, o) = {}
    BY <1>2, ObjectsAre, SpotsAre DEF Pointers
  <2>2. Dues(todo, o) = 0 /\ Once(o, held) = 0
    BY DuesEmpty DEF Init, Once
  <2>3. QED
    <3>1. Cardinality(Pointers(refs, todo, o)) = 0
      BY <2>1, FS_EmptySet
    <3>2. refcnt[o] = 0
      BY DEF Init
    <3>3. QED
      BY <2>2, <3>1, <3>2
<1>5. FreeIsBlank /\ Downward
  BY <1>2 DEF FreeIsBlank, Downward
<1>6. SwapchainWhole
  BY ObjectsAre DEF Init, SwapchainWhole, Kinds
<1>7. StoresHeld /\ StoresDiffer /\ SwapchainGoes
  BY DEF Init, StoresHeld, StoresDiffer, SwapchainGoes
<1>8. QED
  BY <1>3, <1>4, <1>5, <1>6, <1>7 DEF IInv

(* A call that finds a pool full changes nothing but that the driver dies. *)
LEMMA PoolFullPreserves ==
  ASSUME IInv, NEW kind \in Kinds, PoolFull(kind)
  PROVE  IInv'
BY DEF PoolFull, IInv, Typed, CountsMidCall, FreeIsBlank, Downward, SwapchainWhole, StoresHeld,
       StoresDiffer, SwapchainGoes

(* A new object raises the counts of what it points to. *)
LEMMA CreatePreserves ==
  ASSUME IInv, NEW kind \in Kinds, kind # "swapchain",
         NEW pointers \in [Fields(kind) -> Targets],
         \A f \in Fields(kind) : pointers[f] # Null =>
           refcnt[pointers[f]] # 0 /\ Depth(pointers[f][1]) > Depth(kind),
         Create(kind, pointers)
  PROVE  IInv'
<1>1. CASE PoolFull(kind)
  BY <1>1, PoolFullPreserves
<1>2. CASE ~ PoolFull(kind)
  <2> DEFINE o == <<kind, FoundSlot(kind)>>
             new(q) == {f \in Fields(kind) : pointers[f] = q}
  <2>1. /\ FreeSlots(kind, 1) # {} /\ todo = << >> /\ fault = "none"
        /\ refcnt' = [p \in Objects |-> IF p = o THEN 1 ELSE refcnt[p] + PointersTo(pointers, p)]
        /\ refs' = [refs EXCEPT ![o] = pointers]
        /\ next_free_slot' = [next_free_slot EXCEPT ![kind] = o[2]]
        /\ held' = held \cup {o} /\ todo' = todo /\ fault' = fault
    BY <1>2 DEF Create, Idle
  <2>2. FoundSlot(kind) \in 1..Capacity[kind] /\ refcnt[o] = 0
    BY <2>1, FoundSlotIsFree DEF IInv
  <2>3. o \in Objects /\ o \in Pooled /\ o[1] = kind /\ o[2] = FoundSlot(kind)
    BY <2>2, ObjectsAre
  <2>4. /\ o \notin held /\ Pointers(refs, << >>, o) = {}
        /\ \A f \in Fields(kind) : refs[o][f] = Null /\ pointers[f] # o
    BY <2>1, <2>2, <2>3, FreeIsForgotten, ObjectsAre DEF IInv, FreeIsBlank
  <2>5. \A q : IsFiniteSet(new(q)) /\ PointersTo(pointers, q) = Cardinality(new(q))
               /\ Cardinality(new(q)) \in Nat
    <3> TAKE q
    <3>1. IsFiniteSet(new(q))
      BY FieldsFinite, FS_Subset
    <3>2. QED
      BY <3>1, FS_CardinalityType DEF PointersTo
  <2>6. \A q \in Objects : refcnt[q] = 0 => PointersTo(pointers, q) = 0
    <3> SUFFICES ASSUME NEW q \in Objects, refcnt[q] = 0 PROVE PointersTo(pointers, q) = 0
      OBVIOUS
    <3>1. new(q) = {}
      BY ObjectsAre
    <3>2. QED
      BY <2>5, <3>1, FS_EmptySet
  <2> HIDE DEF o, new
  <2>7. \A p \in Objects : refs'[p] = IF p = o THEN pointers ELSE refs[p]
    BY <2>1, <2>3 DEF IInv, Typed
  <2>8. Typed'
    <3>1. refcnt' \in [Objects -> Nat]
      BY <2>1, <2>5 DEF IInv, Typed
    <3>2. /\ DOMAIN refs' = Objects
          /\ \A p \in Objects : refs'[p] \in [Fields(p[1]) -> Targets]
      BY <2>1, <2>3, <2>7 DEF IInv, Typed
    <3>3. /\ next_free_slot' \in [Kinds -> Nat]
          /\ \A k \in Kinds : next_free_slot'[k] \in 1..Capacity[k]
      BY <2>1, <2>2, <2>3, CapacityAssumption DEF IInv, Typed
    <3>4. QED
      BY <2>1, <2>3, <3>1, <3>2, <3>3 DEF IInv, Typed
  <2>9. CountsMidCall'
    <3> SUFFICES ASSUME NEW q \in Objects
                 PROVE  refcnt'[q] = Cardinality(Pointers(refs', todo', q)) + Dues(todo', q)
                                       + Once(q, held')
      BY DEF CountsMidCall
    <3>1. Pointers(refs', << >>, q) = Pointers(refs, << >>, q) \cup ({o} \X new(q))
      BY <2>3, <2>4, <2>7, IdlePointers, SpotsAre, ObjectsAre DEF new
    <3>2. Pointers(refs, << >>, q) \cap ({o} \X new(q)) = {}
      BY <2>3, <2>4, IdlePointers, ObjectsAre DEF new
    <3>3. IsFiniteSet({o} \X new(q)) /\ Cardinality({o} \X new(q)) = Cardinality(new(q))
      BY <2>5, OwnPointers
    <3>4. Cardinality(Pointers(refs', << >>, q))
            = Cardinality(Pointers(refs, << >>, q)) + PointersTo(pointers, q)
      BY <2>5, <3>1, <3>2, <3>3, PointersType, CardinalityOfSum
    <3>5. refcnt[q] = Cardinality(Pointers(refs, << >>, q)) + 0 + Once(q, held)
      BY <2>1, DuesEmpty DEF IInv, CountsMidCall
    <3>6. Cardinality(Pointers(refs, << >>, q)) \in Nat /\ Dues(<< >>, q) = 0
      BY PointersType, DuesEmpty
    <3>7. CASE q = o
      <4>1. Cardinality(Pointers(refs, << >>, q)) = 0 /\ PointersTo(pointers, q) = 0
        BY <2>2, <2>3, <2>4, <2>6, <3>7, FS_EmptySet DEF o
      <4>2. QED
        BY <2>1, <2>3, <3>4, <3>6, <3>7, <4>1 DEF Once
    <3>8. CASE q # o
      BY <2>1, <2>5, <3>4, <3>5, <3>6, <3>8 DEF Once
    <3>9. QED
      BY <3>7, <3>8
  <2>10. FreeIsBlank'
    BY <2>1, <2>5, <2>7 DEF IInv, Typed, FreeIsBlank
  <2>11. Downward'
    BY <2>3, <2>7 DEF IInv, Downward
  <2>12. SwapchainWhole'
    <3> SUFFICES ASSUME NEW n \in 1..Capacity["swapchain"]
                 PROVE  LET chain == <<"swapchain", n>>  image == <<"swapImage", n>>
                        IN  /\ refcnt'[chain] = 0 <=> refcnt'[image] = 0
                            /\ refcnt'[chain] # 0 =>
                                 refs'[chain].images = image /\ refs'[chain].surface # image
      BY DEF SwapchainWhole
    <3> DEFINE chain == <<"swapchain", n>>
               image == <<"swapImage", n>>
    <3>1. chain \in Objects /\ image \in Objects /\ chain # o /\ image # o
      BY <2>3, ObjectsAre DEF Kinds, o
    <3>2. /\ refcnt[chain] = 0 <=> refcnt[image] = 0
          /\ refcnt[chain] # 0 => refs[chain].images = image /\ refs[chain].surface # image
      BY DEF IInv, SwapchainWhole
    <3>3. refcnt[chain] \in Nat /\ refcnt[image] \in Nat
      BY <3>1 DEF IInv, Typed
    <3> HIDE DEF chain, image
    <3>4. refcnt'[chain] = 0 <=> refcnt'[image] = 0
      BY <2>1, <2>5, <2>6, <3>1, <3>2, <3>3
    <3>5. refcnt'[chain] # 0 => refcnt[chain] # 0
      BY <2>1, <2>6, <3>1
    <3>6. QED
      BY <2>7, <3>1, <3>2, <3>4, <3>5 DEF chain, image
  <2>13. StoresHeld' /\ StoresDiffer' /\ SwapchainGoes'
    BY <2>1 DEF StoresHeld, StoresDiffer, SwapchainGoes
  <2>14. QED
    BY <2>8, <2>9, <2>10, <2>11, <2>12, <2>13 DEF IInv
<1>3. QED
  BY <1>1, <1>2

(* The images of a swapchain the application holds are live. *)
LEMMA SwapImagesLive ==
  ASSUME IInv, NEW i \in SwapImages
  PROVE  i \in Objects /\ i[1] = "swapImage" /\ refcnt[i] \in Nat \ {0}
<1>1. PICK s \in Held("swapchain") : i = <<"swapImage", s[2]>>
  BY DEF SwapImages
<1>2. s \in Objects /\ s = <<"swapchain", s[2]>> /\ s[2] \in 1..Capacity["swapchain"]
      /\ refcnt[s] # 0
  BY <1>1, HeldIsLive, ObjectsAre DEF Held
<1>3. refcnt[<<"swapchain", s[2]>>] = 0 <=> refcnt[<<"swapImage", s[2]>>] = 0
  BY <1>2 DEF IInv, SwapchainWhole
<1>4. i \in Objects
  BY <1>1, <1>2, ObjectsAre
<1>5. QED
  BY <1>1, <1>2, <1>3, <1>4 DEF IInv, Typed

(* What a handle of one kind stands for, as a pointer to store. *)
LEMMA HandleAsPointer ==
  ASSUME IInv, NEW kind, NEW o \in Held(kind)
  PROVE  o \in Targets /\ o # Null /\ o \in Objects /\ refcnt[o] # 0 /\ o[1] = kind
BY HeldIsLive, ObjectsAre DEF Held, Targets

(* Every entry point that creates an object, but for swapchains. *)
LEMMA SimpleCreatesPreserve ==
  ASSUME IInv,
         \/ vkAllocateMemory \/ vkCreateBuffer \/ vkCreateImage \/ vkCreateSampler
         \/ vkCreateShaderModule \/ vkCreateRenderPass \/ vkCreateDescriptorSetLayout
         \/ vkCreateDescriptorPool \/ vkCreateXcbSurfaceKHR \/ vkCreateBufferView
         \/ vkCreateImageView \/ vkCreatePipelineLayout \/ vkCreateFramebuffer
         \/ vkCreateGraphicsPipelines \/ vkAllocateDescriptorSets
  PROVE  IInv'
<1>1. ASSUME NEW kind \in {"memory", "sampler", "shader", "renderPass", "setLayout", "pool",
                           "surface"},
             Create(kind, << >>)
      PROVE  IInv'
  <2>1. << >> \in [Fields(kind) -> Targets] /\ Fields(kind) = {}
    BY FieldsOf
  <2>2. kind \in Kinds /\ kind # "swapchain"
    BY DEF Kinds
  <2>3. QED
    BY <1>1, <2>1, <2>2, CreatePreserves
<1>2. ASSUME NEW kind \in {"buffer", "image"}, Create(kind, [mem |-> Null])
      PROVE  IInv'
  <2>1. [mem |-> Null] \in [Fields(kind) -> Targets]
    BY FieldsOf DEF Targets
  <2>2. kind \in Kinds /\ kind # "swapchain" /\ \A f \in Fields(kind) : [mem |-> Null][f] = Null
    BY FieldsOf DEF Kinds
  <2>3. QED
    BY <1>2, <2>1, <2>2, CreatePreserves
<1>3. CASE vkCreateBufferView
  <2>1. PICK b \in Held("buffer") : Create("bufferView", [buf |-> b])
    BY <1>3 DEF vkCreateBufferView
  <2>2. b \in Targets /\ refcnt[b] # 0 /\ b[1] = "buffer"
    BY <2>1, HandleAsPointer
  <2>3. [buf |-> b] \in [Fields("bufferView") -> Targets]
    BY <2>2, FieldsOf
  <2>4. \A f \in Fields("bufferView") : [buf |-> b][f] = b
    BY FieldsOf
  <2>5. "bufferView" \in Kinds /\ Depth("buffer") > Depth("bufferView")
    BY DEF Kinds, Depth
  <2>6. QED
    BY <2>1, <2>2, <2>3, <2>4, <2>5, CreatePreserves
<1>4. CASE vkCreateImageView
  <2>1. PICK i \in Held("image") \cup SwapImages : Create("imageView", [img |-> i])
    BY <1>4 DEF vkCreateImageView
  <2>2. i \in Targets /\ refcnt[i] # 0 /\ i[1] \in {"image", "swapImage"}
    BY <2>1, HandleAsPointer, SwapImagesLive DEF Targets
  <2>3. [img |-> i] \in [Fields("imageView") -> Targets]
    BY <2>2, FieldsOf
  <2>4. \A f \in Fields("imageView") : [img |-> i][f] = i
    BY FieldsOf
  <2>5. "imageView" \in Kinds /\ Depth("image") > Depth("imageView")
        /\ Depth("swapImage") > Depth("imageView")
    BY DEF Kinds, Depth
  <2>6. QED
    BY <2>1, <2>2, <2>3, <2>4, <2>5, CreatePreserves
<1>5. CASE vkCreatePipelineLayout
  <2>1. PICK l \in Held("setLayout") : Create("pipelineLayout", [pSetLayouts |-> l])
    BY <1>5 DEF vkCreatePipelineLayout
  <2>2. l \in Targets /\ refcnt[l] # 0 /\ l[1] = "setLayout"
    BY <2>1, HandleAsPointer
  <2>3. [pSetLayouts |-> l] \in [Fields("pipelineLayout") -> Targets]
    BY <2>2, FieldsOf
  <2>4. \A f \in Fields("pipelineLayout") : [pSetLayouts |-> l][f] = l
    BY FieldsOf
  <2>5. "pipelineLayout" \in Kinds /\ Depth("setLayout") > Depth("pipelineLayout")
    BY DEF Kinds, Depth
  <2>6. QED
    BY <2>1, <2>2, <2>3, <2>4, <2>5, CreatePreserves
<1>6. CASE vkCreateFramebuffer
  <2>1. PICK v \in Held("imageView"), r \in Held("renderPass") :
          Create("framebuffer", [pAttachments |-> v, renderPass |-> r])
    BY <1>6 DEF vkCreateFramebuffer
  <2>2. /\ v \in Targets /\ refcnt[v] # 0 /\ v[1] = "imageView"
        /\ r \in Targets /\ refcnt[r] # 0 /\ r[1] = "renderPass"
    BY <2>1, HandleAsPointer
  <2> DEFINE p == [pAttachments |-> v, renderPass |-> r]
  <2>3. p \in [Fields("framebuffer") -> Targets]
    BY <2>2, FieldsOf
  <2>4. \A f \in Fields("framebuffer") : p[f] \in {v, r}
    BY FieldsOf
  <2>5. "framebuffer" \in Kinds /\ Depth("imageView") > Depth("framebuffer")
        /\ Depth("renderPass") > Depth("framebuffer")
    BY DEF Kinds, Depth
  <2> HIDE DEF p
  <2>6. QED
    BY <2>1, <2>2, <2>3, <2>4, <2>5, CreatePreserves DEF p
<1>7. CASE vkCreateGraphicsPipelines
  <2>1. PICK vs \in Held("shader"), ps \in Held("shader") \cup {Null},
             l \in Held("pipelineLayout"), r \in Held("renderPass") :
          Create("pipeline", [vs |-> vs, ps |-> ps, layout |-> l, renderPass |-> r])
    BY <1>7 DEF vkCreateGraphicsPipelines
  <2>2. /\ vs \in Targets /\ refcnt[vs] # 0 /\ vs[1] = "shader"
        /\ ps \in Targets /\ (ps # Null => refcnt[ps] # 0 /\ ps[1] = "shader")
        /\ l \in Targets /\ refcnt[l] # 0 /\ l[1] = "pipelineLayout"
        /\ r \in Targets /\ refcnt[r] # 0 /\ r[1] = "renderPass"
    BY <2>1, HandleAsPointer DEF Targets
  <2> DEFINE p == [vs |-> vs, ps |-> ps, layout |-> l, renderPass |-> r]
  <2>3. p \in [Fields("pipeline") -> Targets]
    BY <2>2, FieldsOf
  <2>4. \A f \in Fields("pipeline") : p[f] \in {vs, ps, l, r}
    BY FieldsOf
  <2>5. "pipeline" \in Kinds /\ Depth("shader") > Depth("pipeline")
        /\ Depth("pipelineLayout") > Depth("pipeline") /\ Depth("renderPass") > Depth("pipeline")
    BY DEF Kinds, Depth
  <2> HIDE DEF p
  <2>6. QED
    BY <2>1, <2>2, <2>3, <2>4, <2>5, CreatePreserves DEF p
<1>8. CASE vkAllocateDescriptorSets
  <2>1. PICK p \in Held("pool"), l \in Held("setLayout") :
          Create("set", [NoRefs("set") EXCEPT !.pool = p, !.layout = l])
    BY <1>8 DEF vkAllocateDescriptorSets
  <2>2. /\ p \in Targets /\ refcnt[p] # 0 /\ p[1] = "pool"
        /\ l \in Targets /\ refcnt[l] # 0 /\ l[1] = "setLayout"
    BY <2>1, HandleAsPointer
  <2> DEFINE s == [NoRefs("set") EXCEPT !.pool = p, !.layout = l]
  <2>3. "set" \in Kinds /\ Depth("setLayout") > Depth("set") /\ Depth("pool") > Depth("set")
    BY DEF Kinds, Depth
  <2>4. NoRefs("set") \in [Fields("set") -> Targets]
        /\ \A f \in Fields("set") : NoRefs("set")[f] = Null
    BY <2>3, NoRefsIsNull
  <2>5. s \in [Fields("set") -> Targets] /\ \A f \in Fields("set") : s[f] \in {p, l, Null}
    BY <2>2, <2>4
  <2> HIDE DEF s
  <2>6. QED
    BY <2>1, <2>2, <2>3, <2>5, CreatePreserves DEF s
<1>9. QED
  BY <1>1, <1>2, <1>3, <1>4, <1>5, <1>6, <1>7, <1>8
  DEF vkAllocateMemory, vkCreateBuffer, vkCreateImage, vkCreateSampler, vkCreateShaderModule,
      vkCreateRenderPass, vkCreateDescriptorSetLayout, vkCreateDescriptorPool,
      vkCreateXcbSurfaceKHR

(* A new swapchain takes three slots: its own, its images', their memory's. *)
LEMMA SwapchainPreserves ==
  ASSUME IInv, vkCreateSwapchainKHR
  PROVE  IInv'
<1>1. PICK surface \in Held("surface") :
        \/ PoolFull("swapchain")
        \/ PoolFull("memory")
        \/ LET o     == <<"swapchain", FoundSlot("swapchain")>>
               image == <<"swapImage", o[2]>>
               mem   == <<"memory", FoundSlot("memory")>>
           IN /\ FreeSlots("swapchain", 1) # {} /\ FreeSlots("memory", 1) # {}
              /\ todo = << >>
              /\ refcnt' = [p \in Objects |->
                              IF p \in {o, image, mem} THEN 1
                              ELSE IF p = surface THEN refcnt[p] + 1 ELSE refcnt[p]]
              /\ refs' = [refs EXCEPT ![o] = [surface |-> surface, images |-> image],
                                      ![image] = [mem |-> mem]]
              /\ next_free_slot' = [next_free_slot EXCEPT !["swapchain"] = o[2],
                                                          !["memory"] = mem[2]]
              /\ held' = held \cup {o}
              /\ UNCHANGED <<todo, fault>>
  BY DEF vkCreateSwapchainKHR, Idle
<1>2. CASE PoolFull("swapchain") \/ PoolFull("memory")
  BY <1>2, PoolFullPreserves DEF Kinds
<1>3. CASE ~ (PoolFull("swapchain") \/ PoolFull("memory"))
  <2> DEFINE n     == FoundSlot("swapchain")
             m     == FoundSlot("memory")
             o     == <<"swapchain", n>>
             image == <<"swapImage", n>>
             mem   == <<"memory", m>>
  <2>1. /\ FreeSlots("swapchain", 1) # {} /\ FreeSlots("memory", 1) # {}
        /\ todo = << >> /\ todo' = << >> /\ fault' = fault
        /\ refcnt' = [p \in Objects |->
                        IF p \in {o, image, mem} THEN 1
                        ELSE IF p = surface THEN refcnt[p] + 1 ELSE refcnt[p]]
        /\ refs' = [refs EXCEPT ![o] = [surface |-> surface, images |-> image],
                                ![image] = [mem |-> mem]]
        /\ next_free_slot' = [next_free_slot EXCEPT !["swapchain"] = n, !["memory"] = m]
        /\ held' = held \cup {o}
    BY <1>1, <1>3
  <2>2. n \in 1..Capacity["swapchain"] /\ m \in 1..Capacity["memory"]
        /\ refcnt[o] = 0 /\ refcnt[mem] = 0
    BY <2>1, FoundSlotIsFree DEF IInv, Kinds
  <2>3. /\ o \in Objects /\ image \in Objects /\ mem \in Objects /\ o \in Pooled
        /\ o # image /\ o # mem /\ image # mem
        /\ surface \in Objects /\ surface # o /\ surface # image /\ surface # mem
        /\ surface[1] = "surface" /\ refcnt[surface] # 0
    BY <1>1, <2>2, ObjectsAre, HandleAsPointer DEF Kinds
  <2>4. refcnt[image] = 0
    BY <2>2 DEF IInv, SwapchainWhole
  <2>5. \A q \in {o, image, mem} :
          /\ q \in Objects /\ refcnt[q] = 0 /\ q \notin held /\ Pointers(refs, << >>, q) = {}
          /\ \A f \in Fields(q[1]) : refs[q][f] = Null
    BY <2>1, <2>2, <2>3, <2>4, FreeIsForgotten DEF IInv, FreeIsBlank
  <2>6. /\ o[1] = "swapchain" /\ image[1] = "swapImage" /\ mem[1] = "memory"
        /\ Fields("swapchain") = {"surface", "images"} /\ Fields("swapImage") = {"mem"}
        /\ Fields("memory") = {}
    BY FieldsOf
  <2> HIDE DEF o, image, mem
  <2>7. \A p \in Objects : refs'[p] = IF p = o THEN [surface |-> surface, images |-> image]
                                      ELSE IF p = image THEN [mem |-> mem] ELSE refs[p]
    BY <2>1, <2>3 DEF IInv, Typed
  <2>8. Typed'
    <3>1. refcnt' \in [Objects -> Nat]
      BY <2>1 DEF IInv, Typed
    <3>2. /\ DOMAIN refs' = Objects
          /\ \A p \in Objects : refs'[p] \in [Fields(p[1]) -> Targets]
      <4>1. [surface |-> surface, images |-> image] \in [{"surface", "images"} -> Targets]
            /\ [mem |-> mem] \in [{"mem"} -> Targets]
        BY <2>3 DEF Targets
      <4>2. QED
        BY <2>1, <2>3, <2>6, <2>7, <4>1 DEF IInv, Typed
    <3>3. /\ next_free_slot' \in [Kinds -> Nat]
          /\ \A k \in Kinds : next_free_slot'[k] \in 1..Capacity[k]
      <4>1. "swapchain" \in Kinds /\ "memory" \in Kinds
        BY DEF Kinds
      <4>2. n \in Nat /\ m \in Nat
        BY <2>2, <4>1, CapacityAssumption
      <4>3. /\ next_free_slot \in [Kinds -> Nat]
            /\ \A k \in Kinds : next_free_slot[k] \in 1..Capacity[k]
        BY DEF IInv, Typed
      <4> HIDE DEF n, m
      <4>4. \A k \in Kinds : next_free_slot'[k] = IF k = "memory" THEN m ELSE
                                IF k = "swapchain" THEN n ELSE next_free_slot[k]
        BY <2>1, <4>1, <4>3
      <4>5. next_free_slot' \in [Kinds -> Nat]
        BY <2>1, <4>1, <4>2, <4>3
      <4>6. QED
        BY <2>2, <4>3, <4>4, <4>5
    <3>4. QED
      BY <2>1, <2>3, <3>1, <3>2, <3>3 DEF IInv, Typed
  <2>9. CountsMidCall'
    <3> SUFFICES ASSUME NEW q \in Objects
                 PROVE  refcnt'[q] = Cardinality(Pointers(refs', << >>, q)) + Once(q, held')
      <4>1. ASSUME NEW p \in Objects
            PROVE  /\ Dues(todo', p) = 0 /\ Pointers(refs', todo', p) = Pointers(refs', << >>, p)
                   /\ Cardinality(Pointers(refs', << >>, p)) \in Nat /\ Once(p, held') \in Nat
        BY <2>1, DuesEmpty, PointersType DEF Once
      <4>2. QED
        BY <4>1 DEF CountsMidCall
    <3>1. /\ refcnt[q] = Cardinality(Pointers(refs, << >>, q)) + Once(q, held)
          /\ Cardinality(Pointers(refs, << >>, q)) \in Nat
      BY <2>1, DuesEmpty, PointersType DEF IInv, CountsMidCall, Once
    <3>2. Pointers(refs', << >>, q) = Pointers(refs, << >>, q) \cup
            (IF q = surface THEN {<<o, "surface">>} ELSE IF q = image THEN {<<o, "images">>}
             ELSE IF q = mem THEN {<<image, "mem">>} ELSE {})
      <4>1. \A s \in Spots : refs[s[1]][s[2]] = q => s[1] # o /\ s[1] # image
        BY <2>5, SpotsAre, ObjectsAre
      <4>2. \A s \in Spots : refs'[s[1]][s[2]] = q <=>
              \/ s[1] # o /\ s[1] # image /\ refs[s[1]][s[2]] = q
              \/ s = <<o, "surface">> /\ q = surface
              \/ s = <<o, "images">> /\ q = image
              \/ s = <<image, "mem">> /\ q = mem
        BY <2>3, <2>6, <2>7, SpotsAre
      <4>3. <<o, "surface">> \in Spots /\ <<o, "images">> \in Spots /\ <<image, "mem">> \in Spots
        BY <2>3, <2>6, SpotsAre
      <4>4. \A s : s \in Pointers(refs', << >>, q) <=>
              \/ s \in Pointers(refs, << >>, q)
              \/ s = <<o, "surface">> /\ q = surface
              \/ s = <<o, "images">> /\ q = image
              \/ s = <<image, "mem">> /\ q = mem
        BY <4>1, <4>2, <4>3, IdlePointers
      <4>5. QED
        BY <2>3, <4>4
    <3>3. <<o, "surface">> \notin Pointers(refs, << >>, surface)
      BY <2>3, <2>5, <2>6, IdlePointers, ObjectsAre
    <3>4. CASE q = surface
      <4>1. Pointers(refs', << >>, q) = Pointers(refs, << >>, q) \cup {<<o, "surface">>}
        BY <3>2, <3>4
      <4>2. Cardinality(Pointers(refs', << >>, q)) = Cardinality(Pointers(refs, << >>, q)) + 1
        BY <3>3, <3>4, <4>1, PointersType, FS_AddElement
      <4>3. Once(q, held') = Once(q, held) /\ refcnt'[q] = refcnt[q] + 1
        BY <2>1, <2>3, <3>4 DEF Once
      <4>4. QED
        BY <3>1, <4>2, <4>3 DEF Once
    <3>5. CASE q \in {image, mem}
      <4>1. \E s : Pointers(refs', << >>, q) = {s}
        BY <2>3, <2>5, <3>2, <3>5
      <4>2. Cardinality(Pointers(refs', << >>, q)) = 1
        BY <4>1, FS_Singleton
      <4>3. QED
        BY <2>1, <2>3, <2>5, <3>5, <4>2 DEF Once
    <3>6. CASE q = o
      <4>1. Pointers(refs', << >>, q) = {}
        BY <2>3, <2>5, <3>2, <3>6
      <4>2. Cardinality(Pointers(refs', << >>, q)) = 0
        BY <4>1, FS_EmptySet
      <4>3. refcnt'[q] = 1 /\ Once(q, held') = 1
        BY <2>1, <3>6 DEF Once
      <4>4. QED
        BY <4>2, <4>3
    <3>7. CASE q \notin {surface, image, mem, o}
      <4>1. Pointers(refs', << >>, q) = Pointers(refs, << >>, q)
        BY <3>2, <3>7
      <4>2. QED
        BY <2>1, <3>1, <3>7, <4>1 DEF Once
    <3>8. QED
      BY <3>4, <3>5, <3>6, <3>7
  <2>10. FreeIsBlank'
    BY <2>1, <2>3, <2>7 DEF IInv, Typed, FreeIsBlank
  <2>11. Downward'
    <3>1. Depth("surface") > Depth("swapchain") /\ Depth("swapImage") > Depth("swapchain")
          /\ Depth("memory") > Depth("swapImage")
      BY DEF Depth
    <3>2. QED
      BY <2>3, <2>6, <2>7, <3>1 DEF IInv, Downward
  <2>12. SwapchainWhole'
    <3> SUFFICES ASSUME NEW i \in 1..Capacity["swapchain"]
                 PROVE  LET c == <<"swapchain", i>>  im == <<"swapImage", i>>
                        IN  /\ refcnt'[c] = 0 <=> refcnt'[im] = 0
                            /\ refcnt'[c] # 0 =>
                                 refs'[c].images = im /\ refs'[c].surface # im
      BY DEF SwapchainWhole
    <3> DEFINE c == <<"swapchain", i>>
               im == <<"swapImage", i>>
    <3>1. /\ c \in Objects /\ im \in Objects /\ c # mem /\ im # mem /\ c # image /\ im # o
          /\ c # surface /\ im # surface /\ (c = o <=> im = image)
      BY <2>3, ObjectsAre DEF o, image, mem
    <3>2. /\ refcnt[c] = 0 <=> refcnt[im] = 0
          /\ refcnt[c] # 0 => refs[c].images = im /\ refs[c].surface # im
      BY DEF IInv, SwapchainWhole
    <3> HIDE DEF c, im
    <3>3. CASE c = o
      <4>1. refcnt'[c] = 1 /\ refcnt'[im] = 1
        BY <2>1, <3>1, <3>3
      <4>2. refs'[c].images = im /\ refs'[c].surface # im
        BY <2>3, <2>7, <3>1, <3>3
      <4>3. QED
        BY <4>1, <4>2 DEF c, im
    <3>4. CASE c # o
      <4>1. refcnt'[c] = refcnt[c] /\ refcnt'[im] = refcnt[im] /\ refs'[c] = refs[c]
        BY <2>1, <2>7, <3>1, <3>4
      <4>2. QED
        BY <3>2, <4>1 DEF c, im
    <3>5. QED
      BY <3>3, <3>4
  <2>13. StoresHeld' /\ StoresDiffer' /\ SwapchainGoes'
    BY <2>1 DEF StoresHeld, StoresDiffer, SwapchainGoes
  <2>14. QED
    BY <2>8, <2>9, <2>10, <2>11, <2>12, <2>13 DEF IInv
<1>4. QED
  BY <1>2, <1>3

(* Binding memory to a buffer or an image that has none. *)
LEMMA BindPreserves ==
  ASSUME IInv, NEW kind \in {"buffer", "image"}, BindMemory(kind)
  PROVE  IInv'
<1>1. PICK b \in Held(kind), m \in Held("memory") :
        /\ refs[b].mem = Null
        /\ refs' = [refs EXCEPT ![b].mem = m]
        /\ refcnt' = [refcnt EXCEPT ![m] = @ + 1]
  BY DEF BindMemory
<1>2. todo = << >> /\ todo' = << >> /\ held' = held /\ fault' = fault
      /\ next_free_slot' = next_free_slot
  BY DEF BindMemory, Idle
<1>3. /\ b \in Objects /\ b[1] = kind /\ m \in Objects /\ m[1] = "memory" /\ m # Null
      /\ m \in Targets /\ refcnt[m] # 0 /\ refcnt[b] # 0 /\ b # m
  BY <1>1, HandleAsPointer
<1>4. Fields(b[1]) = {"mem"} /\ refs[b] \in [{"mem"} -> Targets]
  BY <1>3, FieldsOf DEF IInv, Typed
<1>5. /\ refs'[b] \in [{"mem"} -> Targets] /\ refs'[b]["mem"] = m
      /\ \A p \in Objects : p # b => refs'[p] = refs[p]
      /\ DOMAIN refs' = Objects
  BY <1>1, <1>3, <1>4 DEF IInv, Typed
<1>6. \A p \in Objects : refcnt'[p] = IF p = m THEN refcnt[p] + 1 ELSE refcnt[p]
  BY <1>1, <1>3 DEF IInv, Typed
<1>7. Typed'
  BY <1>1, <1>2, <1>3, <1>4, <1>5 DEF IInv, Typed
<1>8. CountsMidCall'
  <2> SUFFICES ASSUME NEW q \in Objects
               PROVE  refcnt'[q] = Cardinality(Pointers(refs', todo', q)) + Dues(todo', q)
                                     + Once(q, held')
    BY DEF CountsMidCall
  <2>1. refcnt[q] = Cardinality(Pointers(refs, << >>, q)) + Dues(<< >>, q) + Once(q, held)
    BY <1>2 DEF IInv, CountsMidCall
  <2>2. /\ Dues(<< >>, q) = 0 /\ Once(q, held) \in Nat
        /\ Cardinality(Pointers(refs, << >>, q)) \in Nat
    BY DuesEmpty, PointersType DEF Once
  <2>3. /\ Pointers(refs, << >>, q) \subseteq Spots /\ Pointers(refs', << >>, q) \subseteq Spots
        /\ <<b, "mem">> \in Spots /\ <<b, "mem">> \notin Pointers(refs, << >>, q)
    BY <1>1, <1>3, <1>4, SpotsAre, IdlePointers, ObjectsAre
  <2>4. \A s \in Spots : s \in Pointers(refs', << >>, q) <=>
          s \in Pointers(refs, << >>, q) \/ (s = <<b, "mem">> /\ q = m)
    <3>1. \A s \in Spots : refs'[s[1]][s[2]] = q <=>
            refs[s[1]][s[2]] = q \/ (s = <<b, "mem">> /\ q = m)
      BY <1>1, <1>3, <1>4, <1>5, SpotsAre, ObjectsAre
    <3>2. QED
      BY <3>1, IdlePointers
  <2>5. Cardinality(Pointers(refs', << >>, q))
          = Cardinality(Pointers(refs, << >>, q)) + (IF q = m THEN 1 ELSE 0)
    <3>1. CASE q = m
      <4>1. Pointers(refs', << >>, q) = Pointers(refs, << >>, q) \cup {<<b, "mem">>}
        BY <2>3, <2>4, <3>1
      <4>2. IsFiniteSet(Pointers(refs, << >>, q))
        BY PointersType
      <4>3. Cardinality(Pointers(refs, << >>, q) \cup {<<b, "mem">>})
              = Cardinality(Pointers(refs, << >>, q)) + 1
        BY <2>3, <4>2, FS_AddElement
      <4>4. QED
        BY <3>1, <4>1, <4>3
    <3>2. CASE q # m
      <4>1. Pointers(refs', << >>, q) = Pointers(refs, << >>, q)
        BY <2>3, <2>4, <3>2
      <4>2. QED
        BY <2>2, <3>2, <4>1
    <3>3. QED
      BY <3>1, <3>2
  <2>6. QED
    BY <1>2, <1>6, <2>1, <2>2, <2>5
<1>9. FreeIsBlank'
  BY <1>3, <1>5, <1>6 DEF IInv, Typed, FreeIsBlank
<1>10. Downward'
  <2>1. Depth("memory") > Depth("buffer") /\ Depth("memory") > Depth("image")
    BY DEF Depth
  <2>2. QED
    BY <1>3, <1>4, <1>5, <2>1 DEF IInv, Downward
<1>11. SwapchainWhole'
  <2>1. \A n \in 1..Capacity["swapchain"] :
          LET chain == <<"swapchain", n>>  image == <<"swapImage", n>>
          IN  /\ chain \in Objects /\ chain # m /\ chain # b
              /\ image \in Objects /\ image # m /\ image # b
    BY <1>3, ObjectsAre DEF Kinds
  <2>2. \A n \in 1..Capacity["swapchain"] :
          LET chain == <<"swapchain", n>>  image == <<"swapImage", n>>
          IN  refcnt'[chain] = refcnt[chain] /\ refcnt'[image] = refcnt[image]
              /\ refs'[chain] = refs[chain]
    BY <1>5, <1>6, <2>1
  <2>3. QED
    BY <2>2 DEF IInv, SwapchainWhole
<1>12. StoresHeld' /\ StoresDiffer' /\ SwapchainGoes'
  BY <1>2 DEF StoresHeld, StoresDiffer, SwapchainGoes
<1>13. QED
  BY <1>7, <1>8, <1>9, <1>10, <1>11, <1>12 DEF IInv

(* Giving up a handle: the release that follows is owed from then on. *)
LEMMA DestroyPreserves ==
  ASSUME IInv, NEW o \in held, Destroy(o, {o}),
         o[1] = "swapchain" => refcnt[refs[o].images] = 1
  PROVE  IInv'
<1>1. /\ todo = << >> /\ todo' = <<<<"release", o>>>> /\ held' = held \ {o}
      /\ refcnt' = refcnt /\ refs' = refs /\ next_free_slot' = next_free_slot /\ fault' = fault
  BY DEF Destroy, Idle
<1>2. o \in Objects /\ o # Null
  BY HeldIsLive, ObjectsAre
<1>3. Len(todo') = 1 /\ todo'[1] = <<"release", o>> /\ todo'[1][1] = "release" /\ todo'[1][2] = o
  BY <1>1
<1>4. Typed'
  <2>1. <<"release", o>> \in Steps
    BY <1>2 DEF Steps, Targets
  <2>2. todo' \in Seq(Steps)
    BY <1>1, <2>1
  <2>3. QED
    BY <1>1, <2>2 DEF IInv, Typed
<1>5. CountsMidCall'
  <2> SUFFICES ASSUME NEW q \in Objects
               PROVE  refcnt'[q] = Cardinality(Pointers(refs', todo', q)) + Dues(todo', q)
                                     + Once(q, held')
    BY DEF CountsMidCall
  <2>1. refcnt[q] = Cardinality(Pointers(refs, << >>, q)) + Dues(<< >>, q) + Once(q, held)
    BY <1>1 DEF IInv, CountsMidCall
  <2>2. /\ Dues(<< >>, q) = 0 /\ Cardinality(Pointers(refs, << >>, q)) \in Nat
    BY DuesEmpty, PointersType
  <2>3. Pointers(refs', todo', q) = Pointers(refs, << >>, q)
    BY <1>1, <1>3 DEF Pointers, Overwritten
  <2>4. Dues(todo', q) = IF q = o THEN 1 ELSE 0
    <3>1. Dues(<<<<"release", o>>>>, q) = IF <<"release", o>> = <<"release", q>> THEN 1 ELSE 0
      BY DuesOne
    <3>2. QED
      BY <1>1, <3>1
  <2>5. QED
    BY <1>1, <2>1, <2>2, <2>3, <2>4 DEF Once
<1>6. FreeIsBlank' /\ Downward' /\ SwapchainWhole'
  BY <1>1 DEF IInv, FreeIsBlank, Downward, SwapchainWhole
<1>7. StoresHeld' /\ StoresDiffer'
  BY <1>3 DEF StoresHeld, StoresDiffer
<1>8. SwapchainGoes'
  BY <1>1, <1>3 DEF SwapchainGoes
<1>9. QED
  BY <1>4, <1>5, <1>6, <1>7, <1>8 DEF IInv

(* Every entry point that destroys, for an orderly application. *)
LEMMA DestroyOnePreserves ==
  ASSUME IInv, Orderly, DestroyOne
  PROVE  IInv'
<1>1. ASSUME NEW kind \in Kinds, kind # "swapchain", DestroyAny(kind)
      PROVE  IInv'
  BY <1>1, DestroyPreserves DEF DestroyAny, Held
<1>2. CASE vkDestroyDescriptorPool
  <2>1. PICK p \in Held("pool") : SetsOf(p) = {} /\ Destroy(p, {p} \cup SetsOf(p))
    BY <1>2 DEF vkDestroyDescriptorPool
  <2>2. Destroy(p, {p}) /\ p \in held /\ p[1] = "pool"
    BY <2>1 DEF Held
  <2>3. QED
    BY <2>2, DestroyPreserves
<1>3. CASE vkResetDescriptorPool
  <2>1. PICK p \in Held("pool") : SetsOf(p) = {} /\ held' = held \ SetsOf(p)
    BY <1>3 DEF vkResetDescriptorPool
  <2>2. UNCHANGED vars
    BY <1>3, <2>1 DEF vkResetDescriptorPool, vars
  <2>3. QED
    BY <2>2 DEF vars, IInv, Typed, CountsMidCall, FreeIsBlank, Downward, SwapchainWhole,
                StoresHeld, StoresDiffer, SwapchainGoes
<1>4. CASE vkDestroySwapchainKHR
  <2>1. PICK s \in Held("swapchain") : refcnt[refs[s].images] = 1 /\ Destroy(s, {s})
    BY <1>4 DEF vkDestroySwapchainKHR
  <2>2. QED
    BY <2>1, DestroyPreserves DEF Held
<1>5. QED
  BY <1>1, <1>2, <1>3, <1>4
  DEF DestroyOne, Kinds, vkFreeMemory, vkDestroyBuffer, vkDestroyBufferView, vkDestroyImage,
      vkDestroyImageView, vkDestroySampler, vkDestroyShaderModule, vkDestroyRenderPass,
      vkDestroyFramebuffer, vkDestroyDescriptorSetLayout, vkFreeDescriptorSets,
      vkDestroyPipelineLayout, vkDestroyPipeline, vkDestroySurfaceKHR

-----------------------------------------------------------------------------
(* Overwriting descriptors.                                                *)

(* From when a descriptor is to be overwritten, the old pointer is owed as *)
(* a release and no longer counts as a pointer.                            *)
LEMMA OverwritePreserves ==
  ASSUME IInv, todo = << >>, NEW s \in Held("set"), NEW F \in SUBSET DescriptorFields,
         todo' \in Seq(Steps),
         \A i \in 1..Len(todo') : todo'[i][1] = "store" =>
           /\ todo'[i][2] = s /\ todo'[i][3] \in F
           /\ todo'[i][4] # Null => todo'[i][4] \in held /\ Depth(todo'[i][4][1]) > 0,
         \A f \in F : \E i \in 1..Len(todo') :
           todo'[i][1] = "store" /\ todo'[i][2] = s /\ todo'[i][3] = f,
         StoresDiffer',
         \A i \in 1..Len(todo') : todo'[i][1] = "release" => todo'[i][2][1] # "swapchain",
         \A q \in Objects : Dues(todo', q) = Cardinality({f \in F : refs[s][f] = q}),
         UNCHANGED <<refcnt, refs, next_free_slot, held, fault>>
  PROVE  IInv'
<1>1. s \in Objects /\ s[1] = "set" /\ s \in held
  BY HandleAsPointer DEF Held
<1>2. F \subseteq Fields(s[1]) /\ IsFiniteSet(F)
  <2>1. Fields("set") = {"buffer", "image_view", "sampler", "layout", "pool"}
    BY FieldsOf
  <2>2. F \subseteq Fields("set")
    BY <2>1 DEF DescriptorFields
  <2>3. "set" \in Kinds
    BY DEF Kinds
  <2>4. QED
    BY <1>1, <2>2, <2>3, FieldsFinite, FS_Subset
<1>3. Typed'
  BY DEF IInv, Typed
<1>4. CountsMidCall'
  <2> SUFFICES ASSUME NEW q \in Objects
               PROVE  refcnt[q] = Cardinality(Pointers(refs, todo', q)) + Dues(todo', q)
                                     + Once(q, held)
    BY DEF CountsMidCall
  <2> DEFINE old == {f \in F : refs[s][f] = q}
  <2>1. refcnt[q] = Cardinality(Pointers(refs, << >>, q)) + 0 + Once(q, held)
    BY DuesEmpty DEF IInv, CountsMidCall
  <2>2. Pointers(refs, << >>, q) = Pointers(refs, todo', q) \cup ({s} \X old)
    <3>1. \A p, f : Overwritten(todo', p, f) <=> p = s /\ f \in F
      BY DEF Overwritten
    <3>2. \A x : x \in {s} \X old <=> x \in Spots /\ x[1] = s /\ x[2] \in F /\ refs[s][x[2]] = q
      BY <1>1, <1>2, SpotsAre
    <3>3. \A x \in Spots : x \in Pointers(refs, todo', q) <=>
            refs[x[1]][x[2]] = q /\ ~ (x[1] = s /\ x[2] \in F)
      BY <3>1 DEF Pointers
    <3>4. \A x \in Spots : x \in Pointers(refs, << >>, q) <=> refs[x[1]][x[2]] = q
      BY IdlePointers
    <3>5. Pointers(refs, << >>, q) \subseteq Spots /\ Pointers(refs, todo', q) \subseteq Spots
      BY DEF Pointers
    <3> HIDE DEF old
    <3>6. QED
      BY <3>2, <3>3, <3>4, <3>5
  <2>3. Pointers(refs, todo', q) \cap ({s} \X old) = {}
    BY DEF Pointers, Overwritten
  <2>4. /\ IsFiniteSet({s} \X old) /\ Cardinality({s} \X old) = Cardinality(old)
        /\ Cardinality(old) \in Nat
    <3>1. IsFiniteSet(old)
      BY <1>2, FS_Subset
    <3>2. QED
      BY <3>1, OwnPointers, FS_CardinalityType
  <2>5. Cardinality(Pointers(refs, << >>, q)) = Cardinality(Pointers(refs, todo', q))
                                                  + Cardinality(old)
    BY <2>2, <2>3, <2>4, PointersType, CardinalityOfSum
  <2>6. Cardinality(Pointers(refs, todo', q)) \in Nat /\ Once(q, held) \in Nat
    BY PointersType DEF Once
  <2>7. QED
    BY <2>1, <2>4, <2>5, <2>6
<1>5. FreeIsBlank' /\ Downward' /\ SwapchainWhole'
  BY DEF IInv, FreeIsBlank, Downward, SwapchainWhole
<1>6. StoresHeld'
  BY <1>1 DEF StoresHeld
<1>7. SwapchainGoes'
  BY DEF SwapchainGoes
<1>8. QED
  BY <1>3, <1>4, <1>5, <1>6, <1>7 DEF IInv

(* What overwriting one descriptor comes to. *)
LEMMA ReplaceIs ==
  ASSUME IInv, NEW s \in Held("set"), NEW field \in DescriptorFields, NEW new \in Targets
  PROVE  LET t == Replace(s, field, new) IN
         /\ t \in Seq(Steps) /\ Len(t) \in {1, 2}
         /\ t[Len(t)] = <<"store", s, field, new>>
         /\ \A i \in 1..Len(t) : i # Len(t) =>
              t[i] = <<"release", refs[s][field]>> /\ refs[s][field][1] # "swapchain"
         /\ \A q \in Objects : Dues(t, q) = IF refs[s][field] = q THEN 1 ELSE 0
<1> DEFINE old == refs[s][field]
           store == <<"store", s, field, new>>
           release == <<"release", old>>
<1>1. s \in Objects /\ s[1] = "set"
  BY HandleAsPointer
<1>2. field \in Fields("set")
  BY FieldsOf DEF DescriptorFields
<1>3. old \in Targets /\ (old # Null => Depth(old[1]) > Depth("set"))
  BY <1>1, <1>2 DEF IInv, Typed, Downward
<1>4. old # Null => old[1] # "swapchain"
  BY <1>3 DEF Depth
<1>5. store \in Steps /\ release \in Steps
  BY <1>1, <1>3 DEF Steps
<1>6. \A q : store # <<"release", q>>
  OBVIOUS
<1>7. \A q : Dues(<<store>>, q) = 0
  BY <1>6, DuesOne
<1>8. \A q : Dues(<<release>>, q) = IF old = q THEN 1 ELSE 0
  <2> TAKE q
  <2>1. Dues(<<release>>, q) = IF release = <<"release", q>> THEN 1 ELSE 0
    BY DuesOne
  <2>2. QED
    BY <2>1
<1>9. \A q \in Objects : q # Null
  BY ObjectsAre
<1>10. CASE old = Null
  <2>1. Replace(s, field, new) = <<store>>
    BY <1>10 DEF Replace
  <2> HIDE DEF store
  <2>2. Len(<<store>>) = 1 /\ <<store>>[1] = store /\ <<store>> \in Seq(Steps)
    BY <1>5
  <2>3. QED
    BY <1>7, <1>9, <1>10, <2>1, <2>2 DEF store
<1>11. CASE old # Null
  <2>1. Replace(s, field, new) = <<release>> \o <<store>>
    BY <1>11 DEF Replace
  <2> HIDE DEF store, release
  <2>2. /\ Len(<<release>> \o <<store>>) = 2 /\ (<<release>> \o <<store>>)[1] = release
        /\ (<<release>> \o <<store>>)[2] = store /\ <<release>> \o <<store>> \in Seq(Steps)
    BY <1>5
  <2>3. \A q : Dues(<<release>> \o <<store>>, q) = Dues(<<release>>, q) + Dues(<<store>>, q)
    <3>1. <<release>> \in Seq(Steps) /\ <<store>> \in Seq(Steps)
      BY <1>5
    <3>2. QED
      BY <3>1, DuesConcat
  <2>4. \A q : Dues(<<release>> \o <<store>>, q) = IF old = q THEN 1 ELSE 0
    BY <1>7, <1>8, <2>3
  <2>5. QED
    BY <1>4, <1>11, <2>1, <2>2, <2>4 DEF store, release
<1>12. QED
  BY <1>10, <1>11

(* A write of a buffer's descriptor. *)
LEMMA UpdateBufferPreserves ==
  ASSUME IInv, vkUpdateDescriptorSetsBuffer
  PROVE  IInv'
<1>1. PICK s \in Held("set"), b \in Held("buffer") : todo' = Replace(s, "buffer", b)
  BY DEF vkUpdateDescriptorSetsBuffer
<1>2. /\ todo = << >> /\ UNCHANGED <<refcnt, refs, next_free_slot, held, fault>>
      /\ b \in held /\ b \in Targets /\ b[1] = "buffer" /\ Depth("buffer") > 0
  BY <1>1, HandleAsPointer DEF vkUpdateDescriptorSetsBuffer, Idle, Held, Depth
<1>3. /\ todo' \in Seq(Steps) /\ Len(todo') \in {1, 2}
      /\ todo'[Len(todo')] = <<"store", s, "buffer", b>>
      /\ \A i \in 1..Len(todo') : i # Len(todo') =>
           todo'[i] = <<"release", refs[s]["buffer"]>> /\ refs[s]["buffer"][1] # "swapchain"
      /\ \A q \in Objects : Dues(todo', q) = IF refs[s]["buffer"] = q THEN 1 ELSE 0
  BY <1>1, <1>2, ReplaceIs DEF DescriptorFields
<1>4. \A i \in 1..Len(todo') : todo'[i][1] = "store" => i = Len(todo')
  BY <1>3
<1>5. \A i \in 1..Len(todo') : todo'[i][1] = "store" =>
        /\ todo'[i][2] = s /\ todo'[i][3] \in {"buffer"} /\ todo'[i][4] = b
  BY <1>3, <1>4
<1>6. \A f \in {"buffer"} : \E i \in 1..Len(todo') :
        todo'[i][1] = "store" /\ todo'[i][2] = s /\ todo'[i][3] = f
  <2>1. Len(todo') \in 1..Len(todo')
    BY <1>3
  <2>2. QED
    BY <1>3, <2>1
<1>7. StoresDiffer'
  BY <1>4 DEF StoresDiffer
<1>8. \A i \in 1..Len(todo') : todo'[i][1] = "release" => todo'[i][2][1] # "swapchain"
  BY <1>3
<1>9. \A q \in Objects : Dues(todo', q) = Cardinality({f \in {"buffer"} : refs[s][f] = q})
  <2> TAKE q \in Objects
  <2>1. {f \in {"buffer"} : refs[s][f] = q} = IF refs[s]["buffer"] = q THEN {"buffer"} ELSE {}
    OBVIOUS
  <2>2. QED
    BY <1>3, <2>1, FS_EmptySet, FS_Singleton
<1>10. {"buffer"} \in SUBSET DescriptorFields
  BY DEF DescriptorFields
<1>11. QED
  BY <1>2, <1>3, <1>5, <1>6, <1>7, <1>8, <1>9, <1>10, OverwritePreserves

(* A write of an image's descriptor overwrites two pointers. *)
LEMMA UpdateImagePreserves ==
  ASSUME IInv, vkUpdateDescriptorSetsImage
  PROVE  IInv'
<1>1. PICK s \in Held("set"), v \in Held("imageView"), sampler \in Held("sampler") \cup {Null} :
        todo' = Replace(s, "sampler", sampler) \o Replace(s, "image_view", v)
  BY DEF vkUpdateDescriptorSetsImage
<1> DEFINE t == Replace(s, "sampler", sampler)
           u == Replace(s, "image_view", v)
           F == {"sampler", "image_view"}
<1>2. /\ todo = << >> /\ UNCHANGED <<refcnt, refs, next_free_slot, held, fault>>
      /\ v \in held /\ v \in Targets /\ Depth(v[1]) > 0
      /\ sampler \in Targets /\ (sampler # Null => sampler \in held /\ Depth(sampler[1]) > 0)
  <2>1. /\ v \in held /\ v \in Targets /\ v[1] = "imageView"
        /\ sampler \in Targets /\ (sampler # Null => sampler \in held /\ sampler[1] = "sampler")
    BY <1>1, HandleAsPointer DEF Held, Targets
  <2>2. Depth("imageView") > 0 /\ Depth("sampler") > 0
    BY DEF Depth
  <2>3. QED
    BY <2>1, <2>2 DEF vkUpdateDescriptorSetsImage, Idle
<1>3. /\ t \in Seq(Steps) /\ Len(t) \in {1, 2}
      /\ t[Len(t)] = <<"store", s, "sampler", sampler>>
      /\ \A i \in 1..Len(t) : i # Len(t) =>
           t[i] = <<"release", refs[s]["sampler"]>> /\ refs[s]["sampler"][1] # "swapchain"
      /\ \A q \in Objects : Dues(t, q) = IF refs[s]["sampler"] = q THEN 1 ELSE 0
  BY <1>1, <1>2, ReplaceIs DEF DescriptorFields
<1>4. /\ u \in Seq(Steps) /\ Len(u) \in {1, 2}
      /\ u[Len(u)] = <<"store", s, "image_view", v>>
      /\ \A i \in 1..Len(u) : i # Len(u) =>
           u[i] = <<"release", refs[s]["image_view"]>> /\ refs[s]["image_view"][1] # "swapchain"
      /\ \A q \in Objects : Dues(u, q) = IF refs[s]["image_view"] = q THEN 1 ELSE 0
  BY <1>1, <1>2, ReplaceIs DEF DescriptorFields
<1> HIDE DEF t, u
<1>5. /\ todo' \in Seq(Steps) /\ Len(todo') = Len(t) + Len(u)
      /\ \A i \in 1..Len(todo') :
           todo'[i] = IF i <= Len(t) THEN t[i] ELSE u[i - Len(t)]
  BY <1>1, <1>3, <1>4 DEF t, u
<1>6. \A i \in 1..Len(todo') :
        \/ i = Len(t) /\ todo'[i] = <<"store", s, "sampler", sampler>>
        \/ i = Len(t) + Len(u) /\ todo'[i] = <<"store", s, "image_view", v>>
        \/ todo'[i][1] = "release" /\ todo'[i][2][1] # "swapchain"
  <2> TAKE i \in 1..Len(todo')
  <2>1. CASE i <= Len(t)
    <3>1. i \in 1..Len(t) /\ todo'[i] = t[i]
      BY <1>3, <1>5, <2>1
    <3>2. QED
      BY <1>3, <3>1
  <2>2. CASE i > Len(t)
    <3>1. i - Len(t) \in 1..Len(u) /\ todo'[i] = u[i - Len(t)] /\ i = Len(t) + (i - Len(t))
      BY <1>3, <1>4, <1>5, <2>2
    <3>2. QED
      BY <1>4, <3>1
  <2>3. QED
    BY <1>3, <2>1, <2>2
<1>7. \A i \in 1..Len(todo') : todo'[i][1] = "store" =>
        /\ todo'[i][2] = s /\ todo'[i][3] \in F
        /\ todo'[i][4] # Null => todo'[i][4] \in held /\ Depth(todo'[i][4][1]) > 0
  BY <1>2, <1>6
<1>8. \A f \in F : \E i \in 1..Len(todo') :
        todo'[i][1] = "store" /\ todo'[i][2] = s /\ todo'[i][3] = f
  <2>0. Len(t) \in Nat \ {0} /\ Len(u) \in Nat \ {0} /\ Len(todo') = Len(t) + Len(u)
    <3>1. (Len(t) = 1 \/ Len(t) = 2) /\ (Len(u) = 1 \/ Len(u) = 2)
      BY <1>3, <1>4
    <3>2. Len(todo') = Len(t) + Len(u)
      BY <1>5
    <3>3. \A n : n = 1 \/ n = 2 => n \in Nat \ {0}
      OBVIOUS
    <3>4. Len(t) \in Nat \ {0} /\ Len(u) \in Nat \ {0}
      BY <3>1, <3>3
    <3>5. QED
      BY <3>2, <3>4
  <2>1. Len(t) \in 1..Len(todo') /\ todo'[Len(t)] = <<"store", s, "sampler", sampler>>
    <3>1. Len(t) \in 1..Len(todo') /\ Len(t) <= Len(t)
      BY <2>0
    <3>2. todo'[Len(t)] = t[Len(t)]
      BY <1>5, <3>1
    <3>3. QED
      BY <1>3, <3>1, <3>2
  <2>2. /\ Len(t) + Len(u) \in 1..Len(todo')
        /\ todo'[Len(t) + Len(u)] = <<"store", s, "image_view", v>>
    <3>1. /\ Len(t) + Len(u) \in 1..Len(todo') /\ ~ (Len(t) + Len(u) <= Len(t))
          /\ Len(t) + Len(u) - Len(t) = Len(u)
      BY <2>0
    <3>2. todo'[Len(t) + Len(u)] = u[Len(u)]
      BY <1>5, <3>1
    <3>3. QED
      BY <1>4, <3>1, <3>2
  <2>3. QED
    BY <2>1, <2>2
<1>9. StoresDiffer'
  BY <1>6 DEF StoresDiffer
<1>10. \A i \in 1..Len(todo') : todo'[i][1] = "release" => todo'[i][2][1] # "swapchain"
  BY <1>6
<1>11. \A q \in Objects : Dues(todo', q) = Cardinality({f \in F : refs[s][f] = q})
  <2> TAKE q \in Objects
  <2>1. Dues(todo', q) = Dues(t, q) + Dues(u, q)
    BY <1>1, <1>3, <1>4, DuesConcat DEF t, u
  <2>2. CountOf(refs[s], F, q) = At(refs[s], "sampler", q) + At(refs[s], "image_view", q)
    <3> DEFINE a == "sampler"
               b == "image_view"
    <3>1. a # b /\ F = {a, b}
      OBVIOUS
    <3> HIDE DEF a, b, F
    <3>2. CountOf(refs[s], {a, b}, q) = At(refs[s], a, q) + At(refs[s], b, q)
      BY <3>1, CountTwo
    <3>3. QED
      BY <3>1, <3>2 DEF a, b
  <2>3. QED
    BY <1>3, <1>4, <2>1, <2>2 DEF At, CountOf
<1>12. F \in SUBSET DescriptorFields
  BY DEF DescriptorFields
<1> HIDE DEF F
<1>13. QED
  BY <1>2, <1>5, <1>7, <1>8, <1>9, <1>10, <1>11, <1>12, OverwritePreserves

(* A store ends the overwriting of its pointer. *)
LEMMA StorePreserves ==
  ASSUME IInv, Store
  PROVE  IInv'
<1>1. todo # << >> /\ todo \in Seq(Steps) /\ Head(todo) = todo[1] /\ Len(todo) \in Nat \ {0}
  BY TailMoves DEF Store, IInv, Typed
<1> DEFINE set == todo[1][2]
           field == todo[1][3]
           new == todo[1][4]
<1>2. /\ todo[1][1] = "store" /\ 1 \in 1..Len(todo)
      /\ UNCHANGED <<next_free_slot, held>>
  BY <1>1 DEF Store
<1>3. /\ set \in held /\ set[1] = "set" /\ field \in DescriptorFields
      /\ new # Null => new \in held /\ Depth(new[1]) > 0
  BY <1>2 DEF IInv, StoresHeld
<1>4. CASE new = Null
  <2>1. UNCHANGED <<refcnt, refs, todo, next_free_slot, held>> /\ fault' = "NULL"
    BY <1>1, <1>4 DEF Store
  <2>2. QED
    BY <2>1 DEF IInv, Typed, CountsMidCall, FreeIsBlank, Downward, SwapchainWhole,
                StoresHeld, StoresDiffer, SwapchainGoes
<1>5. CASE new # Null
  <2>1. /\ refs' = [refs EXCEPT ![set][field] = new]
        /\ refcnt' = [refcnt EXCEPT ![new] = @ + 1]
        /\ todo' = Tail(todo) /\ fault' = fault
    BY <1>1, <1>5 DEF Store
  <2>2. /\ set \in Objects /\ refcnt[set] # 0 /\ new \in Objects /\ new \in held
        /\ refcnt[new] \in Nat \ {0}
    BY <1>3, <1>5, HeldIsLive
  <2>3. /\ field \in Fields("set") /\ refs[set] \in [Fields("set") -> Targets]
    BY <1>3, <2>2, FieldsOf DEF IInv, Typed, DescriptorFields
  <2>4. /\ todo' \in Seq(Steps) /\ Len(todo') = Len(todo) - 1
        /\ \A i \in 1..Len(todo') : i + 1 \in 1..Len(todo) /\ todo'[i] = todo[i + 1]
    BY <1>1, <2>1, TailMoves
  <2> HIDE DEF set, field, new
  <2>5. /\ refs'[set] \in [Fields("set") -> Targets]
        /\ \A f \in Fields("set") : refs'[set][f] = IF f = field THEN new ELSE refs[set][f]
        /\ \A p \in Objects : p # set => refs'[p] = refs[p]
        /\ DOMAIN refs' = Objects
    BY <2>1, <2>2, <2>3 DEF IInv, Typed, Targets
  <2>6. \A p \in Objects : refcnt'[p] = IF p = new THEN refcnt[p] + 1 ELSE refcnt[p]
    BY <2>1, <2>2 DEF IInv, Typed
  <2>7. Typed'
    <3>1. refcnt' \in [Objects -> Nat]
      BY <2>1, <2>2 DEF IInv, Typed
    <3>2. \A p \in Objects : refs'[p] \in [Fields(p[1]) -> Targets]
      BY <1>3, <2>5 DEF IInv, Typed, set
    <3>3. QED
      BY <1>2, <2>1, <2>4, <2>5, <3>1, <3>2 DEF IInv, Typed
  <2>8. Overwritten(todo, set, field) /\ ~ Overwritten(todo', set, field)
    <3>1. Overwritten(todo, set, field)
      BY <1>2 DEF Overwritten, set, field
    <3>2. ASSUME NEW i \in 1..Len(todo'),
                 todo'[i][1] = "store", todo'[i][2] = set, todo'[i][3] = field
          PROVE  FALSE
      <4>1. i + 1 \in 1..Len(todo) /\ todo[i + 1] = todo'[i] /\ i + 1 # 1
        BY <1>1, <2>4
      <4>2. QED
        BY <1>2, <3>2, <4>1 DEF IInv, StoresDiffer, set, field
    <3>3. QED
      BY <3>1, <3>2 DEF Overwritten
  <2>9. \A p, f : ~ (p = set /\ f = field) => (Overwritten(todo, p, f) <=> Overwritten(todo', p, f))
    <3> SUFFICES ASSUME NEW p, NEW f, ~ (p = set /\ f = field)
                 PROVE  Overwritten(todo, p, f) <=> Overwritten(todo', p, f)
      OBVIOUS
    <3>1. ASSUME Overwritten(todo, p, f) PROVE Overwritten(todo', p, f)
      <4>1. PICK i \in 1..Len(todo) : todo[i][1] = "store" /\ todo[i][2] = p /\ todo[i][3] = f
        BY <3>1 DEF Overwritten
      <4>2. i # 1
        BY <4>1 DEF set, field
      <4>3. i - 1 \in 1..Len(todo') /\ todo'[i - 1] = todo[i]
        BY <1>1, <2>4, <4>1, <4>2
      <4>4. QED
        BY <4>1, <4>3 DEF Overwritten
    <3>2. ASSUME Overwritten(todo', p, f) PROVE Overwritten(todo, p, f)
      BY <2>4, <3>2 DEF Overwritten
    <3>3. QED
      BY <3>1, <3>2
  <2>10. CountsMidCall'
    <3> SUFFICES ASSUME NEW q \in Objects
                 PROVE  refcnt'[q] = Cardinality(Pointers(refs', todo', q)) + Dues(todo', q)
                                       + Once(q, held')
      BY DEF CountsMidCall
    <3>1. refcnt[q] = Cardinality(Pointers(refs, todo, q)) + Dues(todo, q) + Once(q, held)
      BY DEF IInv, CountsMidCall
    <3>2. Dues(todo', q) = Dues(todo, q) /\ Dues(todo', q) \in Nat
      <4>1. Head(todo) # <<"release", q>>
        BY <1>1, <1>2
      <4>2. QED
        BY <1>1, <2>1, <4>1, DuesTail
    <3>3. /\ Pointers(refs, todo, q) \subseteq Spots /\ Pointers(refs', todo', q) \subseteq Spots
          /\ <<set, field>> \in Spots /\ <<set, field>> \notin Pointers(refs, todo, q)
      BY <1>3, <2>2, <2>3, <2>8, SpotsAre DEF Pointers, set
    <3>4. \A s \in Spots : s \in Pointers(refs', todo', q) <=>
            s \in Pointers(refs, todo, q) \/ (s = <<set, field>> /\ q = new)
      <4> SUFFICES ASSUME NEW s \in Spots
                   PROVE  s \in Pointers(refs', todo', q) <=>
                            s \in Pointers(refs, todo, q) \/ (s = <<set, field>> /\ q = new)
        OBVIOUS
      <4>1. s[1] \in Objects /\ s[2] \in Fields(s[1][1]) /\ s = <<s[1], s[2]>>
        BY SpotsAre
      <4>2. CASE s = <<set, field>>
        BY <2>3, <2>5, <2>8, <4>2 DEF Pointers
      <4>3. CASE s # <<set, field>>
        <5>1. refs'[s[1]][s[2]] = refs[s[1]][s[2]]
          BY <1>3, <2>5, <4>1, <4>3 DEF set
        <5>2. Overwritten(todo, s[1], s[2]) <=> Overwritten(todo', s[1], s[2])
          BY <2>9, <4>1, <4>3
        <5>3. QED
          BY <4>3, <5>1, <5>2 DEF Pointers
      <4>4. QED
        BY <4>2, <4>3
    <3>5. Cardinality(Pointers(refs, todo, q)) \in Nat /\ IsFiniteSet(Pointers(refs, todo, q))
      BY PointersType
    <3>6. CASE q = new
      <4>1. Pointers(refs', todo', q) = Pointers(refs, todo, q) \cup {<<set, field>>}
        BY <3>3, <3>4, <3>6
      <4>2. Cardinality(Pointers(refs, todo, q) \cup {<<set, field>>})
              = Cardinality(Pointers(refs, todo, q)) + 1
        BY <3>3, <3>5, FS_AddElement
      <4>3. QED
        BY <1>2, <2>6, <3>1, <3>2, <3>5, <3>6, <4>1, <4>2 DEF Once
    <3>7. CASE q # new
      <4>1. Pointers(refs', todo', q) = Pointers(refs, todo, q)
        BY <3>3, <3>4, <3>7
      <4>2. QED
        BY <1>2, <2>6, <3>1, <3>2, <3>5, <3>7, <4>1 DEF Once
    <3>8. QED
      BY <3>6, <3>7
  <2>11. FreeIsBlank'
    BY <2>2, <2>5, <2>6 DEF IInv, Typed, FreeIsBlank
  <2>12. Downward'
    <3>1. Depth("set") = 0 /\ Depth(new[1]) > 0 /\ set[1] = "set"
      BY <1>3, <1>5 DEF Depth, set, new
    <3>2. QED
      BY <2>5, <3>1 DEF IInv, Downward
  <2>13. SwapchainWhole'
    <3>1. \A n \in 1..Capacity["swapchain"] :
            /\ <<"swapchain", n>> \in Objects /\ <<"swapImage", n>> \in Objects
            /\ <<"swapchain", n>> # set
      BY <1>3, ObjectsAre DEF Kinds, set
    <3>2. \A p \in Objects : refcnt'[p] = 0 <=> refcnt[p] = 0
      BY <2>2, <2>6
    <3>3. QED
      BY <2>5, <3>1, <3>2 DEF IInv, SwapchainWhole
  <2>14. StoresHeld'
    BY <1>2, <2>4 DEF IInv, StoresHeld
  <2>15. StoresDiffer'
    <3> SUFFICES ASSUME NEW i \in 1..Len(todo'), NEW j \in 1..Len(todo'),
                        todo'[i][1] = "store", todo'[j][1] = "store",
                        todo'[i][2] = todo'[j][2], todo'[i][3] = todo'[j][3]
                 PROVE  i = j
      BY DEF StoresDiffer
    <3>1. i + 1 \in 1..Len(todo) /\ j + 1 \in 1..Len(todo)
          /\ todo'[i] = todo[i + 1] /\ todo'[j] = todo[j + 1]
      BY <2>4
    <3>2. i + 1 = j + 1
      BY <3>1 DEF IInv, StoresDiffer
    <3>3. QED
      BY <3>2
  <2>16. SwapchainGoes'
    <3> SUFFICES ASSUME NEW i \in 1..Len(todo'), todo'[i][1] = "release",
                        todo'[i][2][1] = "swapchain"
                 PROVE  FALSE
      BY DEF SwapchainGoes
    <3>1. i + 1 \in 1..Len(todo) /\ todo'[i] = todo[i + 1] /\ Len(todo) > 1
      BY <1>1, <2>4
    <3>2. QED
      BY <3>1 DEF IInv, SwapchainGoes
  <2>17. QED
    BY <2>7, <2>10, <2>11, <2>12, <2>13, <2>14, <2>15, <2>16 DEF IInv
<1>6. QED
  BY <1>4, <1>5


-----------------------------------------------------------------------------
(* Releasing.                                                              *)

(* What release() adds to a call: releases, but none of a swapchain. *)
Releases == {e \in {"release"} \X Targets : e[2][1] # "swapchain"}

(* The release that comes first, and the counts that cover it. *)
LEMMA FirstRelease ==
  ASSUME IInv, todo # << >>, Head(todo)[1] = "release"
  PROVE  LET o == Head(todo)[2] IN
         /\ Head(todo) = <<"release", o>> /\ o \in Targets /\ todo[1] = Head(todo)
         /\ 1 \in 1..Len(todo) /\ todo \in Seq(Steps)
         /\ \A q \in Objects :
              /\ Dues(todo, q) = (IF q = o THEN 1 ELSE 0) + Dues(Tail(todo), q)
              /\ Dues(Tail(todo), q) \in Nat
         /\ o # Null => o \in Objects /\ refcnt[o] \in Nat \ {0}
<1> DEFINE o == Head(todo)[2]
<1>1. todo \in Seq(Steps) /\ Head(todo) = todo[1] /\ 1 \in 1..Len(todo)
  BY TailMoves DEF IInv, Typed
<1>2. Head(todo) \in Steps
  BY <1>1
<1>3. Head(todo) = <<"release", o>> /\ o \in Targets
  BY <1>2 DEF Steps
<1>4. ASSUME NEW q \in Objects
      PROVE  /\ Dues(todo, q) = (IF q = o THEN 1 ELSE 0) + Dues(Tail(todo), q)
             /\ Dues(Tail(todo), q) \in Nat
  <2>1. /\ Dues(todo, q) = (IF Head(todo) = <<"release", q>> THEN 1 ELSE 0) + Dues(Tail(todo), q)
        /\ Dues(Tail(todo), q) \in Nat
    BY <1>1, DuesTail
  <2>2. QED
    BY <1>3, <2>1
<1> HIDE DEF o
<1>5. ASSUME o # Null
      PROVE  o \in Objects /\ refcnt[o] \in Nat \ {0}
  <2>1. o \in Objects
    BY <1>3, <1>5 DEF Targets
  <2>2. /\ refcnt[o] = Cardinality(Pointers(refs, todo, o)) + Dues(todo, o) + Once(o, held)
        /\ refcnt[o] \in Nat
    BY <2>1 DEF IInv, Typed, CountsMidCall
  <2>3. Once(o, held) \in Nat
    BY DEF Once
  <2>4. QED
    BY <1>4, <2>1, <2>2, <2>3, PointersType
<1>6. QED
  BY <1>1, <1>3, <1>4, <1>5 DEF o

(* The stores still to come are the same when a release has been replaced  *)
(* by those that follow from it.                                           *)
LEMMA StoresStay ==
  ASSUME IInv, todo # << >>, Head(todo)[1] = "release",
         NEW R \in Seq(Releases), todo' = R \o Tail(todo), held' = held
  PROVE  /\ todo' \in Seq(Steps)
         /\ \A p, f : Overwritten(todo', p, f) <=> Overwritten(todo, p, f)
         /\ \A q \in Objects : Dues(todo', q) = Dues(R, q) + Dues(Tail(todo), q)
                                 /\ Dues(R, q) \in Nat
         /\ StoresHeld' /\ StoresDiffer' /\ SwapchainGoes'
<1>1. /\ todo \in Seq(Steps) /\ Tail(todo) \in Seq(Steps) /\ Len(Tail(todo)) = Len(todo) - 1
      /\ Len(todo) \in Nat \ {0} /\ todo[1][1] = "release"
      /\ \A i \in 1..Len(Tail(todo)) : i + 1 \in 1..Len(todo) /\ Tail(todo)[i] = todo[i + 1]
  BY TailMoves DEF IInv, Typed
<1>2. R \in Seq(Steps)
  <2>1. Releases \subseteq Steps
    BY DEF Releases, Steps
  <2>2. QED
    BY <2>1
<1> DEFINE u == Tail(todo)
<1>3. todo' \in Seq(Steps) /\ Len(todo') = Len(R) + Len(u) /\ Len(R) \in Nat
  BY <1>1, <1>2
<1>4. \A i \in 1..Len(todo') :
        /\ i <= Len(R) => todo'[i] \in Releases
        /\ i > Len(R) => i - Len(R) \in 1..Len(u) /\ todo'[i] = u[i - Len(R)]
  BY <1>1, <1>2, <1>3
<1>5. \A j \in 1..Len(u) : j + Len(R) \in 1..Len(todo') /\ todo'[j + Len(R)] = u[j]
  BY <1>1, <1>2, <1>3
<1> HIDE DEF u
<1>6. \A e \in Releases : e[1] = "release" /\ e[2][1] # "swapchain"
  BY DEF Releases
<1>7. \A i \in 1..Len(todo') : todo'[i][1] = "store" =>
        i - Len(R) + 1 \in 1..Len(todo) /\ todo'[i] = todo[i - Len(R) + 1]
  BY <1>1, <1>3, <1>4, <1>6 DEF u
<1>8. \A p, f : Overwritten(todo', p, f) <=> Overwritten(todo, p, f)
  <2> TAKE p, f
  <2>1. ASSUME Overwritten(todo, p, f) PROVE Overwritten(todo', p, f)
    <3>1. PICK i \in 1..Len(todo) : todo[i][1] = "store" /\ todo[i][2] = p /\ todo[i][3] = f
      BY <2>1 DEF Overwritten
    <3>2. i - 1 \in 1..Len(u) /\ u[i - 1] = todo[i]
      <4>1. i # 1
        BY <1>1, <3>1
      <4>2. i - 1 \in 1..Len(u) /\ (i - 1) + 1 = i
        BY <1>1, <4>1 DEF u
      <4>3. QED
        BY <1>1, <4>2 DEF u
    <3>3. QED
      BY <1>5, <3>1, <3>2 DEF Overwritten
  <2>2. ASSUME Overwritten(todo', p, f) PROVE Overwritten(todo, p, f)
    BY <1>7, <2>2 DEF Overwritten
  <2>3. QED
    BY <2>1, <2>2
<1>9. \A q \in Objects : Dues(todo', q) = Dues(R, q) + Dues(u, q) /\ Dues(R, q) \in Nat
  BY <1>1, <1>2, DuesConcat, DuesType DEF u
<1>10. StoresHeld'
  <2>1. ASSUME NEW i \in 1..Len(todo'), todo'[i][1] = "store"
        PROVE  /\ todo'[i][2] \in held /\ todo'[i][2][1] = "set" /\ todo'[i][3] \in DescriptorFields
               /\ todo'[i][4] # Null => todo'[i][4] \in held /\ Depth(todo'[i][4][1]) > 0
    <3>1. \E j \in 1..Len(todo) : todo'[i] = todo[j]
      BY <1>7, <2>1
    <3>2. QED
      BY <2>1, <3>1 DEF IInv, StoresHeld
  <2>2. QED
    BY <2>1 DEF StoresHeld
<1>11. StoresDiffer'
  <2> SUFFICES ASSUME NEW i \in 1..Len(todo'), NEW j \in 1..Len(todo'),
                      todo'[i][1] = "store", todo'[j][1] = "store",
                      todo'[i][2] = todo'[j][2], todo'[i][3] = todo'[j][3]
               PROVE  i = j
    BY DEF StoresDiffer
  <2>1. /\ i - Len(R) + 1 \in 1..Len(todo) /\ todo'[i] = todo[i - Len(R) + 1]
        /\ j - Len(R) + 1 \in 1..Len(todo) /\ todo'[j] = todo[j - Len(R) + 1]
    BY <1>7
  <2>2. i - Len(R) + 1 = j - Len(R) + 1
    BY <2>1 DEF IInv, StoresDiffer
  <2>3. QED
    BY <1>3, <2>2
<1>12. SwapchainGoes'
  <2> SUFFICES ASSUME NEW i \in 1..Len(todo'), todo'[i][1] = "release",
                      todo'[i][2][1] = "swapchain"
               PROVE  FALSE
    BY DEF SwapchainGoes
  <2>1. i > Len(R)
    BY <1>3, <1>4, <1>6
  <2>2. i - Len(R) \in 1..Len(u) /\ todo'[i] = u[i - Len(R)]
    BY <1>4, <2>1
  <2>3. /\ (i - Len(R)) + 1 \in 1..Len(todo) /\ todo'[i] = todo[(i - Len(R)) + 1]
        /\ Len(todo) > 1
    BY <1>1, <2>2 DEF u
  <2>4. QED
    BY <2>3 DEF IInv, SwapchainGoes
<1>13. QED
  BY <1>3, <1>8, <1>9, <1>10, <1>11, <1>12 DEF u


(* Following one pointer releases what it leads to, once. *)
LEMMA FollowIs ==
  ASSUME IInv, NEW o \in Objects, NEW f \in Fields(o[1])
  PROVE  /\ Follow(o, f) \in Seq(Releases) /\ Follow(o, f) \in Seq(Steps)
         /\ \A q \in Objects : Dues(Follow(o, f), q) = At(refs[o], f, q)
                                 /\ At(refs[o], f, q) \in Nat
<1> DEFINE old == refs[o][f]
           release == <<"release", old>>
<1>1. old \in Targets /\ (old # Null => Depth(old[1]) > Depth(o[1]))
  BY DEF IInv, Typed, Downward
<1>2. old[1] # "swapchain"
  <2>1. Depth(o[1]) >= 0 /\ Depth("swapchain") = 0 /\ Null[1] = "NULL"
    BY DEF Depth, Null
  <2>2. QED
    BY <1>1, <2>1 DEF Depth
<1>3. release \in Releases /\ release \in Steps
  BY <1>1, <1>2 DEF Releases, Steps
<1>4. ASSUME NEW q \in Objects
      PROVE  Dues(<<release>>, q) = At(refs[o], f, q) /\ At(refs[o], f, q) \in Nat
  <2>1. Dues(<<release>>, q) = IF release = <<"release", q>> THEN 1 ELSE 0
    BY DuesOne
  <2>2. QED
    BY <2>1 DEF At
<1>5. ASSUME NEW q \in Objects, old = Null
      PROVE  Dues(<< >>, q) = At(refs[o], f, q) /\ At(refs[o], f, q) \in Nat
  <2>1. q # Null
    BY ObjectsAre
  <2>2. QED
    BY <1>5, <2>1, DuesEmpty DEF At
<1>6. << >> \in Seq(Releases) /\ << >> \in Seq(Steps)
  OBVIOUS
<1>7. <<release>> \in Seq(Releases) /\ <<release>> \in Seq(Steps)
  BY <1>3
<1>8. CASE Follow(o, f) = << >> /\ old = Null
  BY <1>5, <1>6, <1>8
<1>9. CASE Follow(o, f) = <<release>>
  BY <1>4, <1>7, <1>9
<1>10. QED
  BY <1>8, <1>9 DEF Follow

(* Following several pointers: the releases add up. *)
LEMMA FollowsAddUp ==
  ASSUME NEW R \in Seq(Releases), NEW S \in Seq(Releases), R \in Seq(Steps), S \in Seq(Steps)
  PROVE  /\ R \o S \in Seq(Releases) /\ R \o S \in Seq(Steps)
         /\ \A q \in Objects : Dues(R \o S, q) = Dues(R, q) + Dues(S, q)
                                 /\ Dues(R, q) \in Nat /\ Dues(S, q) \in Nat
<1>1. R \o S \in Seq(Releases) /\ R \o S \in Seq(Steps)
  OBVIOUS
<1>2. QED
  BY <1>1, DuesConcat, DuesType

(* What release() follows when an object's count is down to 0 is every     *)
(* pointer the object has.                                                 *)
LEMMA ReleasesOfIs ==
  ASSUME IInv, NEW o \in Objects, o[1] # "swapchain"
  PROVE  /\ ReleasesOf(o) \in Seq(Releases)
         /\ \A q \in Objects : Dues(ReleasesOf(o), q) = CountOf(refs[o], Fields(o[1]), q)
<1>1. o[1] \in Kinds \cup {"swapImage"}
  BY ObjectsAre
<1> DEFINE Adds(R, F) == /\ R \in Seq(Releases) /\ R \in Seq(Steps)
                         /\ \A q \in Objects : Dues(R, q) = CountOf(refs[o], F, q)
<1>2. ASSUME NEW f, Fields(o[1]) = {f}, ReleasesOf(o) = Follow(o, f)
      PROVE  Adds(ReleasesOf(o), Fields(o[1]))
  <2>1. \A q : CountOf(refs[o], {f}, q) = At(refs[o], f, q)
    BY CountOne
  <2>2. f \in Fields(o[1])
    BY <1>2
  <2>3. QED
    BY <1>2, <2>1, <2>2, FollowIs
<1>3. ASSUME NEW f, NEW g, f # g, Fields(o[1]) = {f, g},
             ReleasesOf(o) = Follow(o, f) \o Follow(o, g)
      PROVE  Adds(ReleasesOf(o), Fields(o[1]))
  <2>1. \A q : CountOf(refs[o], {f, g}, q) = At(refs[o], f, q) + At(refs[o], g, q)
    BY <1>3, CountTwo
  <2>2. f \in Fields(o[1]) /\ g \in Fields(o[1])
    BY <1>3
  <2>3. /\ Follow(o, f) \in Seq(Releases) /\ Follow(o, f) \in Seq(Steps)
        /\ Follow(o, g) \in Seq(Releases) /\ Follow(o, g) \in Seq(Steps)
        /\ \A q \in Objects : Dues(Follow(o, f), q) = At(refs[o], f, q)
        /\ \A q \in Objects : Dues(Follow(o, g), q) = At(refs[o], g, q)
    BY <2>2, FollowIs
  <2>4. /\ ReleasesOf(o) \in Seq(Releases) /\ ReleasesOf(o) \in Seq(Steps)
        /\ \A q \in Objects :
             Dues(ReleasesOf(o), q) = Dues(Follow(o, f), q) + Dues(Follow(o, g), q)
    BY <1>3, <2>3, FollowsAddUp
  <2>5. \A q \in Objects : Dues(ReleasesOf(o), q) = CountOf(refs[o], Fields(o[1]), q)
    BY <1>3, <2>1, <2>3, <2>4
  <2>6. QED
    BY <2>4, <2>5
<1>4. CASE o[1] \in {"buffer", "image", "swapImage"}
  BY <1>2, <1>4, FieldsOf DEF ReleasesOf
<1>5. CASE o[1] = "bufferView"
  BY <1>2, <1>5, FieldsOf DEF ReleasesOf
<1>6. CASE o[1] = "imageView"
  BY <1>2, <1>6, FieldsOf DEF ReleasesOf
<1>7. CASE o[1] = "pipelineLayout"
  BY <1>2, <1>7, FieldsOf DEF ReleasesOf
<1>8. CASE o[1] = "framebuffer"
  BY <1>3, <1>8, FieldsOf DEF ReleasesOf
<1>9. CASE o[1] \in {"memory", "sampler", "setLayout", "pool", "renderPass", "shader", "surface"}
  <2>1. ReleasesOf(o) = << >> /\ Fields(o[1]) = {}
    BY <1>9, FieldsOf DEF ReleasesOf
  <2>2. << >> \in Seq(Releases) /\ << >> \in Seq(Steps)
    OBVIOUS
  <2>3. QED
    BY <2>1, <2>2, CountNone, DuesEmpty
<1>10. ASSUME NEW f, NEW g, NEW h, NEW i, f \in Fields(o[1]), g \in Fields(o[1]),
              h \in Fields(o[1]), i \in Fields(o[1])
       PROVE  LET R == Follow(o, f) \o Follow(o, g) \o Follow(o, h) \o Follow(o, i) IN
              /\ R \in Seq(Releases) /\ R \in Seq(Steps)
              /\ \A q \in Objects :
                   Dues(R, q) = At(refs[o], f, q) + At(refs[o], g, q) + At(refs[o], h, q)
                                  + At(refs[o], i, q)
  <2> DEFINE F == Follow(o, f)
             G == Follow(o, g)
             H == Follow(o, h)
             I == Follow(o, i)
  <2>1. /\ F \in Seq(Releases) /\ F \in Seq(Steps) /\ G \in Seq(Releases) /\ G \in Seq(Steps)
        /\ H \in Seq(Releases) /\ H \in Seq(Steps) /\ I \in Seq(Releases) /\ I \in Seq(Steps)
    BY <1>10, FollowIs
  <2>2. \A q \in Objects :
          /\ Dues(F, q) = At(refs[o], f, q) /\ Dues(G, q) = At(refs[o], g, q)
          /\ Dues(H, q) = At(refs[o], h, q) /\ Dues(I, q) = At(refs[o], i, q)
    BY <1>10, FollowIs
  <2> HIDE DEF F, G, H, I
  <2>3. /\ F \o G \in Seq(Releases) /\ F \o G \in Seq(Steps)
        /\ \A q \in Objects : Dues(F \o G, q) = Dues(F, q) + Dues(G, q)
    BY <2>1, FollowsAddUp
  <2>4. /\ (F \o G) \o H \in Seq(Releases) /\ (F \o G) \o H \in Seq(Steps)
        /\ \A q \in Objects : Dues((F \o G) \o H, q) = Dues(F \o G, q) + Dues(H, q)
    BY <2>1, <2>3, FollowsAddUp
  <2>5. /\ ((F \o G) \o H) \o I \in Seq(Releases) /\ ((F \o G) \o H) \o I \in Seq(Steps)
        /\ \A q \in Objects : Dues(((F \o G) \o H) \o I, q) = Dues((F \o G) \o H, q) + Dues(I, q)
    BY <2>1, <2>4, FollowsAddUp
  <2>6. QED
    BY <2>2, <2>3, <2>4, <2>5 DEF F, G, H, I
<1>11. CASE o[1] = "pipeline"
  <2> DEFINE f == "vs"
             g == "ps"
             h == "layout"
             i == "renderPass"
             j == "none"
             S == Fields(o[1])
             T == S \cup {j}
  <2>1. S = {f, g, h, i} /\ Lists(S, T, f, g, h, i, j)
    BY <1>11, FieldsOf DEF Lists
  <2>2. ReleasesOf(o) = Follow(o, f) \o Follow(o, g) \o Follow(o, h) \o Follow(o, i)
    BY <1>11 DEF ReleasesOf
  <2> HIDE DEF f, g, h, i, j, S, T
  <2>3. \A q : CountOf(refs[o], S, q)
                 = At(refs[o], f, q) + At(refs[o], g, q) + At(refs[o], h, q) + At(refs[o], i, q)
    BY <2>1, CountFive
  <2>4. f \in Fields(o[1]) /\ g \in Fields(o[1]) /\ h \in Fields(o[1]) /\ i \in Fields(o[1])
    BY <2>1 DEF S
  <2>5. /\ ReleasesOf(o) \in Seq(Releases)
        /\ \A q \in Objects :
             Dues(ReleasesOf(o), q)
               = At(refs[o], f, q) + At(refs[o], g, q) + At(refs[o], h, q) + At(refs[o], i, q)
    BY <1>10, <2>2, <2>4
  <2>6. QED
    BY <2>3, <2>5 DEF S
<1>12. CASE o[1] = "set"
  <2> DEFINE f == "buffer"
             g == "image_view"
             h == "sampler"
             i == "layout"
             j == "pool"
             T == Fields(o[1])
             S == T \ {j}
  <2>1. T = {f, g, h, i, j} /\ Lists(S, T, f, g, h, i, j)
    BY <1>12, FieldsOf DEF Lists
  <2>2. ReleasesOf(o)
          = (Follow(o, f) \o Follow(o, g) \o Follow(o, h) \o Follow(o, i)) \o Follow(o, j)
    BY <1>12 DEF ReleasesOf
  <2> HIDE DEF f, g, h, i, j, S, T
  <2>3. \A q : CountOf(refs[o], T, q)
                 = At(refs[o], f, q) + At(refs[o], g, q) + At(refs[o], h, q) + At(refs[o], i, q)
                     + At(refs[o], j, q)
    BY <2>1, CountFive
  <2>4. /\ f \in Fields(o[1]) /\ g \in Fields(o[1]) /\ h \in Fields(o[1]) /\ i \in Fields(o[1])
        /\ j \in Fields(o[1])
    BY <2>1 DEF T
  <2> DEFINE R == Follow(o, f) \o Follow(o, g) \o Follow(o, h) \o Follow(o, i)
  <2>5. /\ R \in Seq(Releases) /\ R \in Seq(Steps)
        /\ \A q \in Objects :
             Dues(R, q) = At(refs[o], f, q) + At(refs[o], g, q) + At(refs[o], h, q)
                            + At(refs[o], i, q)
    BY <1>10, <2>4
  <2>6. /\ Follow(o, j) \in Seq(Releases) /\ Follow(o, j) \in Seq(Steps)
        /\ \A q \in Objects : Dues(Follow(o, j), q) = At(refs[o], j, q)
    BY <2>4, FollowIs
  <2> HIDE DEF R
  <2>7. /\ R \o Follow(o, j) \in Seq(Releases)
        /\ \A q \in Objects : Dues(R \o Follow(o, j), q) = Dues(R, q) + Dues(Follow(o, j), q)
    BY <2>5, <2>6, FollowsAddUp
  <2>8. QED
    BY <2>2, <2>3, <2>5, <2>6, <2>7 DEF R, T
<1>13. QED
  BY <1>1, <1>4, <1>5, <1>6, <1>7, <1>8, <1>9, <1>11, <1>12 DEF Kinds


(* The pointers out of the objects in Z that lead to q. *)
Out(Z, q) == {s \in Spots : s[1] \in Z /\ refs[s[1]][s[2]] = q}

(* The pointers out of one object count as its fields do. *)
LEMMA OutOfOne ==
  ASSUME NEW o \in Objects, NEW q
  PROVE  /\ Out({o}, q) = {o} \X {f \in Fields(o[1]) : refs[o][f] = q}
         /\ IsFiniteSet(Out({o}, q)) /\ Cardinality(Out({o}, q)) = CountOf(refs[o], Fields(o[1]), q)
<1> DEFINE F == {f \in Fields(o[1]) : refs[o][f] = q}
<1>1. \A s : s \in Out({o}, q) <=> s \in {o} \X F
  <2>1. \A s : s \in {o} \X F <=> s = <<o, s[2]>> /\ s[2] \in F
    OBVIOUS
  <2>2. \A s : s \in Out({o}, q) <=> s \in Spots /\ s[1] = o /\ refs[o][s[2]] = q
    BY DEF Out
  <2>3. \A s : s \in Spots /\ s[1] = o <=> s = <<o, s[2]>> /\ s[2] \in Fields(o[1])
    BY SpotsAre
  <2>4. QED
    BY <2>1, <2>2, <2>3
<1>2. Out({o}, q) = {o} \X F
  BY <1>1 DEF Out
<1>3. IsFiniteSet(F)
  BY ObjectsAre, FieldsFinite, FS_Subset
<1>4. Cardinality(F) = CountOf(refs[o], Fields(o[1]), q)
  BY DEF CountOf
<1>5. Out({o}, q) = {o} \X {f \in Fields(o[1]) : refs[o][f] = q}
  BY <1>2
<1> HIDE DEF F
<1>6. IsFiniteSet({o} \X F) /\ Cardinality({o} \X F) = Cardinality(F)
  BY <1>3, OwnPointers
<1>7. QED
  BY <1>2, <1>4, <1>5, <1>6

(* A call of release() for o comes next.                                   *)
FirstIs(o) == todo # << >> /\ Head(todo)[1] = "release" /\ o = Head(todo)[2] /\ o # Null

(* The objects in Z are cleared, and R comes of it.                        *)
Clears(Z, R) ==
  /\ refcnt' = [p \in Objects |-> IF p \in Z THEN 0 ELSE refcnt[p]]
  /\ refs' = [p \in Objects |-> IF p \in Z THEN NoRefs(p[1]) ELSE refs[p]]
  /\ todo' = R \o Tail(todo)
  /\ UNCHANGED <<next_free_slot, held, fault>>

(* What is known of o then.                                                *)
LEMMA FirstIsOwed ==
  ASSUME IInv, NEW o, FirstIs(o)
  PROVE  /\ o \in Objects /\ o # Null /\ refcnt[o] \in Nat \ {0}
         /\ todo \in Seq(Steps) /\ todo # << >> /\ Head(todo)[1] = "release"
         /\ 1 \in 1..Len(todo) /\ todo[1] = <<"release", o>>
         /\ \A q \in Objects :
              /\ Dues(todo, q) = (IF q = o THEN 1 ELSE 0) + Dues(Tail(todo), q)
              /\ Dues(Tail(todo), q) \in Nat
BY FirstRelease DEF FirstIs

(* Objects that nothing refers to but themselves are cleared, and what     *)
(* they refer to is owed as releases.                                      *)
LEMMA ClearPreserves ==
  ASSUME IInv, todo # << >>, Head(todo)[1] = "release",
         NEW Z \in SUBSET Objects, NEW R \in Seq(Releases),
         \A z \in Z : z \notin held /\ Dues(Tail(todo), z) = 0 /\ Dues(R, z) = 0,
         \A z \in Z : Pointers(refs, todo, z) \subseteq Out(Z, z),
         \A q \in Objects \ Z : Dues(Tail(todo), q) = Dues(todo, q),
         \A q \in Objects \ Z : Dues(R, q) = Cardinality(Out(Z, q)),
         \A n \in 1..Capacity["swapchain"] : <<"swapchain", n>> \in Z <=> <<"swapImage", n>> \in Z,
         Clears(Z, R)
  PROVE  IInv'
<1> USE DEF Clears
<1>1. /\ todo' \in Seq(Steps)
      /\ \A p, f : Overwritten(todo', p, f) <=> Overwritten(todo, p, f)
      /\ \A q \in Objects : Dues(todo', q) = Dues(R, q) + Dues(Tail(todo), q)
                              /\ Dues(R, q) \in Nat
      /\ StoresHeld' /\ StoresDiffer' /\ SwapchainGoes'
  BY StoresStay
<1>2. \A p \in Z : /\ p[1] \in Kinds \cup {"swapImage"}
                   /\ NoRefs(p[1]) \in [Fields(p[1]) -> Targets]
                   /\ \A f \in Fields(p[1]) : NoRefs(p[1])[f] = Null
  BY ObjectsAre, NoRefsIsNull
<1>3. /\ \A p \in Objects : refs'[p] \in [Fields(p[1]) -> Targets]
      /\ \A p \in Z : \A f \in Fields(p[1]) : refs'[p][f] = Null
      /\ \A p \in Objects \ Z : refs'[p] = refs[p] /\ refcnt'[p] = refcnt[p]
      /\ \A p \in Z : refcnt'[p] = 0
  BY <1>2 DEF IInv, Typed
<1>4. Typed'
  BY <1>1, <1>3 DEF IInv, Typed
<1>5. CountsMidCall'
  <2> SUFFICES ASSUME NEW q \in Objects
               PROVE  refcnt'[q] = Cardinality(Pointers(refs', todo', q)) + Dues(todo', q)
                                     + Once(q, held')
    BY DEF CountsMidCall
  <2>1. \A p \in Z : \A f : ~ Overwritten(todo, p, f)
    BY DEF Overwritten, IInv, StoresHeld
  <2>2. q # Null
    BY ObjectsAre
  <2>3. \A s \in Spots : s \in Pointers(refs', todo', q) <=>
                           s \in Pointers(refs, todo, q) /\ s[1] \notin Z
    <3> SUFFICES ASSUME NEW s \in Spots
                 PROVE  s \in Pointers(refs', todo', q) <=>
                          s \in Pointers(refs, todo, q) /\ s[1] \notin Z
      OBVIOUS
    <3>1. s[1] \in Objects /\ s[2] \in Fields(s[1][1])
      BY SpotsAre
    <3>2. CASE s[1] \in Z
      BY <1>3, <2>2, <3>1, <3>2 DEF Pointers
    <3>3. CASE s[1] \notin Z
      BY <1>1, <1>3, <3>1, <3>3 DEF Pointers
    <3>4. QED
      BY <3>2, <3>3
  <2>4. \A s \in Spots : s \in Out(Z, q) <=> s \in Pointers(refs, todo, q) /\ s[1] \in Z
    BY <2>1 DEF Out, Pointers
  <2>5. /\ Pointers(refs', todo', q) \subseteq Spots /\ Pointers(refs, todo, q) \subseteq Spots
        /\ Out(Z, q) \subseteq Spots /\ IsFiniteSet(Out(Z, q))
    BY SpotsFinite, FS_Subset DEF Pointers, Out
  <2>6. /\ Pointers(refs, todo, q) = Pointers(refs', todo', q) \cup Out(Z, q)
        /\ Pointers(refs', todo', q) \cap Out(Z, q) = {}
    BY <2>3, <2>4, <2>5
  <2>7. /\ Cardinality(Pointers(refs, todo, q))
             = Cardinality(Pointers(refs', todo', q)) + Cardinality(Out(Z, q))
        /\ Cardinality(Pointers(refs', todo', q)) \in Nat /\ Cardinality(Out(Z, q)) \in Nat
    BY <2>5, <2>6, PointersType, CardinalityOfSum, FS_CardinalityType
  <2>8. refcnt[q] = Cardinality(Pointers(refs, todo, q)) + Dues(todo, q) + Once(q, held)
    BY DEF IInv, CountsMidCall
  <2>9. Dues(todo', q) = Dues(R, q) + Dues(Tail(todo), q) /\ Once(q, held) \in Nat
        /\ Dues(Tail(todo), q) \in Nat
    BY <1>1, FirstRelease DEF Once
  <2>10. CASE q \in Z
    <3>1. Pointers(refs', todo', q) = {}
      BY <2>3, <2>4, <2>5, <2>10
    <3>2. Cardinality(Pointers(refs', todo', q)) = 0
      BY <3>1, FS_EmptySet
    <3>3. QED
      BY <1>3, <2>9, <2>10, <3>2 DEF Once
  <2>11. CASE q \notin Z
    BY <1>3, <2>7, <2>8, <2>9, <2>11
  <2>12. QED
    BY <2>10, <2>11
<1>6. FreeIsBlank' /\ Downward'
  BY <1>3 DEF IInv, FreeIsBlank, Downward
<1>7. SwapchainWhole'
  <2> SUFFICES ASSUME NEW n \in 1..Capacity["swapchain"]
               PROVE  LET chain == <<"swapchain", n>>  image == <<"swapImage", n>>
                      IN  /\ refcnt'[chain] = 0 <=> refcnt'[image] = 0
                          /\ refcnt'[chain] # 0 =>
                               refs'[chain].images = image /\ refs'[chain].surface # image
    BY DEF SwapchainWhole
  <2> DEFINE chain == <<"swapchain", n>>
             image == <<"swapImage", n>>
  <2>1. /\ refcnt[chain] = 0 <=> refcnt[image] = 0
        /\ refcnt[chain] # 0 => refs[chain].images = image /\ refs[chain].surface # image
    BY DEF IInv, SwapchainWhole
  <2>2. chain \in Objects /\ image \in Objects /\ (chain \in Z <=> image \in Z)
    BY ObjectsAre DEF Kinds
  <2> HIDE DEF chain, image
  <2>3. CASE chain \in Z
    BY <1>3, <2>2, <2>3 DEF chain, image
  <2>4. CASE chain \notin Z
    <3>1. /\ refs'[chain] = refs[chain] /\ refcnt'[chain] = refcnt[chain]
          /\ refcnt'[image] = refcnt[image]
      BY <1>3, <2>2, <2>4
    <3>2. QED
      BY <2>1, <3>1 DEF chain, image
  <2>5. QED
    BY <2>3, <2>4
<1>8. QED
  BY <1>1, <1>4, <1>5, <1>6, <1>7 DEF IInv

(* A release that leaves a count behind. *)
LEMMA CountDownPreserves ==
  ASSUME IInv, todo # << >>, Head(todo)[1] = "release",
         NEW o, o = Head(todo)[2], o # Null, refcnt[o] # 1,
         refcnt' = [refcnt EXCEPT ![o] = @ - 1], todo' = Tail(todo),
         UNCHANGED <<refs, next_free_slot, held, fault>>
  PROVE  IInv'
<1>1. /\ o \in Objects /\ refcnt[o] \in Nat \ {0, 1}
      /\ todo \in Seq(Steps) /\ todo[1] = <<"release", o>> /\ 1 \in 1..Len(todo)
      /\ \A q \in Objects :
           /\ Dues(todo, q) = (IF q = o THEN 1 ELSE 0) + Dues(Tail(todo), q)
           /\ Dues(Tail(todo), q) \in Nat
  BY FirstRelease
<1>2. << >> \in Seq(Releases) /\ todo' = << >> \o Tail(todo)
  BY <1>1, TailMoves
<1>3. /\ todo' \in Seq(Steps)
      /\ \A p, f : Overwritten(todo', p, f) <=> Overwritten(todo, p, f)
      /\ StoresHeld' /\ StoresDiffer' /\ SwapchainGoes'
  BY <1>2, StoresStay
<1>4. \A p \in Objects : refcnt'[p] = (IF p = o THEN refcnt[p] - 1 ELSE refcnt[p])
                           /\ (refcnt'[p] = 0 <=> refcnt[p] = 0)
  BY <1>1 DEF IInv, Typed
<1>5. Typed'
  BY <1>1, <1>3 DEF IInv, Typed
<1>6. CountsMidCall'
  <2> SUFFICES ASSUME NEW q \in Objects
               PROVE  refcnt'[q] = Cardinality(Pointers(refs', todo', q)) + Dues(todo', q)
                                     + Once(q, held')
    BY DEF CountsMidCall
  <2>1. Pointers(refs', todo', q) = Pointers(refs, todo, q)
    BY <1>3 DEF Pointers
  <2>2. refcnt[q] = Cardinality(Pointers(refs, todo, q)) + Dues(todo, q) + Once(q, held)
    BY DEF IInv, CountsMidCall
  <2>3. Cardinality(Pointers(refs, todo, q)) \in Nat /\ Once(q, held) \in Nat
    BY PointersType DEF Once
  <2>4. Once(q, held') = Once(q, held)
    OBVIOUS
  <2>5. Dues(todo', q) = Dues(Tail(todo), q)
    OBVIOUS
  <2>6. /\ Dues(todo, q) = (IF q = o THEN 1 ELSE 0) + Dues(todo', q) /\ Dues(todo', q) \in Nat
        /\ refcnt'[q] = IF q = o THEN refcnt[q] - 1 ELSE refcnt[q]
    BY <1>1, <1>4, <2>5
  <2> DEFINE c == Cardinality(Pointers(refs, todo, q))
             d == Dues(todo, q)
             e == Dues(todo', q)
             n == Once(q, held)
  <2>7. /\ c \in Nat /\ e \in Nat /\ n \in Nat /\ refcnt[q] = c + d + n
        /\ d = (IF q = o THEN 1 ELSE 0) + e
    BY <2>2, <2>3, <2>6
  <2> HIDE DEF c, d, e, n
  <2>8. refcnt'[q] = c + e + n
    BY <2>6, <2>7
  <2>9. QED
    BY <2>1, <2>4, <2>8 DEF c, e, n
<1>7. FreeIsBlank' /\ Downward' /\ SwapchainWhole'
  <2>1. \A n \in 1..Capacity["swapchain"] :
          <<"swapchain", n>> \in Objects /\ <<"swapImage", n>> \in Objects
    BY ObjectsAre DEF Kinds
  <2>2. QED
    BY <1>4, <2>1 DEF IInv, FreeIsBlank, Downward, SwapchainWhole
<1>8. QED
  BY <1>3, <1>5, <1>6, <1>7 DEF IInv


(* An object other than a swapchain whose last holder lets go of it. *)
LEMMA LastReleasePreserves ==
  ASSUME IInv, NEW o, FirstIs(o), refcnt[o] = 1, o[1] # "swapchain",
         Clears({o}, ReleasesOf(o))
  PROVE  IInv'
<1>1. /\ o \in Objects /\ todo \in Seq(Steps) /\ todo # << >> /\ Head(todo)[1] = "release"
      /\ \A q \in Objects :
           /\ Dues(todo, q) = (IF q = o THEN 1 ELSE 0) + Dues(Tail(todo), q)
           /\ Dues(Tail(todo), q) \in Nat
  BY FirstIsOwed
<1>2. Pointers(refs, todo, o) = {} /\ Dues(Tail(todo), o) = 0 /\ o \notin held
  <2>1. refcnt[o] = Cardinality(Pointers(refs, todo, o)) + Dues(todo, o) + Once(o, held)
    BY <1>1 DEF IInv, CountsMidCall
  <2>2. Cardinality(Pointers(refs, todo, o)) \in Nat
    BY PointersType
  <2>3. /\ Cardinality(Pointers(refs, todo, o)) = 0 /\ Dues(Tail(todo), o) = 0
        /\ Once(o, held) = 0
    BY <1>1, <2>1, <2>2 DEF Once
  <2>4. QED
    BY <2>3, PointersType, FS_EmptySet DEF Once
<1>3. o[1] # "swapImage"
  <2> SUFFICES ASSUME o[1] = "swapImage" PROVE FALSE
    OBVIOUS
  <2> DEFINE n == o[2]
             chain == <<"swapchain", n>>
  <2>1. n \in 1..Capacity["swapchain"] /\ o = <<"swapImage", n>> /\ chain \in Objects
    BY <1>1, ObjectsAre DEF Kinds
  <2>2. refcnt[chain] # 0 /\ refs[chain].images = o
    BY <2>1 DEF IInv, SwapchainWhole
  <2>3. "images" \in Fields(chain[1]) /\ chain[1] # "set"
    BY FieldsOf
  <2>4. ~ Overwritten(todo, chain, "images")
    BY <2>3 DEF Overwritten, IInv, StoresHeld
  <2>5. <<chain, "images">> \in Pointers(refs, todo, o)
    BY <2>1, <2>2, <2>3, <2>4, SpotsAre DEF Pointers
  <2>6. QED
    BY <1>2, <2>5
<1>4. /\ ReleasesOf(o) \in Seq(Releases)
      /\ \A q \in Objects : Dues(ReleasesOf(o), q) = CountOf(refs[o], Fields(o[1]), q)
      /\ \A q : Cardinality(Out({o}, q)) = CountOf(refs[o], Fields(o[1]), q)
  BY <1>1, ReleasesOfIs, OutOfOne
<1>5. Dues(ReleasesOf(o), o) = 0
  <2>1. Out({o}, o) = {}
    <3>1. \A f \in Fields(o[1]) : refs[o][f] # o
      <4>1. ~ Depth(o[1]) > Depth(o[1])
        BY DEF Depth
      <4>2. o # Null
        BY <1>1, ObjectsAre
      <4>3. QED
        BY <1>1, <4>1, <4>2 DEF IInv, Downward
    <3>2. QED
      BY <3>1, SpotsAre DEF Out
  <2>2. Cardinality(Out({o}, o)) = 0
    BY <2>1, FS_EmptySet
  <2>3. QED
    BY <1>1, <1>4, <2>2
<1>6. \A q \in Objects \ {o} : Dues(Tail(todo), q) = Dues(todo, q)
  BY <1>1
<1>7. \A n : <<"swapchain", n>> # o /\ <<"swapImage", n>> # o
  BY <1>3
<1> DEFINE Z == {o}
           R == ReleasesOf(o)
<1>8. /\ Z \in SUBSET Objects /\ R \in Seq(Releases)
      /\ \A z \in Z : z \notin held /\ Dues(Tail(todo), z) = 0 /\ Dues(R, z) = 0
      /\ \A z \in Z : Pointers(refs, todo, z) \subseteq Out(Z, z)
      /\ \A q \in Objects \ Z : Dues(Tail(todo), q) = Dues(todo, q)
      /\ \A q \in Objects \ Z : Dues(R, q) = Cardinality(Out(Z, q))
      /\ \A n \in 1..Capacity["swapchain"] : <<"swapchain", n>> \in Z <=> <<"swapImage", n>> \in Z
  BY <1>1, <1>2, <1>4, <1>5, <1>6, <1>7
<1>9. Clears(Z, R)
  OBVIOUS
<1> HIDE DEF Z, R
<1>10. QED
  BY <1>1, <1>8, <1>9, ClearPreserves

(* A swapchain goes with its images. *)
LEMMA SwapchainReleasePreserves ==
  ASSUME IInv, NEW o, FirstIs(o), refcnt[o] = 1, o[1] = "swapchain",
         Clears({o, refs[o].images}, ReleasesOf(o))
  PROVE  IInv'
<1> DEFINE image == <<"swapImage", o[2]>>
<1>1. /\ o \in Objects /\ todo \in Seq(Steps) /\ todo # << >> /\ Head(todo)[1] = "release"
      /\ 1 \in 1..Len(todo) /\ todo[1] = <<"release", o>>
      /\ \A q \in Objects :
           /\ Dues(todo, q) = (IF q = o THEN 1 ELSE 0) + Dues(Tail(todo), q)
           /\ Dues(Tail(todo), q) \in Nat
  BY FirstIsOwed
<1>2. /\ o[2] \in 1..Capacity["swapchain"] /\ o = <<"swapchain", o[2]>>
      /\ image = refs[o].images /\ image \in Objects /\ image \notin Pooled /\ image # Null
      /\ image # o /\ image[1] = "swapImage" /\ refs[o].surface # image
      /\ \A n : <<"swapImage", n>> = image <=> <<"swapchain", n>> = o
      /\ \A n : <<"swapImage", n>> # o /\ <<"swapchain", n>> # image
  <2>1. o[2] \in 1..Capacity["swapchain"] /\ o = <<"swapchain", o[2]>>
    BY <1>1, ObjectsAre
  <2>2. refs[o].images = <<"swapImage", o[2]>> /\ refs[o].surface # <<"swapImage", o[2]>>
    <3> DEFINE n == o[2]
    <3>1. n \in 1..Capacity["swapchain"] /\ <<"swapchain", n>> = o
          /\ refcnt[<<"swapchain", n>>] # 0
      BY <2>1
    <3> HIDE DEF n
    <3>2. refs[<<"swapchain", n>>].images = <<"swapImage", n>>
          /\ refs[<<"swapchain", n>>].surface # <<"swapImage", n>>
      BY <3>1 DEF IInv, SwapchainWhole
    <3>3. QED
      BY <3>1, <3>2 DEF n
  <2>3. image \in Objects /\ image \notin Pooled /\ image # Null /\ image # o
    BY <2>1, ObjectsAre
  <2>4. QED
    BY <2>1, <2>2, <2>3
<1> HIDE DEF image
<1>3. o \notin held /\ refcnt[image] = 1
  <2>1. todo[1][1] = "release" /\ todo[1][2] = o
    BY <1>1
  <2>2. QED
    BY <1>1, <1>2, <2>1 DEF IInv, SwapchainGoes
<1>4. /\ Fields(o[1]) = {"surface", "images"} /\ Fields(image[1]) = {"mem"}
      /\ refs[o].surface \in Targets /\ refs[image].mem \in Targets
  <2>1. Fields(o[1]) = {"surface", "images"} /\ Fields(image[1]) = {"mem"}
    BY <1>2, FieldsOf
  <2>2. QED
    BY <1>1, <1>2, <2>1 DEF IInv, Typed
<1>5. /\ refs[o].surface # o /\ refs[image].mem # o /\ refs[image].mem # image
  <2>1. /\ refs[o].surface # Null => Depth(refs[o].surface[1]) > Depth(o[1])
        /\ refs[image].mem # Null => Depth(refs[image].mem[1]) > Depth(image[1])
    BY <1>1, <1>2, <1>4 DEF IInv, Downward
  <2>2. Depth(o[1]) = 0 /\ Depth(image[1]) = 2
    BY <1>2 DEF Depth
  <2>3. QED
    BY <1>1, <1>2, <2>1, <2>2, ObjectsAre
<1> DEFINE Z == {o, image}
           R == ReleasesOf(o)
           S == Follow(o, "surface")
           M == Follow(image, "mem")
<1>6. /\ S \in Seq(Releases) /\ S \in Seq(Steps) /\ M \in Seq(Releases) /\ M \in Seq(Steps)
      /\ \A q \in Objects : Dues(S, q) = At(refs[o], "surface", q)
      /\ \A q \in Objects : Dues(M, q) = At(refs[image], "mem", q)
      /\ \A q \in Objects : At(refs[o], "surface", q) \in Nat /\ At(refs[image], "mem", q) \in Nat
  <2>1. "surface" \in Fields(o[1]) /\ "mem" \in Fields(image[1])
    BY <1>4
  <2>2. /\ S \in Seq(Releases) /\ S \in Seq(Steps)
        /\ \A q \in Objects : Dues(S, q) = At(refs[o], "surface", q)
                                /\ At(refs[o], "surface", q) \in Nat
    BY <1>1, <2>1, FollowIs
  <2>3. /\ M \in Seq(Releases) /\ M \in Seq(Steps)
        /\ \A q \in Objects : Dues(M, q) = At(refs[image], "mem", q)
                                /\ At(refs[image], "mem", q) \in Nat
    BY <1>2, <2>1, FollowIs
  <2>4. QED
    BY <2>2, <2>3
<1>7. /\ R \in Seq(Releases)
      /\ \A q \in Objects : Dues(R, q) = At(refs[o], "surface", q) + At(refs[image], "mem", q)
  <2>1. CASE refs[image].mem = Null
    <3>1. R = S \o << >>
      BY <1>2, <2>1 DEF ReleasesOf
    <3>2. R = S
      BY <1>6, <3>1
    <3>3. \A q \in Objects : At(refs[image], "mem", q) = 0
      BY <2>1, ObjectsAre DEF At
    <3> HIDE DEF R, S, M
    <3>4. QED
      BY <1>6, <3>2, <3>3
  <2>2. CASE refs[image].mem # Null
    <3>1. R = S \o M
      BY <1>2, <2>2 DEF ReleasesOf
    <3> HIDE DEF R, S, M
    <3>2. /\ S \o M \in Seq(Releases)
          /\ \A q \in Objects : Dues(S \o M, q) = Dues(S, q) + Dues(M, q)
      BY <1>6, FollowsAddUp
    <3>3. QED
      BY <1>6, <3>1, <3>2
  <2>3. QED
    BY <2>1, <2>2
<1> HIDE DEF R, S, M
<1>8. \A q \in Objects : Cardinality(Out(Z, q))
        = At(refs[o], "surface", q) + At(refs[o], "images", q) + At(refs[image], "mem", q)
  <2> TAKE q \in Objects
  <2>1. Out(Z, q) = Out({o}, q) \cup Out({image}, q) /\ Out({o}, q) \cap Out({image}, q) = {}
    BY <1>2 DEF Out
  <2>2. /\ IsFiniteSet(Out({o}, q)) /\ Cardinality(Out({o}, q)) = CountOf(refs[o], Fields(o[1]), q)
        /\ IsFiniteSet(Out({image}, q))
        /\ Cardinality(Out({image}, q)) = CountOf(refs[image], Fields(image[1]), q)
    BY <1>1, <1>2, OutOfOne
  <2> DEFINE a == "surface"
             b == "images"
             c == "mem"
  <2>3. a # b /\ a # c /\ Fields(o[1]) = {a, b} /\ Fields(image[1]) = {c}
    BY <1>4
  <2> HIDE DEF a, b, c
  <2>4. /\ CountOf(refs[o], {a, b}, q) = At(refs[o], a, q) + At(refs[o], b, q)
        /\ At(refs[o], a, q) \in Nat /\ At(refs[o], b, q) \in Nat
    BY <2>3, CountTwo
  <2>5. CountOf(refs[image], {c}, q) = At(refs[image], c, q) /\ At(refs[image], c, q) \in Nat
    BY CountOne
  <2> HIDE DEF Z
  <2>6. Cardinality(Out(Z, q)) = Cardinality(Out({o}, q)) + Cardinality(Out({image}, q))
    BY <2>1, <2>2, CardinalityOfSum
  <2>7. QED
    BY <2>2, <2>3, <2>4, <2>5, <2>6 DEF a, b, c
<1>9. Pointers(refs, todo, o) = {} /\ Dues(Tail(todo), o) = 0
  <2>1. refcnt[o] = Cardinality(Pointers(refs, todo, o)) + Dues(todo, o) + Once(o, held)
    BY <1>1 DEF IInv, CountsMidCall
  <2>2. Cardinality(Pointers(refs, todo, o)) = 0 /\ Dues(Tail(todo), o) = 0
    BY <1>1, <2>1, PointersType DEF Once
  <2>3. QED
    BY <2>2, PointersType, FS_EmptySet
<1>10. Pointers(refs, todo, image) = {<<o, "images">>} /\ Dues(Tail(todo), image) = 0
  <2>1. refcnt[image] = Cardinality(Pointers(refs, todo, image)) + Dues(todo, image)
                          + Once(image, held)
    BY <1>2 DEF IInv, CountsMidCall
  <2>2. ~ Overwritten(todo, o, "images")
    BY <1>2 DEF Overwritten, IInv, StoresHeld
  <2>3. <<o, "images">> \in Pointers(refs, todo, image)
    BY <1>1, <1>2, <1>4, <2>2, SpotsAre DEF Pointers
  <2>4. Cardinality(Pointers(refs, todo, image)) \in Nat \ {0}
    BY <2>3, PointersType, FS_EmptySet
  <2>5. Cardinality(Pointers(refs, todo, image)) = 1 /\ Dues(Tail(todo), image) = 0
    BY <1>1, <1>3, <1>2, <2>1, <2>4 DEF Once
  <2>6. \E x : Pointers(refs, todo, image) = {x}
    BY <2>5, PointersType, FS_Singleton
  <2>7. QED
    BY <2>3, <2>5, <2>6
<1>11. image \notin held
  BY <1>2, ObjectsAre DEF IInv, Typed
<1>12. /\ \A z \in Z : z \notin held /\ Dues(Tail(todo), z) = 0
       /\ \A z \in Z : Dues(R, z) = 0
       /\ \A z \in Z : Pointers(refs, todo, z) \subseteq Out(Z, z)
  <2>1. Dues(R, o) = 0 /\ Dues(R, image) = 0
    BY <1>1, <1>2, <1>5, <1>7 DEF At
  <2>2. <<o, "images">> \in Out(Z, image)
    BY <1>1, <1>2, <1>4, SpotsAre DEF Out
  <2>3. QED
    BY <1>3, <1>9, <1>10, <1>11, <2>1, <2>2
<1>13. \A q \in Objects \ Z : /\ Dues(Tail(todo), q) = Dues(todo, q)
                             /\ Dues(R, q) = Cardinality(Out(Z, q))
  <2> TAKE q \in Objects \ Z
  <2>1. At(refs[o], "images", q) = 0 /\ q # o
    BY <1>2 DEF At
  <2>2. Dues(Tail(todo), q) = Dues(todo, q)
    BY <1>1, <2>1
  <2>3. /\ Dues(R, q) = At(refs[o], "surface", q) + At(refs[image], "mem", q)
        /\ Cardinality(Out(Z, q)) = At(refs[o], "surface", q) + 0 + At(refs[image], "mem", q)
    BY <1>7, <1>8, <2>1
  <2>4. At(refs[o], "surface", q) \in Nat /\ At(refs[image], "mem", q) \in Nat
    BY <1>6
  <2> HIDE DEF Z
  <2>5. QED
    BY <2>2, <2>3, <2>4
<1>14. /\ Z \in SUBSET Objects
       /\ \A n \in 1..Capacity["swapchain"] : <<"swapchain", n>> \in Z <=> <<"swapImage", n>> \in Z
  BY <1>1, <1>2
<1>15. Clears(Z, R)
  BY <1>2 DEF R
<1> HIDE DEF Z
<1>16. QED
  BY <1>1, <1>7, <1>12, <1>13, <1>14, <1>15, ClearPreserves


(* One call of release(). *)
LEMMA ReleasePreserves ==
  ASSUME IInv, Release
  PROVE  IInv'
<1> DEFINE o == Head(todo)[2]
<1>1. /\ todo # << >> /\ Head(todo)[1] = "release" /\ next_free_slot' = next_free_slot
      /\ held' = held
  BY DEF Release
<1>2. CASE o = Null
  <2>1. UNCHANGED <<refcnt, refs, todo, next_free_slot, held>> /\ fault' = "NULL"
    BY <1>2 DEF Release
  <2>2. QED
    BY <2>1 DEF IInv, Typed, CountsMidCall, FreeIsBlank, Downward, SwapchainWhole,
                StoresHeld, StoresDiffer, SwapchainGoes
<1>3. CASE o # Null /\ refcnt[o] # 1
  <2>1. /\ refcnt' = [refcnt EXCEPT ![o] = @ - 1] /\ todo' = Tail(todo)
        /\ UNCHANGED <<refs, next_free_slot, held, fault>>
    BY <1>3 DEF Release
  <2>2. QED
    BY <1>1, <1>3, <2>1, CountDownPreserves
<1>4. CASE o # Null /\ refcnt[o] = 1 /\ o[1] # "swapchain"
  <2>1. FirstIs(o) /\ Clears({o}, ReleasesOf(o))
    BY <1>1, <1>4 DEF Release, FirstIs, Clears
  <2> HIDE DEF o
  <2>2. QED
    BY <1>4, <2>1, LastReleasePreserves
<1>5. CASE o # Null /\ refcnt[o] = 1 /\ o[1] = "swapchain"
  <2>1. FirstIs(o) /\ Clears({o, refs[o].images}, ReleasesOf(o))
    BY <1>1, <1>5 DEF Release, FirstIs, Clears
  <2> HIDE DEF o
  <2>2. QED
    BY <1>5, <2>1, SwapchainReleasePreserves
<1>6. QED
  BY <1>2, <1>3, <1>4, <1>5

-----------------------------------------------------------------------------
(* The theorems.                                                           *)

(* Every step of an orderly application's calls preserves the invariant. *)
LEMMA NextPreserves ==
  ASSUME Orderly, IInv, [Next]_vars
  PROVE  IInv'
<1>1. CASE CreateAny
  BY <1>1, SimpleCreatesPreserve, SwapchainPreserves DEF CreateAny
<1>2. CASE vkBindBufferMemory \/ vkBindImageMemory
  BY <1>2, BindPreserves DEF vkBindBufferMemory, vkBindImageMemory
<1>3. CASE vkUpdateDescriptorSetsImage
  BY <1>3, UpdateImagePreserves
<1>4. CASE vkUpdateDescriptorSetsBuffer
  BY <1>4, UpdateBufferPreserves
<1>5. CASE DestroyOne
  BY <1>5, DestroyOnePreserves
<1>6. CASE Release
  BY <1>6, ReleasePreserves
<1>7. CASE Store
  BY <1>7, StorePreserves
<1>8. CASE UNCHANGED vars
  BY <1>8 DEF vars, IInv, Typed, CountsMidCall, FreeIsBlank, Downward, SwapchainWhole,
              StoresHeld, StoresDiffer, SwapchainGoes
<1>9. QED
  BY <1>1, <1>2, <1>3, <1>4, <1>5, <1>6, <1>7, <1>8 DEF Next

(* When the application is orderly, the count of an object is at every     *)
(* moment, in the middle of a call too, the number of its pointers that    *)
(* are there to stay, of its releases still to come, and of the handle.    *)
THEOREM CountsHold ==
  ASSUME Orderly
  PROVE  Spec => []IInv
<1>1. Init => IInv
  BY InitIInv
<1>2. IInv /\ [Next]_vars => IInv'
  BY NextPreserves
<1>3. QED
  BY <1>1, <1>2, PTL DEF Spec

(* The variables have their types: counts never go below 0, and a pointer  *)
(* is NULL or leads to an object.                                          *)
THEOREM TypeCorrect ==
  ASSUME Orderly
  PROVE  Spec => []TypeOK
<1>1. IInv => TypeOK
  BY DEF IInv, Typed, TypeOK, Fields, Targets
<1>2. QED
  BY <1>1, CountsHold, PTL

(* Between two calls the reference counts of vk.hpp are exact, whatever    *)
(* objects were created, bound, written to descriptors and destroyed.      *)
THEOREM CountsAreExactThm ==
  ASSUME Orderly
  PROVE  Spec => []CountsAreExact
<1>1. IInv => CountsAreExact
  <2> SUFFICES ASSUME IInv, Idle, NEW o \in Objects
               PROVE  refcnt[o] = Cardinality(PointersAt(o)) + (IF o \in held THEN 1 ELSE 0)
    BY DEF CountsAreExact
  <2>1. todo = << >>
    BY DEF Idle
  <2>2. PointersAt(o) = Pointers(refs, << >>, o)
    <3>1. \A p \in Objects : DOMAIN refs[p] = Fields(p[1])
      BY DEF IInv, Typed
    <3>2. \A x : x \in PointersAt(o) <=>
            \E p \in Objects : \E f \in Fields(p[1]) : x = <<p, f>> /\ refs[p][f] = o
      BY <3>1 DEF PointersAt
    <3>3. \A x : x \in Pointers(refs, << >>, o) <=> x \in Spots /\ refs[x[1]][x[2]] = o
      BY IdlePointers
    <3>4. \A x \in PointersAt(o) : x \in Pointers(refs, << >>, o)
      BY <3>2, <3>3, SpotsAre
    <3>5. \A x \in Pointers(refs, << >>, o) : x \in PointersAt(o)
      BY <3>2, <3>3, SpotsAre
    <3>6. QED
      BY <3>4, <3>5
  <2>3. refcnt[o] = Cardinality(Pointers(refs, << >>, o)) + 0 + Once(o, held)
    BY <2>1, DuesEmpty DEF IInv, CountsMidCall
  <2>4. QED
    BY <2>2, <2>3, PointersType DEF Once
<1>2. QED
  BY <1>1, CountsHold, PTL

(* What is about to be released is live, and so is what a live object      *)
(* points to, in the middle of a call too: no driver structure is reached  *)
(* through a pointer after its slot was given back.                        *)
THEOREM NoUseAfterFreeThm ==
  ASSUME Orderly
  PROVE  Spec => []NoUseAfterFree
<1>1. IInv => NoUseAfterFree
  <2> SUFFICES ASSUME IInv PROVE NoUseAfterFree
    OBVIOUS
  <2>1. ASSUME NEW i \in 1..Len(todo), todo[i][1] = "release"
        PROVE  todo[i][2] \in Live \cup {Null}
    <3> DEFINE o == todo[i][2]
    <3>1. todo \in Seq(Steps) /\ todo[i] \in Steps
      BY DEF IInv, Typed
    <3>2. todo[i] = <<"release", o>> /\ o \in Targets
      BY <2>1, <3>1 DEF Steps
    <3> HIDE DEF o
    <3>3. CASE o \in Objects
      <4>1. i \in Owed(todo, o)
        BY <3>2 DEF Owed
      <4>2. Dues(todo, o) \in Nat \ {0}
        BY <3>1, <4>1, DuesType, FS_EmptySet DEF Dues
      <4>3. refcnt[o] = Cardinality(Pointers(refs, todo, o)) + Dues(todo, o) + Once(o, held)
        BY <3>3 DEF IInv, CountsMidCall
      <4>4. refcnt[o] # 0
        BY <4>2, <4>3, PointersType DEF Once
      <4>5. QED
        BY <3>3, <4>4 DEF Live, o
    <3>4. QED
      BY <3>2, <3>3 DEF Targets, o
  <2>2. ASSUME NEW o \in Live, NEW f \in DOMAIN refs[o]
        PROVE  refs[o][f] \in Live \cup {Null} \/ BeingReplaced(o, f)
    <3>1. o \in Objects /\ f \in Fields(o[1])
      BY DEF Live, IInv, Typed
    <3>2. CASE refs[o][f] # Null /\ ~ Overwritten(todo, o, f)
      <4>1. refs[o][f] \in Objects /\ refcnt[refs[o][f]] # 0
        BY <3>1, <3>2, PointedIsLive
      <4>2. QED
        BY <4>1 DEF Live
    <3>3. QED
      BY <3>2 DEF Overwritten, BeingReplaced
  <2>3. QED
    BY <2>1, <2>2 DEF NoUseAfterFree
<1>2. QED
  BY <1>1, CountsHold, PTL


(* What objects point to: that which is in one of their fields. *)
LEMMA PointedFromIs ==
  ASSUME NEW S, NEW q
  PROVE  q \in PointedFrom(S) <=> q # Null /\ \E o \in S : \E f \in DOMAIN refs[o] : q = refs[o][f]
<1> DEFINE T(o) == {refs[o][f] : f \in DOMAIN refs[o]}
           U == UNION {T(o) : o \in S}
<1>1. \A o : q \in T(o) <=> \E f \in DOMAIN refs[o] : q = refs[o][f]
  OBVIOUS
<1>2. PointedFrom(S) = U \ {Null}
  BY DEF PointedFrom
<1> HIDE DEF T
<1>3. q \in U <=> \E o \in S : q \in T(o)
  OBVIOUS
<1> HIDE DEF U
<1>4. q \in PointedFrom(S) <=> q # Null /\ \E o \in S : q \in T(o)
  BY <1>2, <1>3
<1>5. QED
  BY <1>1, <1>4

(* A live object is held, or a live object of lower depth points to it. *)
LEMMA LiveIsReached ==
  ASSUME IInv, Idle, NEW o \in Live, o \notin held
  PROVE  \E p \in Live : /\ o \in PointedFrom({p})
                         /\ Depth(p[1]) < Depth(o[1])
<1>1. o \in Objects /\ refcnt[o] # 0 /\ todo = << >> /\ o # Null
  BY ObjectsAre DEF Live, Idle
<1>2. refcnt[o] = Cardinality(Pointers(refs, << >>, o)) + 0 + 0
  BY <1>1, DuesEmpty DEF IInv, CountsMidCall, Once
<1>3. Cardinality(Pointers(refs, << >>, o)) # 0
  BY <1>1, <1>2
<1>4. Pointers(refs, << >>, o) # {}
  BY <1>3, FS_EmptySet
<1>5. PICK s \in Spots : refs[s[1]][s[2]] = o
  BY <1>4 DEF Pointers
<1> DEFINE p == s[1]
           f == s[2]
<1>6. p \in Objects /\ f \in Fields(p[1]) /\ refs[p][f] = o
  BY <1>5, SpotsAre
<1> HIDE DEF p, f
<1>7. refcnt[p] # 0
  BY <1>1, <1>6 DEF IInv, FreeIsBlank
<1>8. Depth(p[1]) < Depth(o[1])
  <2>1. Depth(o[1]) > Depth(p[1]) /\ Depth(o[1]) \in Int /\ Depth(p[1]) \in Int
    BY <1>1, <1>6 DEF IInv, Downward, Depth
  <2>2. QED
    BY <2>1
<1>9. o \in PointedFrom({p})
  <2>1. f \in DOMAIN refs[p]
    BY <1>6 DEF IInv, Typed
  <2>2. QED
    BY <1>1, <1>6, <2>1, PointedFromIs
<1>10. QED
  BY <1>6, <1>7, <1>8, <1>9 DEF Live

(* What objects in S or T point to is what those of S and of T point to. *)
LEMMA PointedFromGrows ==
  ASSUME NEW S, NEW p \in S
  PROVE  PointedFrom({p}) \subseteq PointedFrom(S)
BY PointedFromIs

(* What live objects point to is live. *)
LEMMA PointedFromLive ==
  ASSUME IInv, Idle, NEW S, S \subseteq Live
  PROVE  S \cup PointedFrom(S) \subseteq Live
<1> SUFFICES ASSUME NEW q \in PointedFrom(S) PROVE q \in Live
  OBVIOUS
<1>1. PICK o \in S : \E g \in DOMAIN refs[o] : q = refs[o][g] /\ q # Null
  BY PointedFromIs
<1> PICK f \in DOMAIN refs[o] : q = refs[o][f] /\ q # Null
  BY <1>1
<1>2. o \in Objects /\ f \in Fields(o[1])
  BY <1>1 DEF Live, IInv, Typed
<1>3. ~ Overwritten(todo, o, f)
  BY DEF Idle, Overwritten
<1>4. QED
  BY <1>2, <1>3, PointedIsLive DEF Live

(* Between two calls, an object lives exactly if the application can still *)
(* get at it: what it gave up has gone, with all that only led there.      *)
THEOREM LiveIffNeededThm ==
  ASSUME Orderly
  PROVE  Spec => []LiveIffNeeded
<1>1. IInv => LiveIffNeeded
  <2> SUFFICES ASSUME IInv, Idle PROVE Live = Needed
    BY DEF LiveIffNeeded
  <2> DEFINE With1(S) == S \cup PointedFrom(S)
             N1 == With1(held)
             N2 == With1(N1)
             N3 == With1(N2)
  <2>1. Needed = N3
    BY DEF Needed
  <2>2. \A S, o, p : p \in S /\ o \in PointedFrom({p}) => o \in With1(S)
    BY PointedFromGrows
  <2>3. held \subseteq Live
    BY HeldIsLive DEF Live
  <2>4. \A S : S \subseteq Live => With1(S) \subseteq Live
    BY PointedFromLive
  <2>5. \A S : S \subseteq With1(S)
    OBVIOUS
  <2> HIDE DEF With1
  <2>6. N3 \subseteq Live
    BY <2>3, <2>4
  <2>7. \A o : Depth(o[1]) \in 0..3
    BY DEF Depth
  <2>8. \A o \in Live : Depth(o[1]) = 0 => o \in held
    <3> SUFFICES ASSUME NEW o \in Live, Depth(o[1]) = 0, o \notin held PROVE FALSE
      OBVIOUS
    <3>1. PICK p \in Live : o \in PointedFrom({p}) /\ Depth(p[1]) < Depth(o[1])
      BY LiveIsReached
    <3>2. Depth(p[1]) \in 0..3
      BY <2>7
    <3>3. QED
      BY <3>1, <3>2
  <2>9. \A o \in Live : Depth(o[1]) <= 1 => o \in N1
    <3> SUFFICES ASSUME NEW o \in Live, Depth(o[1]) <= 1, o \notin held PROVE o \in N1
      BY <2>5
    <3>1. PICK p \in Live : o \in PointedFrom({p}) /\ Depth(p[1]) < Depth(o[1])
      BY LiveIsReached
    <3>2. p \in held
      BY <2>7, <2>8, <3>1
    <3>3. QED
      BY <2>2, <3>1, <3>2
  <2>10. \A o \in Live : Depth(o[1]) <= 2 => o \in N2
    <3> SUFFICES ASSUME NEW o \in Live, Depth(o[1]) <= 2, o \notin held PROVE o \in N2
      BY <2>5
    <3>1. PICK p \in Live : o \in PointedFrom({p}) /\ Depth(p[1]) < Depth(o[1])
      BY LiveIsReached
    <3>2. p \in N1
      BY <2>7, <2>9, <3>1
    <3>3. QED
      BY <2>2, <3>1, <3>2
  <2>11. \A o \in Live : o \in N3
    <3> SUFFICES ASSUME NEW o \in Live, o \notin held PROVE o \in N3
      BY <2>5
    <3>1. PICK p \in Live : o \in PointedFrom({p}) /\ Depth(p[1]) < Depth(o[1])
      BY LiveIsReached
    <3>2. p \in N2
      BY <2>7, <2>10, <3>1
    <3>3. QED
      BY <2>2, <3>1, <3>2
  <2>12. QED
    BY <2>1, <2>6, <2>11
<1>2. QED
  BY <1>1, CountsHold, PTL

-----------------------------------------------------------------------------
(* Full pools.                                                             *)

(* A step that ends with a pool's assertion failing found that pool full. *)
LEMMA OnlyFullPoolsFail ==
  ASSUME Next, NEW kind \in Kinds, fault' = kind
  PROVE  Idle /\ PoolFull(kind)
<1>1. kind # "NULL" /\ kind # "none"
  BY DEF Kinds
<1>2. ASSUME NEW k, NEW pointers, Create(k, pointers)
      PROVE  Idle /\ PoolFull(kind)
  BY <1>1, <1>2 DEF Create, PoolFull, Idle
<1>3. CASE CreateAny
  <2>1. CASE vkCreateSwapchainKHR
    BY <1>1, <2>1 DEF vkCreateSwapchainKHR, PoolFull, Idle
  <2>2. QED
    BY <1>2, <1>3, <2>1
    DEF CreateAny, vkAllocateMemory, vkCreateBuffer, vkCreateImage, vkCreateSampler,
        vkCreateShaderModule, vkCreateRenderPass, vkCreateDescriptorSetLayout,
        vkCreateDescriptorPool, vkCreateXcbSurfaceKHR, vkCreateBufferView,
        vkCreateImageView, vkCreatePipelineLayout, vkCreateFramebuffer,
        vkCreateGraphicsPipelines, vkAllocateDescriptorSets
<1>4. CASE vkBindBufferMemory \/ vkBindImageMemory
  BY <1>1, <1>4 DEF vkBindBufferMemory, vkBindImageMemory, BindMemory, Idle
<1>5. CASE vkUpdateDescriptorSetsImage \/ vkUpdateDescriptorSetsBuffer
  BY <1>1, <1>5 DEF vkUpdateDescriptorSetsImage, vkUpdateDescriptorSetsBuffer, Idle
<1>6. CASE DestroyOne
  BY <1>1, <1>6
  DEF DestroyOne, DestroyAny, Destroy, Idle, vkFreeMemory, vkDestroyBuffer, vkDestroyBufferView,
      vkDestroyImage, vkDestroyImageView, vkDestroySampler, vkDestroyShaderModule,
      vkDestroyRenderPass, vkDestroyFramebuffer, vkDestroyDescriptorSetLayout,
      vkFreeDescriptorSets, vkDestroyPipelineLayout, vkDestroyPipeline, vkDestroySurfaceKHR,
      vkDestroyDescriptorPool, vkResetDescriptorPool, vkDestroySwapchainKHR
<1>7. CASE Release \/ Store
  BY <1>1, <1>7 DEF Release, Store
<1>8. QED
  BY <1>3, <1>4, <1>5, <1>6, <1>7 DEF Next

(* When every slot of a kind that nothing points to is taken, the          *)
(* application holds an object in each of them.                            *)
LEMMA FullPoolIsHeld ==
  ASSUME IInv, todo = << >>, NEW kind \in Kinds, Depth(kind) = 0, FreeSlots(kind, 1) = {}
  PROVE  Cardinality(Held(kind)) = Capacity[kind]
<1> DEFINE n == Capacity[kind]
<1>1. n \in Nat
  BY CapacityAssumption
<1>2. ASSUME NEW i \in 1..n
      PROVE  <<kind, i>> \in held
  <2> DEFINE o == <<kind, i>>
  <2>1. o \in Objects /\ refcnt[o] # 0
    BY ObjectsAre DEF FreeSlots
  <2>2. ASSUME o \notin held PROVE FALSE
    <3>1. refcnt[o] = Cardinality(Pointers(refs, << >>, o)) + 0 + 0
      BY <2>1, <2>2, DuesEmpty DEF IInv, CountsMidCall, Once
    <3>2. Pointers(refs, << >>, o) # {}
      <4>1. Cardinality(Pointers(refs, << >>, o)) # 0
        BY <2>1, <3>1
      <4>2. QED
        BY <4>1, FS_EmptySet
    <3>3. PICK s \in Spots : refs[s[1]][s[2]] = o
      BY <3>2 DEF Pointers
    <3>4. s[1] \in Objects /\ s[2] \in Fields(s[1][1])
      BY SpotsAre
    <3>5. o # Null /\ o[1] = kind
      BY <2>1, ObjectsAre
    <3> HIDE DEF o
    <3>6. Depth(o[1]) > Depth(s[1][1])
      BY <3>3, <3>4, <3>5 DEF IInv, Downward
    <3>7. QED
      BY <3>5, <3>6 DEF Depth
  <2>3. QED
    BY <2>2
<1>3. Held(kind) = {kind} \X (1..n)
  <2>1. \A o \in held : o[1] = kind => o[2] \in 1..n /\ o = <<kind, o[2]>>
    BY DEF IInv, Typed, Pooled
  <2>2. \A o : o \in Held(kind) <=> o \in held /\ o[1] = kind
    BY DEF Held
  <2>3. \A o : o \in {kind} \X (1..n) <=> o = <<kind, o[2]>> /\ o[2] \in 1..n
    OBVIOUS
  <2> HIDE DEF n
  <2>4. QED
    BY <1>2, <2>1, <2>2, <2>3
<1> HIDE DEF n
<1>4. IsFiniteSet(1..n) /\ Cardinality(1..n) = n
  <2>1. 1 \in Int /\ n \in Int
    BY <1>1
  <2>2. IsFiniteSet(1..n) /\ Cardinality(1..n) = IF 1 > n THEN 0 ELSE n - 1 + 1
    BY <2>1, FS_Interval
  <2>3. QED
    BY <1>1, <2>2
<1>5. Cardinality({kind} \X (1..n)) = n
  BY <1>4, OwnPointers
<1>6. QED
  BY <1>3, <1>5 DEF n

(* find_next_free_slot only fails for descriptor sets when the application *)
(* holds as many as the pool has slots: no set is ever lost.               *)
THEOREM DescriptorSetsFitThm ==
  ASSUME Orderly
  PROVE  Spec => []DescriptorSetsFit
<1>1. "set" \in Kinds /\ Depth("set") = 0 /\ "set" # "none"
  BY DEF Kinds, Depth
<1>2. Init => DescriptorSetsFit
  BY DEF Init, DescriptorSetsFit
<1>3. IInv /\ DescriptorSetsFit /\ [Next]_vars => DescriptorSetsFit'
  <2> SUFFICES ASSUME IInv, DescriptorSetsFit, [Next]_vars, fault' = "set"
               PROVE  Cardinality(Held("set")') = Capacity["set"]
    BY DEF DescriptorSetsFit
  <2>1. CASE Next
    <3>1. Idle /\ PoolFull("set")
      BY <1>1, <2>1, OnlyFullPoolsFail
    <3>2. Cardinality(Held("set")) = Capacity["set"]
      BY <1>1, <3>1, FullPoolIsHeld DEF Idle, PoolFull
    <3>3. Held("set")' = Held("set")
      BY <3>1 DEF PoolFull, Held
    <3>4. QED
      BY <3>2, <3>3
  <2>2. CASE UNCHANGED vars
    BY <2>2 DEF vars, DescriptorSetsFit, Held
  <2>3. QED
    BY <2>1, <2>2
<1>4. QED
  BY <1>2, <1>3, CountsHold, PTL DEF Spec
=============================================================================
