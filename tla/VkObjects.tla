----------------------------- MODULE VkObjects -----------------------------
(***************************************************************************)
(* The Vulkan objects of vk.cpp and vk.hpp: fixed pools of slots, one for  *)
(* each kind of object, a reference count per slot, and the references     *)
(* objects hold to each other.                                             *)
(*                                                                         *)
(* An object is its slot, <<kind, number>>. refs[o] is the part of the     *)
(* _Impl structure that points to other objects, its arrays cut to one     *)
(* element. The three image structures inside a VkSwapChain_Impl, which    *)
(* have counts but no pool, are the one object <<"swapImage", number>>.    *)
(*                                                                         *)
(* The application calls one entry point at a time. release() recurses:    *)
(* todo is what the call in progress still has to do, in order.            *)
(***************************************************************************)
EXTENDS Integers, Sequences, FiniteSets

CONSTANTS
  Capacity,  \* MAX_OBJECTS, for each kind of object
  MaxLive,   \* bound: the application creates nothing beyond so many objects
  Orderly    \* whether the application frees descriptor sets before their
             \* pool, and image views before the swapchain they look at

Kinds == {"memory", "buffer", "bufferView", "image", "imageView", "sampler", "setLayout",
          "pool", "set", "pipelineLayout", "renderPass", "framebuffer", "shader",
          "pipeline", "surface", "swapchain"}

ASSUME CapacityAssumption == Capacity \in [Kinds -> Nat \ {0}]
ASSUME BoundAssumption == MaxLive \in Nat /\ Orderly \in BOOLEAN

Pooled == UNION {{k} \X (1..Capacity[k]) : k \in Kinds}

Objects == Pooled \cup ({"swapImage"} \X (1..Capacity["swapchain"]))

Null == <<"NULL", 0>>

(* The pointers in an object of each kind, as memset leaves them. *)
NoRefs(kind) ==
  CASE kind \in {"buffer", "image", "swapImage"} -> [mem |-> Null]
    [] kind = "bufferView" -> [buf |-> Null]
    [] kind = "imageView" -> [img |-> Null]
    [] kind = "set" ->
         [buffer |-> Null, image_view |-> Null, sampler |-> Null, layout |-> Null, pool |-> Null]
    [] kind = "pipelineLayout" -> [pSetLayouts |-> Null]
    [] kind = "framebuffer" -> [pAttachments |-> Null, renderPass |-> Null]
    [] kind = "pipeline" -> [vs |-> Null, ps |-> Null, layout |-> Null, renderPass |-> Null]
    [] kind = "swapchain" -> [surface |-> Null, images |-> Null]
    [] OTHER -> << >>

VARIABLES
  refcnt,          \* the reference count of each slot, 0 when it is free
  refs,            \* the pointers in each object
  next_free_slot,  \* where each pool looks first for a free slot
  held,            \* the objects the application has a handle of
  todo,            \* what is left of the call in progress
  fault            \* "none", or why the driver has died: "NULL", or the kind
                   \* of object whose pool was full

vars == <<refcnt, refs, next_free_slot, held, todo, fault>>

Live == {o \in Objects : refcnt[o] # 0}

Held(kind) == {o \in held : o[1] = kind}

(* The handles vkGetSwapchainImagesKHR hands out. *)
SwapImages == {<<"swapImage", s[2]>> : s \in Held("swapchain")}

Idle == fault = "none" /\ todo = << >>

TypeOK ==
  /\ refcnt \in [Objects -> Nat]
  /\ \A o \in Objects : refs[o] \in [DOMAIN NoRefs(o[1]) -> Objects \cup {Null}]
  /\ \A k \in Kinds : next_free_slot[k] \in 1..Capacity[k]
  /\ held \subseteq Pooled
  /\ fault \in {"none", "NULL"} \cup Kinds

Init ==
  /\ refcnt = [o \in Objects |-> 0]
  /\ refs = [o \in Objects |-> NoRefs(o[1])]
  /\ next_free_slot = [k \in Kinds |-> 1]
  /\ held = {}
  /\ todo = << >>
  /\ fault = "none"

-----------------------------------------------------------------------------
(* Creating objects.                                                       *)

FreeSlots(kind, first) == {i \in first..Capacity[kind] : refcnt[<<kind, i>>] = 0}

Least(S) == CHOOSE i \in S : \A j \in S : i <= j

(* find_next_free_slot: from the last slot handed out to the end of the    *)
(* pool, then once more from its start.                                    *)
FoundSlot(kind) ==
  IF FreeSlots(kind, next_free_slot[kind]) # {}
    THEN Least(FreeSlots(kind, next_free_slot[kind]))
    ELSE Least(FreeSlots(kind, 1))

(* The assertion that the second attempt finds a slot has failed. *)
PoolFull(kind) ==
  /\ FreeSlots(kind, 1) = {}
  /\ fault' = kind
  /\ UNCHANGED <<refcnt, refs, next_free_slot, held, todo>>

PointersTo(pointers, o) == Cardinality({f \in DOMAIN pointers : pointers[f] = o})

(* The creation of an object that holds references to others. *)
Create(kind, pointers) ==
  /\ Idle
  /\ \/ PoolFull(kind)
     \/ LET o == <<kind, FoundSlot(kind)>>
        IN /\ FreeSlots(kind, 1) # {}
           /\ Cardinality(Live) < MaxLive
           /\ refcnt' = [p \in Objects |->
                           IF p = o THEN 1 ELSE refcnt[p] + PointersTo(pointers, p)]
           /\ refs' = [refs EXCEPT ![o] = pointers]
           /\ next_free_slot' = [next_free_slot EXCEPT ![kind] = o[2]]
           /\ held' = held \cup {o}
           /\ UNCHANGED <<todo, fault>>

vkAllocateMemory == Create("memory", << >>)
vkCreateBuffer == Create("buffer", [mem |-> Null])
vkCreateImage == Create("image", [mem |-> Null])
vkCreateSampler == Create("sampler", << >>)
vkCreateShaderModule == Create("shader", << >>)
vkCreateRenderPass == Create("renderPass", << >>)
vkCreateDescriptorSetLayout == Create("setLayout", << >>)
vkCreateDescriptorPool == Create("pool", << >>)
vkCreateXcbSurfaceKHR == Create("surface", << >>)

(* Views are made of buffers and images that are bound to memory. *)
vkCreateBufferView ==
  \E b \in Held("buffer") : refs[b].mem # Null /\ Create("bufferView", [buf |-> b])

vkCreateImageView ==
  \E i \in Held("image") \cup SwapImages :
    refs[i].mem # Null /\ Create("imageView", [img |-> i])

vkCreatePipelineLayout ==
  \E l \in Held("setLayout") : Create("pipelineLayout", [pSetLayouts |-> l])

vkCreateFramebuffer ==
  \E v \in Held("imageView"), r \in Held("renderPass") :
    Create("framebuffer", [pAttachments |-> v, renderPass |-> r])

vkCreateGraphicsPipelines ==
  \E vs \in Held("shader"), ps \in Held("shader") \cup {Null},
     l \in Held("pipelineLayout"), r \in Held("renderPass") :
    Create("pipeline", [vs |-> vs, ps |-> ps, layout |-> l, renderPass |-> r])

vkAllocateDescriptorSets ==
  \E p \in Held("pool"), l \in Held("setLayout") :
    Create("set", [NoRefs("set") EXCEPT !.pool = p, !.layout = l])

(* A swapchain allocates the memory of its images, which have a count of   *)
(* one from the start.                                                     *)
vkCreateSwapchainKHR ==
  \E surface \in Held("surface") :
    /\ Idle
    /\ \/ PoolFull("swapchain")
       \/ FreeSlots("swapchain", 1) # {} /\ PoolFull("memory")
       \/ LET o     == <<"swapchain", FoundSlot("swapchain")>>
              image == <<"swapImage", o[2]>>
              mem   == <<"memory", FoundSlot("memory")>>
          IN /\ FreeSlots("swapchain", 1) # {} /\ FreeSlots("memory", 1) # {}
             /\ Cardinality(Live) + 2 < MaxLive
             /\ refcnt' = [p \in Objects |->
                             IF p \in {o, image, mem} THEN 1
                             ELSE IF p = surface THEN refcnt[p] + 1 ELSE refcnt[p]]
             /\ refs' = [refs EXCEPT ![o] = [surface |-> surface, images |-> image],
                                     ![image] = [mem |-> mem]]
             /\ next_free_slot' = [next_free_slot EXCEPT !["swapchain"] = o[2],
                                                         !["memory"] = mem[2]]
             /\ held' = held \cup {o}
             /\ UNCHANGED <<todo, fault>>

-----------------------------------------------------------------------------
(* Binding memory and writing descriptors.                                 *)

(* Variant: the memory is not told that it is referred to. *)
BindUncounted(kind) ==
  /\ Idle
  /\ \E r \in Held(kind), m \in Held("memory") :
       refs[r].mem = Null /\ refs' = [refs EXCEPT ![r].mem = m]
  /\ UNCHANGED <<refcnt, next_free_slot, held, todo, fault>>

(* vkBindBufferMemory and vkBindImageMemory, once for each resource. *)
BindMemory(kind) ==
  /\ Idle
  /\ \E r \in Held(kind), m \in Held("memory") :
       /\ refs[r].mem = Null
       /\ refs' = [refs EXCEPT ![r].mem = m]
       /\ refcnt' = [refcnt EXCEPT ![m] = @ + 1]
  /\ UNCHANGED <<next_free_slot, held, todo, fault>>

vkBindBufferMemory == BindMemory("buffer")
vkBindImageMemory == BindMemory("image")

(* What to do for one pointer of a descriptor: the old object, if any, is  *)
(* released, then the new one stored and its count raised.                 *)
Replace(set, field, new) ==
  (IF refs[set][field] = Null THEN << >> ELSE <<<<"release", refs[set][field]>>>>)
    \o <<<<"store", set, field, new>>>>

(* A write with pImageInfo; an image that is not sampled has no sampler. *)
vkUpdateDescriptorSetsImage ==
  /\ Idle
  /\ \E s \in Held("set"), v \in Held("imageView"), sampler \in Held("sampler") \cup {Null} :
       todo' = Replace(s, "sampler", sampler) \o Replace(s, "image_view", v)
  /\ UNCHANGED <<refcnt, refs, next_free_slot, held, fault>>

(* A write with pBufferInfo. *)
vkUpdateDescriptorSetsBuffer ==
  /\ Idle
  /\ \E s \in Held("set"), b \in Held("buffer") : todo' = Replace(s, "buffer", b)
  /\ UNCHANGED <<refcnt, refs, next_free_slot, held, fault>>

Store ==
  /\ fault = "none" /\ todo # << >> /\ Head(todo)[1] = "store"
  /\ LET set == Head(todo)[2]  field == Head(todo)[3]  new == Head(todo)[4]
     IN IF new = Null
          THEN fault' = "NULL" /\ UNCHANGED <<refcnt, refs, todo>>
          ELSE /\ refs' = [refs EXCEPT ![set][field] = new]
               /\ refcnt' = [refcnt EXCEPT ![new] = @ + 1]
               /\ todo' = Tail(todo)
               /\ UNCHANGED fault
  /\ UNCHANGED <<next_free_slot, held>>

-----------------------------------------------------------------------------
(* Destroying objects.                                                     *)

(* Variant: a framebuffer keeps its render pass. *)
FollowShort(o, f) ==
  IF (refs[o][f] = Null /\ f # "mem") \/ (o[1] = "framebuffer" /\ f = "renderPass")
    THEN << >>
    ELSE <<<<"release", refs[o][f]>>>>

(* What release() does about one pointer when the count is down to 0. A    *)
(* descriptor's slots and the shader stages may be NULL and are tested;    *)
(* the memory of a buffer or an image may be NULL and is not tested.       *)
Follow(o, f) ==
  IF refs[o][f] = Null /\ f # "mem" THEN << >> ELSE <<<<"release", refs[o][f]>>>>

(* The pointers release() follows, in its order.                           *)
ReleasesOf(o) ==
  CASE o[1] \in {"buffer", "image", "swapImage"} -> Follow(o, "mem")
    [] o[1] = "bufferView" -> Follow(o, "buf")
    [] o[1] = "imageView" -> Follow(o, "img")
    [] o[1] = "set" -> Follow(o, "buffer") \o Follow(o, "image_view") \o Follow(o, "sampler")
                         \o Follow(o, "layout") \o Follow(o, "pool")
    [] o[1] = "pipelineLayout" -> Follow(o, "pSetLayouts")
    [] o[1] = "framebuffer" -> Follow(o, "pAttachments") \o Follow(o, "renderPass")
    [] o[1] = "pipeline" -> Follow(o, "vs") \o Follow(o, "ps") \o Follow(o, "layout")
                              \o Follow(o, "renderPass")
    [] o[1] = "swapchain" ->
         Follow(o, "surface")
           \o (IF refs[refs[o].images].mem = Null
                 THEN << >> ELSE Follow(refs[o].images, "mem"))
    [] OTHER -> << >>

(* One call of release(). The count is unsigned: -1 stands for 2^32 - 1.   *)
(* A swapchain clears its images with itself, whatever their counts.       *)
Release ==
  /\ fault = "none" /\ todo # << >> /\ Head(todo)[1] = "release"
  /\ LET o      == Head(todo)[2]
         zeroed == IF o[1] = "swapchain" THEN {o, refs[o].images} ELSE {o}
     IN IF o = Null
          THEN fault' = "NULL" /\ UNCHANGED <<refcnt, refs, todo>>
          ELSE IF refcnt[o] # 1
          THEN /\ refcnt' = [refcnt EXCEPT ![o] = @ - 1]
               /\ todo' = Tail(todo)
               /\ UNCHANGED <<refs, fault>>
          ELSE /\ refcnt' = [p \in Objects |-> IF p \in zeroed THEN 0 ELSE refcnt[p]]
               /\ refs' = [p \in Objects |-> IF p \in zeroed THEN NoRefs(p[1]) ELSE refs[p]]
               /\ todo' = ReleasesOf(o) \o Tail(todo)
               /\ UNCHANGED fault
  /\ UNCHANGED <<next_free_slot, held>>

(* Variant: descriptor sets are only given back with their pool. *)
DestroyLazily(o, S) ==
  /\ Idle
  /\ held' = held \ S
  /\ todo' = IF o[1] = "set" THEN << >> ELSE <<<<"release", o>>>>
  /\ UNCHANGED <<refcnt, refs, next_free_slot, fault>>

(* The application gives up the handles in S and o is released. *)
Destroy(o, S) ==
  /\ Idle
  /\ held' = held \ S
  /\ todo' = <<<<"release", o>>>>
  /\ UNCHANGED <<refcnt, refs, next_free_slot, fault>>

DestroyAny(kind) == \E o \in Held(kind) : Destroy(o, {o})

vkFreeMemory == DestroyAny("memory")
vkDestroyBuffer == DestroyAny("buffer")
vkDestroyBufferView == DestroyAny("bufferView")
vkDestroyImage == DestroyAny("image")
vkDestroyImageView == DestroyAny("imageView")
vkDestroySampler == DestroyAny("sampler")
vkDestroyShaderModule == DestroyAny("shader")
vkDestroyRenderPass == DestroyAny("renderPass")
vkDestroyFramebuffer == DestroyAny("framebuffer")
vkDestroyDescriptorSetLayout == DestroyAny("setLayout")
vkFreeDescriptorSets == DestroyAny("set")
vkDestroyPipelineLayout == DestroyAny("pipelineLayout")
vkDestroyPipeline == DestroyAny("pipeline")
vkDestroySurfaceKHR == DestroyAny("surface")

SetsOf(p) == {s \in Held("set") : refs[s].pool = p}

(* The sets of a pool go with it, as far as the application is concerned. *)
vkDestroyDescriptorPool ==
  \E p \in Held("pool") :
    /\ Orderly => SetsOf(p) = {}
    /\ Destroy(p, {p} \cup SetsOf(p))

(* So they do when the pool is reset, of which the driver does nothing. *)
vkResetDescriptorPool ==
  /\ Idle
  /\ \E p \in Held("pool") :
       /\ Orderly => SetsOf(p) = {}
       /\ held' = held \ SetsOf(p)
  /\ UNCHANGED <<refcnt, refs, next_free_slot, todo, fault>>

vkDestroySwapchainKHR ==
  \E s \in Held("swapchain") :
    /\ Orderly => refcnt[refs[s].images] = 1
    /\ Destroy(s, {s})

-----------------------------------------------------------------------------

CreateAny ==
  \/ vkAllocateMemory \/ vkCreateBuffer \/ vkCreateImage \/ vkCreateSampler
  \/ vkCreateShaderModule \/ vkCreateRenderPass \/ vkCreateDescriptorSetLayout
  \/ vkCreateDescriptorPool \/ vkCreateXcbSurfaceKHR \/ vkCreateBufferView
  \/ vkCreateImageView \/ vkCreatePipelineLayout \/ vkCreateFramebuffer
  \/ vkCreateGraphicsPipelines \/ vkAllocateDescriptorSets \/ vkCreateSwapchainKHR

DestroyOne ==
  \/ vkFreeMemory \/ vkDestroyBuffer \/ vkDestroyBufferView \/ vkDestroyImage
  \/ vkDestroyImageView \/ vkDestroySampler \/ vkDestroyShaderModule \/ vkDestroyRenderPass
  \/ vkDestroyFramebuffer \/ vkDestroyDescriptorSetLayout \/ vkFreeDescriptorSets
  \/ vkDestroyPipelineLayout \/ vkDestroyPipeline \/ vkDestroySurfaceKHR
  \/ vkDestroyDescriptorPool \/ vkResetDescriptorPool \/ vkDestroySwapchainKHR

Next ==
  \/ CreateAny
  \/ vkBindBufferMemory \/ vkBindImageMemory
  \/ vkUpdateDescriptorSetsImage \/ vkUpdateDescriptorSetsBuffer
  \/ DestroyOne
  \/ Release \/ Store

Spec == Init /\ [][Next]_vars

-----------------------------------------------------------------------------
(* Properties.                                                             *)

(* The pointers to o, as pairs of an object and a field. *)
PointersAt(o) == UNION {{<<p, f>> : f \in {g \in DOMAIN refs[p] : refs[p][g] = o}} : p \in Objects}

(***************************************************************************)
(* Between two calls, the count of an object is the number of its holders: *)
(* the application, if it has the handle, and each pointer to the object.  *)
(***************************************************************************)
CountsAreExact ==
  Idle => \A o \in Objects :
            refcnt[o] = Cardinality(PointersAt(o)) + (IF o \in held THEN 1 ELSE 0)

(***************************************************************************)
(* Between two calls, exactly those objects live that the application can  *)
(* still get at, through a handle and the pointers from there: none is     *)
(* lost, and none goes while it is needed.                                 *)
(***************************************************************************)
PointedFrom(S) == (UNION {{refs[o][f] : f \in DOMAIN refs[o]} : o \in S}) \ {Null}

(* Pointers lead three objects down at most: from a framebuffer to memory. *)
Needed ==
  LET With1(S) == S \cup PointedFrom(S)
  IN  With1(With1(With1(held)))

LiveIffNeeded == Idle => Live = Needed

(***************************************************************************)
(* In the middle of a call too: what is about to be released is live, and  *)
(* no live object points to a free slot, which the next creation would     *)
(* hand out again; but for the one pointer that is being replaced.         *)
(***************************************************************************)
BeingReplaced(o, f) ==
  \E i \in 1..Len(todo) : todo[i][1] = "store" /\ todo[i][2] = o /\ todo[i][3] = f

NoUseAfterFree ==
  /\ \A i \in 1..Len(todo) : todo[i][1] = "release" => todo[i][2] \in Live \cup {Null}
  /\ \A o \in Live : \A f \in DOMAIN refs[o] :
       refs[o][f] \in Live \cup {Null} \/ BeingReplaced(o, f)

(***************************************************************************)
(* find_next_free_slot asserts that it finds one. For descriptor sets,     *)
(* which nothing refers to, it does as long as the application has fewer   *)
(* sets than the pool has slots.                                           *)
(***************************************************************************)
DescriptorSetsFit == fault = "set" => Cardinality(Held("set")) = Capacity["set"]
=============================================================================
