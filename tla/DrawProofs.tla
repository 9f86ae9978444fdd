----------------------------- MODULE DrawProofs -----------------------------
(***************************************************************************)
(* Proofs about Draw, for framebuffers, tiles, subgroups and calls of any  *)
(* size: the temporary storage of a draw call nests as it should, its      *)
(* blocks stay apart, and its pixels get the outputs of their vertices.    *)
(***************************************************************************)
EXTENDS Draw, SequenceTheorems, FiniteSetTheorems, TLAPS

(* For what is shown there by induction. *)
Walks == INSTANCE ControlFlowProofs

-----------------------------------------------------------------------------
(* Layouts.                                                                *)

(* Of finitely many numbers one is the largest, and Max finds it. *)
LEMMA MaxIs ==
  ASSUME NEW S, S \subseteq Nat, IsFiniteSet(S), S # {}
  PROVE  Max(S) \in S /\ \A y \in S : y <= Max(S)
<1> DEFINE Bounded(U) == \E m \in Nat : \A y \in U : y <= m
           T == {Cardinality(U) : U \in {V \in SUBSET S : ~Bounded(V)}}
<1>1. Bounded(S)
  <2>1. SUFFICES ASSUME ~Bounded(S) PROVE FALSE
    OBVIOUS
  <2>2. \A U \in SUBSET S : IsFiniteSet(U) /\ Cardinality(U) \in Nat
    BY FS_Subset, FS_CardinalityType
  <2>3. T \subseteq Nat /\ T # {}
    BY <2>1, <2>2
  <2>4. \E t \in T : \A k \in T : t <= k
    BY <2>3, Walks!LeastNat
  <2>5. PICK U \in SUBSET S : ~Bounded(U) /\ \A k \in T : Cardinality(U) <= k
    BY <2>4
  <2>6. U # {}
    BY <2>5
  <2>7. PICK x \in U : TRUE
    BY <2>6
  <2> DEFINE V == U \ {x}
  <2>8. V \in SUBSET S /\ Cardinality(V) = Cardinality(U) - 1
    BY <2>2, <2>7, FS_RemoveElement
  <2>9. Cardinality(V) \notin T
    BY <2>2, <2>5, <2>8
  <2>10. Bounded(V)
    BY <2>8, <2>9
  <2>11. PICK m \in Nat : \A y \in V : y <= m
    BY <2>10
  <2>12. x \in Nat
    BY <2>7
  <2>13. PICK k \in Nat : x <= k /\ m <= k
    <3>1. CASE x <= m
      BY <3>1
    <3>2. CASE ~(x <= m)
      <4>1. x <= x /\ m <= x
        BY <2>12, <3>2
      <4>2. QED
        BY <2>12, <4>1
    <3>3. QED
      BY <3>1, <3>2
  <2>14. \A y \in U : y <= k
    <3>1. TAKE y \in U
    <3>2. y \in Nat /\ (y = x \/ y <= m)
      BY <2>11
    <3>3. QED
      BY <2>12, <2>13, <3>2
  <2>15. QED
    BY <2>5, <2>14
<1>2. PICK m \in Nat : \A y \in S : y <= m
  BY <1>1
<1> DEFINE D == {m - y : y \in S}
<1>3. D \subseteq Nat /\ D # {}
  <2>1. \A y \in S : m - y \in Nat
    <3>1. TAKE y \in S
    <3>2. y \in Nat /\ y <= m
      BY <1>2
    <3>3. QED
      BY <3>2
  <2>2. QED
    BY <2>1
<1>4. \E d \in D : \A k \in D : d <= k
  <2> HIDE DEF D
  <2>1. QED
    BY <1>3, Walks!LeastNat
<1>5. PICK x \in S : \A y \in S : m - x <= m - y
  BY <1>4
<1>6. x \in S /\ \A y \in S : x >= y
  <2>1. \A y \in S : y \in Nat /\ m - x <= m - y
    BY <1>5
  <2>2. x \in Nat
    OBVIOUS
  <2>3. QED
    BY <2>1, <2>2
<1>7. \E z \in S : \A y \in S : z >= y
  BY <1>6
<1>8. Max(S) \in S /\ \A y \in S : Max(S) >= y
  BY <1>7 DEF Max
<1>9. QED
  <2>1. Max(S) \in Nat
    BY <1>8
  <2>2. QED
    BY <1>8, <2>1

(* The table of where the data of an interface ends, below each location.  *)
IsEnd(v, n, f) ==
  f = [loc \in 0 .. n |->
         IF loc = 0 THEN 0
         ELSE IF loc - 1 \in Locations(v)
           THEN RoundUp(f[loc - 1], SlotAlign) + Words(AtLocation(v, loc - 1).format)
           ELSE f[loc - 1]]

(* There is such a table of any length. *)
LEMMA EndExists ==
  ASSUME NEW v, NEW n \in Nat
  PROVE  \E f : IsEnd(v, n, f)
<1> DEFINE T == {m \in Nat : ~\E f : IsEnd(v, m, f)}
<1>1. SUFFICES ASSUME T # {} PROVE FALSE
  OBVIOUS
<1>2. PICK m \in T : \A k \in T : m <= k
  <2>1. T \subseteq Nat
    OBVIOUS
  <2> HIDE DEF T
  <2>2. QED
    BY <1>1, <2>1, Walks!LeastNat
<1>3. CASE m = 0
  <2> DEFINE f == [loc \in 0 .. 0 |-> 0]
  <2>1. IsEnd(v, 0, f)
    BY DEF IsEnd
  <2>2. QED
    BY <1>3, <2>1
<1>4. CASE m # 0
  <2>1. m - 1 \in Nat /\ m - 1 \notin T
    BY <1>2, <1>4
  <2>2. PICK g : IsEnd(v, m - 1, g)
    BY <2>1
  <2> DEFINE After(f, loc) ==
        IF loc - 1 \in Locations(v)
          THEN RoundUp(f[loc - 1], SlotAlign) + Words(AtLocation(v, loc - 1).format)
          ELSE f[loc - 1]
      f == [loc \in 0 .. m |-> IF loc = m THEN After(g, m) ELSE g[loc]]
  <2>3. \A loc \in 0 .. m : f[loc] = IF loc = 0 THEN 0 ELSE After(f, loc)
    <3>1. TAKE loc \in 0 .. m
    <3>2. m \in Nat
      OBVIOUS
    <3>3. CASE loc = m
      <4>1. m - 1 \in 0 .. m /\ m - 1 # m
        BY <1>4, <3>2
      <4>2. f[m] = After(g, m) /\ f[m - 1] = g[m - 1]
        BY <3>2, <4>1
      <4>3. QED
        BY <1>4, <3>3, <4>2
    <3>4. CASE loc # m
      <4>1. loc \in 0 .. (m - 1)
        BY <3>2, <3>4
      <4>2. g[loc] = IF loc = 0 THEN 0 ELSE After(g, loc)
        BY <2>2, <4>1 DEF IsEnd
      <4>3. f[loc] = g[loc] /\ (loc # 0 => f[loc - 1] = g[loc - 1])
        BY <3>2, <3>4
      <4>4. QED
        BY <4>2, <4>3
    <3>5. QED
      BY <3>3, <3>4
  <2>4. IsEnd(v, m, f)
    BY <2>3 DEF IsEnd
  <2>5. QED
    BY <2>4
<1>5. QED
  BY <1>3, <1>4

(* How far the table goes: one beyond the highest location. *)
TopLocation(v) == IF v = <<>> THEN 0 ELSE Max(Locations(v)) + 1

(* The locations of an interface are finitely many numbers.                *)
LEMMA LocationsAre ==
  ASSUME NEW v \in InterfaceVariables
  PROVE  /\ Locations(v) \subseteq Nat /\ IsFiniteSet(Locations(v))
         /\ TopLocation(v) \in Nat /\ \A loc \in Locations(v) : loc < TopLocation(v)
<1>1. v \in Seq([location : Nat, format : Formats])
  BY DEF InterfaceVariables
<1>2. \A i \in DOMAIN v : v[i].location \in Nat
  <2> DEFINE V == [location : Nat, format : Formats]
  <2>1. \A x \in V : x.location \in Nat
    OBVIOUS
  <2>2. v \in Seq(V)
    BY <1>1
  <2> HIDE DEF V
  <2>3. \A i \in DOMAIN v : v[i] \in V
    BY <2>2
  <2>4. QED
    BY <2>1, <2>3
<1>3. Locations(v) \subseteq Nat
  BY <1>2 DEF Locations
<1>4. IsFiniteSet(Locations(v))
  <2>1. DOMAIN v = 1 .. Len(v) /\ Len(v) \in Nat
    BY <1>1
  <2>2. IsFiniteSet(1 .. Len(v))
    BY <2>1, FS_Interval
  <2> DEFINE at == [i \in 1 .. Len(v) |-> v[i].location]
  <2>3. at \in Surjection(1 .. Len(v), Locations(v))
    BY <2>1 DEF Locations, Surjection
  <2>4. QED
    BY <2>2, <2>3, FS_Surjection
<1>5. v = <<>> => Locations(v) = {}
  BY DEF Locations
<1>6. v # <<>> => Locations(v) # {}
  <2>1. v # <<>> => 1 \in DOMAIN v
    BY <1>1
  <2>2. QED
    BY <2>1 DEF Locations
<1>7. v # <<>> => Max(Locations(v)) \in Locations(v) /\ \A y \in Locations(v) : y <= Max(Locations(v))
  BY <1>3, <1>4, <1>6, MaxIs
<1>8. v # <<>> => Max(Locations(v)) \in Nat /\ \A y \in Locations(v) : y < Max(Locations(v)) + 1
  <2>1. SUFFICES ASSUME v # <<>>, NEW y \in Locations(v) PROVE Max(Locations(v)) \in Nat /\ y < Max(Locations(v)) + 1
    BY <1>6
  <2>2. Max(Locations(v)) \in Nat /\ y \in Nat /\ y <= Max(Locations(v))
    BY <1>3, <1>7, <2>1
  <2>3. QED
    BY <2>2
<1>9. QED
  BY <1>3, <1>4, <1>5, <1>8 DEF TopLocation

(* EndBelow is such a table. *)
LEMMA EndBelowIs ==
  ASSUME NEW v \in InterfaceVariables
  PROVE  IsEnd(v, TopLocation(v), EndBelow(v))
<1>1. \E f : IsEnd(v, TopLocation(v), f)
  BY EndExists, LocationsAre
<1>2. EndBelow(v) = CHOOSE f : IsEnd(v, TopLocation(v), f)
  BY DEF EndBelow, IsEnd, TopLocation
<1>3. QED
  BY <1>1, <1>2

(* Rounding up to slots. *)
LEMMA RoundUpIs ==
  ASSUME NEW n \in Nat
  PROVE  /\ RoundUp(n, SlotAlign) \in Nat /\ n <= RoundUp(n, SlotAlign)
         /\ RoundUp(n, SlotAlign) % SlotAlign = 0
         /\ \A m \in Nat : m <= n => RoundUp(m, SlotAlign) <= RoundUp(n, SlotAlign)
BY DEF RoundUp, SlotAlign

(* A format takes one to four words. *)
LEMMA WordsAre == \A format : Words(format) \in 1 .. 4
BY DEF Words

(* The data of the locations comes one after the other.                    *)
LEMMA EndsGrow ==
  ASSUME NEW v, NEW n \in Nat, NEW f, IsEnd(v, n, f)
  PROVE  /\ \A loc \in 0 .. n : f[loc] \in Nat
         /\ \A loc \in 0 .. n : \A k \in 0 .. loc : f[k] <= f[loc]
         /\ \A loc \in 1 .. n : loc - 1 \in Locations(v) => RoundUp(f[loc - 1], SlotAlign) < f[loc]
<1>1. /\ f[0] = 0
      /\ \A loc \in 1 .. n : f[loc] = IF loc - 1 \in Locations(v)
           THEN RoundUp(f[loc - 1], SlotAlign) + Words(AtLocation(v, loc - 1).format)
           ELSE f[loc - 1]
  BY DEF IsEnd
<1>2. ASSUME NEW loc \in 1 .. n, f[loc - 1] \in Nat
      PROVE  /\ f[loc] \in Nat /\ f[loc - 1] <= f[loc]
             /\ loc - 1 \in Locations(v) => RoundUp(f[loc - 1], SlotAlign) < f[loc]
  <2>1. Words(AtLocation(v, loc - 1).format) \in 1 .. 4
    BY WordsAre
  <2>2. RoundUp(f[loc - 1], SlotAlign) \in Nat /\ f[loc - 1] <= RoundUp(f[loc - 1], SlotAlign)
    BY <1>2, RoundUpIs
  <2>3. QED
    BY <1>1, <1>2, <2>1, <2>2
<1> DEFINE Good(loc) == f[loc] \in Nat /\ \A k \in 0 .. loc : f[k] \in Nat /\ f[k] <= f[loc]
           T == {loc \in 0 .. n : ~Good(loc)}
<1>3. T = {}
  <2>1. SUFFICES ASSUME T # {} PROVE FALSE
    OBVIOUS
  <2>2. PICK m \in T : \A k \in T : m <= k
    <3>1. T \subseteq Nat
      OBVIOUS
    <3> HIDE DEF T
    <3>2. QED
      BY <2>1, <3>1, Walks!LeastNat
  <2>3. m # 0
    <3>1. Good(0)
      BY <1>1
    <3>2. QED
      BY <3>1
  <2>4. m - 1 \in 0 .. n /\ m - 1 \notin T /\ m \in 1 .. n
    BY <2>2, <2>3
  <2>5. Good(m - 1)
    BY <2>4
  <2>6. f[m] \in Nat /\ f[m - 1] <= f[m]
    BY <1>2, <2>4, <2>5
  <2>7. \A k \in 0 .. m : f[k] \in Nat /\ f[k] <= f[m]
    <3>1. TAKE k \in 0 .. m
    <3>2. k = m \/ k \in 0 .. (m - 1)
      BY <2>4
    <3>3. CASE k \in 0 .. (m - 1)
      BY <2>5, <2>6, <3>3
    <3>4. QED
      BY <2>6, <3>2, <3>3
  <2>8. Good(m)
    BY <2>6, <2>7
  <2>9. QED
    BY <2>8
<1>4. \A loc \in 0 .. n : Good(loc)
  BY <1>3
<1> HIDE DEF T
<1>5. \A loc \in 1 .. n : loc - 1 \in 0 .. n
  OBVIOUS
<1>6. QED
  BY <1>2, <1>4, <1>5

(* What one lane takes of a buffer is a whole number of slots, and holds   *)
(* the slots of all locations, one apart from the other.                   *)
LEMMA LayoutIs ==
  ASSUME NEW v \in InterfaceVariables
  PROVE  /\ Stride(v) \in Nat /\ Stride(v) % SlotAlign = 0
         /\ \A a \in Locations(v) :
              /\ Offset(v, a) \in Nat /\ Offset(v, a) % SlotAlign = 0 /\ Offset(v, a) < Stride(v)
              /\ \A b \in Locations(v) : a < b => Offset(v, a) < Offset(v, b)
<1> DEFINE n == TopLocation(v)
           f == EndBelow(v)
<1>1. n \in Nat /\ \A loc \in Locations(v) : loc \in Nat /\ loc < n
  BY LocationsAre
<1>2. IsEnd(v, n, f)
  BY EndBelowIs
<1>3. DOMAIN f = 0 .. n
  BY <1>2 DEF IsEnd
<1>4. Max(0 .. n) = n
  <2>1. IsFiniteSet(0 .. n) /\ 0 .. n \subseteq Nat /\ n \in 0 .. n
    BY <1>1, FS_Interval
  <2>2. Max(0 .. n) \in 0 .. n /\ n <= Max(0 .. n)
    BY <2>1, MaxIs
  <2>3. QED
    BY <1>1, <2>2
<1> HIDE DEF n, f
<1>5. Stride(v) = RoundUp(f[n], SlotAlign) /\ \A a : Offset(v, a) = RoundUp(f[a], SlotAlign)
  BY <1>3, <1>4 DEF Stride, Offset, f
<1>6. /\ \A loc \in 0 .. n : f[loc] \in Nat
      /\ \A loc \in 0 .. n : \A k \in 0 .. loc : f[k] <= f[loc]
      /\ \A loc \in 1 .. n : loc - 1 \in Locations(v) => RoundUp(f[loc - 1], SlotAlign) < f[loc]
  BY <1>1, <1>2, EndsGrow
<1>7. f[n] \in Nat
  BY <1>1, <1>6
<1>8. Stride(v) \in Nat /\ Stride(v) % SlotAlign = 0
  BY <1>5, <1>7, RoundUpIs
<1>9. ASSUME NEW a \in Locations(v), NEW m \in 0 .. n, a < m
      PROVE  /\ Offset(v, a) \in Nat /\ Offset(v, a) % SlotAlign = 0
             /\ Offset(v, a) < RoundUp(f[m], SlotAlign)
  <2>1. a \in 0 .. n /\ a + 1 \in 1 .. n /\ a + 1 \in 0 .. m /\ (a + 1) - 1 = a
    BY <1>1, <1>9
  <2>2. f[a] \in Nat /\ f[m] \in Nat /\ f[a + 1] \in Nat
    BY <1>6, <2>1
  <2>3. RoundUp(f[a], SlotAlign) < f[a + 1] /\ f[a + 1] <= f[m]
    BY <1>6, <2>1
  <2>4. RoundUp(f[a], SlotAlign) \in Nat /\ RoundUp(f[a], SlotAlign) % SlotAlign = 0
    BY <2>2, RoundUpIs
  <2>5. f[m] <= RoundUp(f[m], SlotAlign) /\ RoundUp(f[m], SlotAlign) \in Nat
    BY <2>2, RoundUpIs
  <2>6. RoundUp(f[a], SlotAlign) < RoundUp(f[m], SlotAlign)
    BY <2>2, <2>3, <2>4, <2>5
  <2>7. QED
    BY <1>5, <2>4, <2>6
<1>10. \A a \in Locations(v) : /\ Offset(v, a) \in Nat /\ Offset(v, a) % SlotAlign = 0
                               /\ Offset(v, a) < Stride(v)
  <2>1. \A a \in Locations(v) : a < n /\ n \in 0 .. n
    BY <1>1
  <2>2. QED
    BY <1>5, <1>9, <2>1
<1>11. \A a, b \in Locations(v) : a < b => Offset(v, a) < Offset(v, b)
  <2>1. \A b \in Locations(v) : b \in 0 .. n
    BY <1>1
  <2>2. QED
    BY <1>5, <1>9, <2>1
<1>12. QED
  BY <1>8, <1>10, <1>11

-----------------------------------------------------------------------------
(* Temporary storage.                                                      *)

(* A storage that was only allocated from since its scopes were opened.    *)
Nested(s, saved) == \E c : s = [cursor |-> c, scopes |-> saved]

(* Allocating, aligned or not, leaves the scopes alone. *)
LEMMA AllocKeepsScopes ==
  ASSUME NEW s, NEW saved, NEW n, NEW a, Nested(s, saved)
  PROVE  /\ Nested(alloc_align(s, n, a), saved)
         /\ Nested(alloc_page_aligned(s, n), saved)
<1>1. PICK c : s = [cursor |-> c, scopes |-> saved]
  BY DEF Nested
<1>2. \A k : alloc(s, k) = [cursor |-> c + k, scopes |-> saved]
  BY <1>1 DEF alloc
<1> QED
  BY <1>2 DEF Nested, alloc_align, alloc_page_aligned

(* The scope of a call, entered with nothing allocated. *)
LEMMA EnterCall == Nested(enter_scope(create), <<0>>)
<1>1. Append(<<>>, 0) = <<0>>
  OBVIOUS
<1>2. enter_scope(create) = [cursor |-> 0, scopes |-> Append(<<>>, 0)]
  BY DEF enter_scope, create
<1> QED
  BY <1>1, <1>2 DEF Nested

(* The scope of a tile, entered in that of a call. *)
LEMMA EnterTile ==
  ASSUME NEW s, Nested(s, << 0 >>)
  PROVE  Nested(enter_scope(s), <<0, s.cursor>>) /\ enter_scope(s).cursor = s.cursor
<1>1. PICK c : s = [cursor |-> c, scopes |-> <<0>>]
  BY DEF Nested
<1>2. enter_scope(s) = [cursor |-> c, scopes |-> Append(<<0>>, c)]
  BY <1>1 DEF enter_scope
<1>3. <<0>> \in Seq({0, c}) /\ <<0, c>> \in Seq({0, c})
  OBVIOUS
<1> DEFINE both == Append(<<0>>, c)
<1>4. both \in Seq({0, c}) /\ Len(both) = 2 /\ both[1] = 0 /\ both[2] = c
  BY <1>3, AppendProperties
<1> HIDE DEF both
<1>5. both = <<0, c>>
  BY <1>3, <1>4, SeqEqual
<1>6. enter_scope(s) = [cursor |-> c, scopes |-> <<0, c>>] /\ s.cursor = c
  BY <1>1, <1>2, <1>5 DEF both
<1> QED
  BY <1>6 DEF Nested

(* Leaving the scope of a tile leads back into that of the call. *)
LEMMA LeaveTile ==
  ASSUME NEW s, NEW d, Nested(s, <<0, d>>)
  PROVE  exit_scope(s) = [cursor |-> d, scopes |-> <<0>>]
<1>1. s.scopes = <<0, d>>
  BY DEF Nested
<1> DEFINE first == SubSeq(<<0, d>>, 1, 1)
<1>2. first \in Seq({0}) /\ Len(first) = 1 /\ first[1] = 0
  BY SubSeqProperties
<1> HIDE DEF first
<1>3. first = <<0>>
  BY <1>2, SeqEqual
<1>4. exit_scope(s) = [cursor |-> s.scopes[2], scopes |-> first]
  BY <1>1 DEF exit_scope, first
<1>5. s.scopes[2] = d
  BY <1>1
<1> QED
  BY <1>3, <1>4, <1>5

(* Leaving the scope of a call leaves nothing behind. *)
LEMMA LeaveCall ==
  ASSUME NEW s, Nested(s, << 0 >>)
  PROVE  exit_scope(s) = create
<1>1. s.scopes = <<0>>
  BY DEF Nested
<1>2. SubSeq(s.scopes, 1, Len(s.scopes) - 1) = <<>>
  BY <1>1
<1> QED
  BY <1>1, <1>2 DEF exit_scope, create

(* An aligned block ends before the next block can begin, for the one      *)
(* alignment draw_indexed asks for: 32 bytes.                              *)
LEMMA AlignedAlloc ==
  ASSUME NEW s, NEW saved, Nested(s, saved), s.cursor \in Nat, NEW n \in Nat
  PROVE  /\ Nested(alloc_align(s, n, 8), saved) /\ alloc_align(s, n, 8).cursor \in Nat
         /\ Top(s) \in Nat /\ AlignedBlock(s, 8) \in Nat
         /\ Top(s) <= AlignedBlock(s, 8)
         /\ AlignedBlock(s, 8) + n <= Top(alloc_align(s, n, 8))
         /\ Top(alloc_align(s, n, 8)) \in Nat
<1>1. PICK c : s = [cursor |-> c, scopes |-> saved]
  BY DEF Nested
<1>2. alloc_align(s, n, 8) = [cursor |-> c + (n + 8), scopes |-> saved]
  BY <1>1 DEF alloc_align, alloc
<1>3. c \in Nat /\ Base \in Nat
  BY <1>1, StorageAssumption
<1>4. Top(s) = Base + c /\ Top(alloc_align(s, n, 8)) = Base + (c + (n + 8))
  BY <1>1, <1>2 DEF Top
<1> DEFINE t == Base + c
<1>5. t \in Nat
  BY <1>3
<1>6. AlignedBlock(s, 8) = ((t + 8 - 1) \div 8) * 8
  BY <1>4 DEF AlignedBlock, AlignUp
<1>7. Top(s) = t /\ Top(alloc_align(s, n, 8)) = t + (n + 8)
  BY <1>3, <1>4
<1> HIDE DEF t
<1>8. /\ AlignedBlock(s, 8) \in Nat /\ t <= AlignedBlock(s, 8)
      /\ AlignedBlock(s, 8) + n <= t + (n + 8) /\ t + (n + 8) \in Nat
  BY <1>5, <1>6
<1>9. Nested(alloc_align(s, n, 8), saved) /\ alloc_align(s, n, 8).cursor \in Nat
  <2>1. alloc_align(s, n, 8).cursor = c + (n + 8)
    BY <1>2
  <2>2. Nested(alloc_align(s, n, 8), saved)
    BY <1>2 DEF Nested
  <2>3. QED
    BY <1>3, <2>1, <2>2
<1>10. QED
  BY <1>5, <1>7, <1>8, <1>9

(* Rounding down to whole pages. *)
LEMMA PagesAre ==
  ASSUME NEW n \in Nat
  PROVE  /\ page_align_down(n) \in Nat /\ page_align_down(n) <= n /\ n < page_align_down(n) + Page
         /\ n % Page = 0 => page_align_down(n) = n
<1>1. Page \in Nat \ {0}
  BY StorageAssumption
<1>2. n \div Page \in Nat /\ n = Page * (n \div Page) + (n % Page) /\ n % Page \in 0 .. Page - 1
  BY <1>1
<1>3. (n \div Page) * Page \in Nat /\ (n \div Page) * Page = Page * (n \div Page)
  BY <1>1, <1>2
<1>4. QED
  BY <1>1, <1>2, <1>3 DEF page_align_down

(* A page-aligned block may reach two pages beyond where the next block    *)
(* can begin, and no further.                                              *)
LEMMA PageAlloc ==
  ASSUME NEW s, NEW saved, Nested(s, saved), s.cursor \in Nat, NEW n \in Nat, 2 * Page <= n
  PROVE  /\ Nested(alloc_page_aligned(s, n), saved) /\ alloc_page_aligned(s, n).cursor \in Nat
         /\ Top(s) \in Nat /\ PageBlock(s) \in Nat
         /\ Top(s) <= PageBlock(s)
         /\ PageBlock(s) + (n - 2 * Page) <= Top(alloc_page_aligned(s, n))
         /\ Top(alloc_page_aligned(s, n)) \in Nat
<1> DEFINE up == page_align_up(n)
           down == page_align_down(n)
<1>1. PICK c : s = [cursor |-> c, scopes |-> saved]
  BY DEF Nested
<1>2. alloc_page_aligned(s, n) = [cursor |-> c + (up + Page), scopes |-> saved]
  BY <1>1 DEF alloc_page_aligned, alloc
<1>3. c \in Nat /\ Base \in Nat /\ Page \in Nat \ {0}
  BY <1>1, StorageAssumption
<1>4. Top(s) = Base + c /\ Top(alloc_page_aligned(s, n)) = Base + (c + (up + Page))
  BY <1>1, <1>2 DEF Top
<1>5. down \in Nat /\ down <= n /\ n < down + Page /\ (n % Page = 0 => down = n)
  BY PagesAre
<1>6. up = IF n % Page = 0 THEN n - 2 * Page ELSE down - Page
  BY DEF page_align_up
<1>7. /\ page_align_down(Top(s) + Page) \in Nat /\ page_align_down(Top(s) + Page) <= Top(s) + Page
      /\ Top(s) + Page < page_align_down(Top(s) + Page) + Page
  <2>1. Top(s) + Page \in Nat
    BY <1>3, <1>4
  <2>2. QED
    BY <2>1, PagesAre
<1>8. up \in Nat \/ up + Page \in Nat
  BY <1>3, <1>5, <1>6
<1>9. n - 2 * Page <= up
  BY <1>3, <1>5, <1>6
<1> HIDE DEF up, down
<1>10. up \in Int /\ up + Page \in Nat
  BY <1>3, <1>5, <1>6, <1>8
<1>11. Nested(alloc_page_aligned(s, n), saved)
  BY <1>2 DEF Nested
<1>12. alloc_page_aligned(s, n).cursor = c + (up + Page)
  BY <1>2
<1> DEFINE t == Top(s)
           b == page_align_down(Top(s) + Page)
<1>13. t = Base + c /\ Top(alloc_page_aligned(s, n)) = t + (up + Page) /\ t \in Nat
  BY <1>3, <1>4, <1>10
<1>14. b \in Nat /\ b <= t + Page /\ t + Page < b + Page
  BY <1>7
<1> HIDE DEF t, b
<1>15. /\ t <= b /\ b + (n - 2 * Page) <= t + (up + Page)
       /\ t + (up + Page) \in Nat /\ c + (up + Page) \in Nat
  BY <1>3, <1>9, <1>10, <1>13, <1>14
<1>16. QED
  BY <1>11, <1>12, <1>13, <1>14, <1>15 DEF PageBlock, t, b

-----------------------------------------------------------------------------
(* Draw calls.                                                             *)

CallStages == {"descriptors", "IA", "VS", "PA", "begin_tile", "end_draw"}

TileStages == {"rasterize", "setup", "shade", "merge", "end_tile"}

(* Between calls nothing is allocated; in a call one scope is open, entered *)
(* with nothing allocated; in a tile a second one.                          *)
ScopesOpen ==
  /\ pc \in Stages
  /\ pc = "idle" => ts = create
  /\ pc \in CallStages => Nested(ts, <<0>>)
  /\ pc \in TileStages => \E d : Nested(ts, <<0, d>>)

(* Nothing is allocated at first. *)
LEMMA InitScopes == Init => ScopesOpen
BY DEF Init, ScopesOpen, Stages, CallStages, TileStages

(* A step that may fail an assertion, from a call to a call. *)
LEMMA ProceedInCall ==
  ASSUME NEW s, Nested(s, << 0 >>), NEW asserted, NEW stage \in CallStages, Proceed(s, asserted, stage)
  PROVE  ScopesOpen'
BY DEF Proceed, ScopesOpen, CallStages, TileStages, Stages, Nested

(* The same within a tile. *)
LEMMA ProceedInTile ==
  ASSUME NEW s, NEW d, Nested(s, <<0, d>>), NEW asserted, NEW stage \in TileStages,
         Proceed(s, asserted, stage)
  PROVE  ScopesOpen'
BY DEF Proceed, ScopesOpen, CallStages, TileStages, Stages, Nested

(* A step that leaves the storage alone and moves within a tile. *)
LEMMA StayInTile ==
  ASSUME ScopesOpen, pc \in TileStages, ts' = ts, pc' \in TileStages \cup {"trap"}
  PROVE  ScopesOpen'
BY DEF ScopesOpen, CallStages, TileStages, Stages, Nested

(* Each stage leaves the scopes as the next one expects them. *)
LEMMA NextScopes ==
  ASSUME ScopesOpen, [Next]_vars
  PROVE  ScopesOpen'
<1>1. CASE clear_attachment
  BY <1>1 DEF clear_attachment, ScopesOpen, CallStages, TileStages, Stages
<1>2. CASE begin_draw_indexed
  <2>1. ts = create
    BY <1>2 DEF begin_draw_indexed, ScopesOpen
  <2>2. Proceed(enter_scope(create), TRUE, "descriptors")
    BY <1>2, <2>1 DEF begin_draw_indexed
  <2> QED
    BY <2>2, EnterCall, ProceedInCall DEF CallStages
<1>3. CASE setup_descriptors
  <2>1. Nested(ts, <<0>>) /\ pc = "descriptors"
    BY <1>3 DEF setup_descriptors, ScopesOpen, CallStages
  <2>2. CASE next <= Len(call.sets)
    <3>1. Proceed(alloc_align(ts, 2 * Len(call.sets[next]), 8), HandlesSuffice, "descriptors")
      BY <1>3, <2>2 DEF setup_descriptors
    <3>2. Nested(alloc_align(ts, 2 * Len(call.sets[next]), 8), <<0>>)
      BY <2>1, AllocKeepsScopes
    <3> QED
      BY <3>1, <3>2, ProceedInCall DEF CallStages
  <2>3. CASE ~(next <= Len(call.sets))
    <3>1. pc' = "IA" /\ ts' = ts
      BY <1>3, <2>3 DEF setup_descriptors
    <3> QED
      BY <2>1, <3>1 DEF ScopesOpen, CallStages, TileStages, Stages, Nested
  <2> QED
    BY <2>2, <2>3
<1>4. CASE IA_stage
  <2>1. Nested(ts, <<0>>)
    BY <1>4 DEF IA_stage, ScopesOpen, CallStages
  <2>2. \E asserted : Proceed(alloc_align(ts, Units(call.indexCount) * InputStride, 8), asserted, "VS")
    BY <1>4 DEF IA_stage
  <2>3. Nested(alloc_align(ts, Units(call.indexCount) * InputStride, 8), <<0>>)
    BY <2>1, AllocKeepsScopes
  <2> QED
    BY <2>2, <2>3, ProceedInCall DEF CallStages
<1>5. CASE VS_stage
  <2> DEFINE output == alloc_align(ts, OutputWords(call.indexCount), 8)
             both == alloc_align(output, Units(call.indexCount) * 4, 8)
  <2>1. Nested(ts, <<0>>)
    BY <1>5 DEF VS_stage, ScopesOpen, CallStages
  <2>2. Nested(output, <<0>>)
    BY <2>1, AllocKeepsScopes
  <2>3. Nested(both, <<0>>)
    BY <2>2, AllocKeepsScopes
  <2>4. Proceed(both, Holds(output), "PA")
    BY <1>5 DEF VS_stage
  <2> QED
    BY <2>3, <2>4, ProceedInCall DEF CallStages
<1>6. CASE PA_stage
  <2>1. Nested(ts, <<0>>)
    BY <1>6 DEF PA_stage, ScopesOpen, CallStages
  <2>2. \E asserted : Proceed(alloc_align(ts, 4 * call.indexCount * 6, 8), asserted, "begin_tile")
    BY <1>6 DEF PA_stage
  <2>3. Nested(alloc_align(ts, 4 * call.indexCount * 6, 8), <<0>>)
    BY <2>1, AllocKeepsScopes
  <2> QED
    BY <2>2, <2>3, ProceedInCall DEF CallStages
<1>7. CASE begin_tile
  <2> DEFINE scope == enter_scope(ts)
             pinfos == alloc_page_aligned(scope, 7 * MaxInvocations)
             both == alloc_align(pinfos, 4 * MaxTiles, 8)
  <2>1. Nested(ts, <<0>>)
    BY <1>7 DEF begin_tile, ScopesOpen, CallStages
  <2>2. PICK d : Nested(scope, <<0, d>>)
    BY <2>1, EnterTile
  <2>3. Nested(pinfos, <<0, d>>)
    BY <2>2, AllocKeepsScopes
  <2>4. Nested(both, <<0, d>>)
    BY <2>3, AllocKeepsScopes
  <2>5. Proceed(both, Holds(scope) /\ Holds(pinfos), "rasterize")
    BY <1>7 DEF begin_tile
  <2> QED
    BY <2>4, <2>5, ProceedInTile DEF TileStages
<1>8. CASE rasterize_current_tile
  <2>1. pc = "rasterize" /\ ts' = ts /\ pc' \in {"rasterize", "setup"}
    BY <1>8 DEF rasterize_current_tile
  <2> QED
    BY <2>1, StayInTile DEF TileStages
<1>9. CASE setup_pixel_input_current_tile
  <2> DEFINE units == Units(Len(cur_tile.pinfos))
             output == alloc_align(ts, 4 * units, 8)
             positions == alloc_align(output, 4 * units * 3, 8)
             depths == alloc_align(positions, units, 8)
             input == alloc_align(depths, 3 * PixelStride * units, 8)
  <2>1. pc = "setup"
    BY <1>9 DEF setup_pixel_input_current_tile
  <2>2. CASE Len(cur_tile.pinfos) = 0
    <3>1. pc' = "end_tile" /\ ts' = ts
      BY <1>9, <2>2 DEF setup_pixel_input_current_tile
    <3> QED
      BY <2>1, <3>1, StayInTile DEF TileStages
  <2>3. CASE Len(cur_tile.pinfos) # 0
    <3>1. PICK d : Nested(ts, <<0, d>>)
      BY <2>1 DEF ScopesOpen, TileStages
    <3>2. Nested(output, <<0, d>>)
      BY <3>1, AllocKeepsScopes
    <3>3. Nested(positions, <<0, d>>)
      BY <3>2, AllocKeepsScopes
    <3>4. Nested(depths, <<0, d>>)
      BY <3>3, AllocKeepsScopes
    <3>5. Nested(input, <<0, d>>)
      BY <3>4, AllocKeepsScopes
    <3>6. \E asserted : Proceed(input, asserted, "shade")
      BY <1>9, <2>3 DEF setup_pixel_input_current_tile
    <3> QED
      BY <3>5, <3>6, ProceedInTile DEF TileStages
  <2> QED
    BY <2>2, <2>3
<1>10. CASE shade_current_tile
  <2>1. pc = "shade" /\ ts' = ts /\ pc' \in {"shade", "merge"}
    BY <1>10 DEF shade_current_tile
  <2> QED
    BY <2>1, StayInTile DEF TileStages
<1>11. CASE merge_current_tile
  <2>1. pc = "merge" /\ ts' = ts
    BY <1>11 DEF merge_current_tile
  <2>2. pc' \in {"merge", "end_tile", "trap"}
    BY <1>11, <2>1 DEF merge_current_tile, merge_pixel
  <2> QED
    BY <2>1, <2>2, StayInTile DEF TileStages
<1>12. CASE end_tile
  <2>1. PICK d : Nested(ts, <<0, d>>)
    BY <1>12 DEF end_tile, ScopesOpen, TileStages
  <2>2. Nested(exit_scope(ts), <<0>>)
    BY <2>1, LeaveTile DEF Nested
  <2>3. \E stage \in CallStages : Proceed(exit_scope(ts), TRUE, stage)
    BY <1>12 DEF end_tile, tile_released, CallStages
  <2> QED
    BY <2>2, <2>3, ProceedInCall
<1>13. CASE end_draw
  <2>1. exit_scope(ts) = create
    BY <1>13, LeaveCall DEF end_draw, ScopesOpen, CallStages
  <2>2. ts' = create /\ pc' \in {"idle", "trap"}
    BY <1>13, <2>1 DEF end_draw, Proceed
  <2> QED
    BY <2>2 DEF ScopesOpen, CallStages, TileStages, Stages
<1>14. CASE UNCHANGED vars
  BY <1>14 DEF vars, ScopesOpen, Nested
<1> QED
  BY <1>1, <1>2, <1>3, <1>4, <1>5, <1>6, <1>7, <1>8, <1>9, <1>10, <1>11, <1>12, <1>13, <1>14
  DEF Next

(* The scopes of a call and of its tiles nest, whatever stages a call goes *)
(* through, how many tiles it has and where it fails an assertion.         *)
THEOREM ScopesNest == Spec => []ScopesOpen
<1> QED
  BY InitScopes, NextScopes, PTL DEF Spec

(* After every draw call all of the temporary storage is there again.      *)
THEOREM StorageIsGivenBack == Spec => []StorageGivenBack
<1>1. ScopesOpen => StorageGivenBack
  BY DEF ScopesOpen, StorageGivenBack
<1> QED
  BY <1>1, ScopesNest, PTL

-----------------------------------------------------------------------------
(* The blocks of a call.                                                   *)

CallBlocks == {"attributes", "vs_output", "vs_positions", "screenspace"}

AllBlocks == CallBlocks \cup TileBlocks

PixelBlocks == {"pixel_output", "pixel_positions", "pixel_depth", "pixel_input"}

(* What nothing in the code checks: that the pixel invocations of a tile   *)
(* fit the room there is for them, less the two pages its block may reach  *)
(* beyond what was taken, and that the small tiles fit theirs.             *)
PixelRoom == 7 * MaxInvocations - 2 * Page

TileFits ==
  /\ \E n \in Nat : Len(cur_tile.pinfos) = n /\ 7 * n <= PixelRoom
  /\ cur_tile.tiles \in 0 .. MaxTiles

(* The words each block may grow to. *)
Extent(b) ==
  CASE b = "attributes" -> Units(call.indexCount) * InputStride
    [] b = "vs_output" -> OutputWords(call.indexCount)
    [] b = "vs_positions" -> Units(call.indexCount) * 4
    [] b = "screenspace" -> 4 * call.indexCount * 6
    [] b = "pinfos" -> PixelRoom
    [] b = "tiles" -> 4 * MaxTiles
    [] b = "pixel_output" -> 4 * Units(Len(cur_tile.pinfos))
    [] b = "pixel_positions" -> 4 * Units(Len(cur_tile.pinfos)) * 3
    [] b = "pixel_depth" -> Units(Len(cur_tile.pinfos))
    [] b = "pixel_input" -> 3 * PixelStride * Units(Len(cur_tile.pinfos))

Extents == [b \in AllBlocks |-> Extent(b)]

(* Blocks at blk, with ext words each, below top and apart. *)
Laid(blk, ext, top) ==
  /\ \A a \in DOMAIN blk : blk[a] \in Nat /\ ext[a] \in Nat /\ blk[a] + ext[a] <= top
  /\ \A a, b \in DOMAIN blk : a # b => blk[a] + ext[a] <= blk[b] \/ blk[b] + ext[b] <= blk[a]

IsSequence(s) == \E S : s \in Seq(S)

(***************************************************************************)
(* The inductive invariant. Blocks are taken one above the other, and none *)
(* is filled beyond what was taken for it: the subgroups that ran put out  *)
(* as many pixels as they have lanes. Those of the call lie below the      *)
(* cursor saved for the tile, so that giving back the tile's storage keeps *)
(* them.                                                                   *)
(***************************************************************************)
BlocksTaken ==
  /\ pc \in {"idle", "descriptors", "IA"} => DOMAIN block = {}
  /\ pc = "VS" => DOMAIN block \subseteq {"attributes"}
  /\ pc = "PA" => DOMAIN block \subseteq {"attributes", "vs_output", "vs_positions"}
  /\ pc \in {"begin_tile", "end_draw"} => DOMAIN block \subseteq CallBlocks
  /\ pc \in {"rasterize", "setup"} => DOMAIN block \subseteq CallBlocks \cup {"pinfos", "tiles"}
  /\ DOMAIN block \subseteq AllBlocks

CallBelowTile ==
  pc \in TileStages =>
    /\ ts.scopes[2] \in Nat
    /\ \A a \in DOMAIN block \ TileBlocks : block[a] + Extents[a] <= Base + ts.scopes[2]

OutputsGrow ==
  /\ pc \in {"begin_tile", "rasterize", "setup"} => cur_tile.output = <<>> /\ cur_tile.depth_output = <<>>
  /\ pc = "shade" =>
       /\ next \in 0 .. Subgroups(Len(cur_tile.pinfos))
       /\ IsSequence(cur_tile.output) /\ Len(cur_tile.output) = next * SubgroupSize
       /\ IsSequence(cur_tile.depth_output) /\ Len(cur_tile.depth_output) = next * SubgroupSize

FilledFits == \A b \in DOMAIN block : Filled(b) \in Nat /\ Filled(b) <= Extents[b]

BlocksInv ==
  pc # "trap" =>
    /\ ts.cursor \in Nat /\ DOMAIN cur_tile = DOMAIN NoTile
    /\ pc # "idle" => call \in Calls
    /\ pc = "descriptors" => next \in Nat \ {0}
    /\ BlocksTaken
    /\ Laid(block, Extents, Top(ts))
    /\ CallBelowTile
    /\ OutputsGrow
    /\ FilledFits

(* Two sequences make one, as long as both together. *)
LEMMA SequencesJoin ==
  ASSUME NEW s, NEW t, IsSequence(s), IsSequence(t)
  PROVE  IsSequence(s \o t) /\ Len(s \o t) = Len(s) + Len(t)
<1>1. PICK S, T : s \in Seq(S) /\ t \in Seq(T)
  BY DEF IsSequence
<1>2. s \in Seq(S \cup T) /\ t \in Seq(S \cup T)
  BY <1>1
<1>3. s \o t \in Seq(S \cup T) /\ Len(s \o t) = Len(s) + Len(t)
  BY <1>2, ConcatProperties
<1>4. QED
  BY <1>3 DEF IsSequence

(* A block taken above all others is apart from them. *)
LEMMA BlockAdded ==
  ASSUME NEW blk, NEW ext, NEW top, NEW b, NEW at, NEW top2,
         Laid(blk, ext, top), b \notin DOMAIN blk, ext[b] \in Nat,
         top \in Nat, at \in Nat, top2 \in Nat, top <= at, at + ext[b] <= top2
  PROVE  Laid(WithBlock(blk, b, at), ext, top2)
<1> DEFINE new == WithBlock(blk, b, at)
<1>1. /\ DOMAIN new = DOMAIN blk \cup {b}
      /\ \A a \in DOMAIN blk : new[a] = blk[a]
      /\ new[b] = at
  BY DEF WithBlock
<1> HIDE DEF new
<1>2. \A a \in DOMAIN blk : blk[a] \in Nat /\ ext[a] \in Nat /\ blk[a] + ext[a] <= top
  BY DEF Laid
<1>3. \A a \in DOMAIN blk : blk[a] + ext[a] <= at /\ blk[a] + ext[a] <= top2
  <2>1. TAKE a \in DOMAIN blk
  <2>2. blk[a] \in Nat /\ ext[a] \in Nat /\ blk[a] + ext[a] <= top
    BY <1>2
  <2>3. QED
    BY <2>2
<1>4. \A a \in DOMAIN new : new[a] \in Nat /\ ext[a] \in Nat /\ new[a] + ext[a] <= top2
  BY <1>1, <1>2, <1>3
<1>5. \A a, c \in DOMAIN new : a # c => new[a] + ext[a] <= new[c] \/ new[c] + ext[c] <= new[a]
  BY <1>1, <1>3 DEF Laid
<1>6. Laid(new, ext, top2)
  BY <1>4, <1>5 DEF Laid
<1>7. QED
  BY <1>6 DEF new

(* A block taken from the storage is above all others. *)
LEMMA AlignedBlockAdded ==
  ASSUME NEW s, NEW saved, NEW blk, NEW ext, NEW b, NEW n,
         Nested(s, saved), s.cursor \in Nat, Laid(blk, ext, Top(s)),
         b \notin DOMAIN blk, n \in Nat, ext[b] = n
  PROVE  /\ Nested(alloc_align(s, n, 8), saved) /\ alloc_align(s, n, 8).cursor \in Nat
         /\ Laid(WithBlock(blk, b, AlignedBlock(s, 8)), ext, Top(alloc_align(s, n, 8)))
<1> DEFINE after == alloc_align(s, n, 8)
           at == AlignedBlock(s, 8)
<1>1. /\ Nested(after, saved) /\ after.cursor \in Nat
      /\ Top(s) \in Nat /\ at \in Nat /\ Top(s) <= at /\ at + n <= Top(after) /\ Top(after) \in Nat
  BY AlignedAlloc
<1> HIDE DEF after, at
<1>2. ext[b] \in Nat /\ at + ext[b] <= Top(after)
  BY <1>1
<1> DEFINE top == Top(s)
           top2 == Top(after)
<1>3. /\ Laid(blk, ext, top) /\ b \notin DOMAIN blk /\ ext[b] \in Nat
      /\ top \in Nat /\ at \in Nat /\ top2 \in Nat /\ top <= at /\ at + ext[b] <= top2
  BY <1>1, <1>2
<1> HIDE DEF top, top2
<1>4. Laid(WithBlock(blk, b, at), ext, top2)
  BY <1>3, BlockAdded
<1>5. QED
  BY <1>1, <1>4 DEF after, at, top2

(* Blocks that are apart as far as they may grow are apart as far as they  *)
(* are filled.                                                             *)
LEMMA InvIsApart == BlocksInv => BlocksApart
<1>1. SUFFICES ASSUME BlocksInv, pc # "trap"
               PROVE  /\ \A a, b \in DOMAIN block : a # b =>
                           \/ block[a] + Filled(a) <= block[b]
                           \/ block[b] + Filled(b) <= block[a]
                      /\ \A a \in DOMAIN block : block[a] + Filled(a) <= Top(ts)
  BY DEF BlocksApart
<1>2. Laid(block, Extents, Top(ts)) /\ FilledFits /\ Top(ts) \in Nat
  <2>1. ts.cursor \in Nat /\ Base \in Nat
    BY <1>1, StorageAssumption DEF BlocksInv
  <2>2. QED
    BY <1>1, <2>1 DEF BlocksInv, Top
<1>3. \A a \in DOMAIN block :
        /\ block[a] \in Nat /\ Extents[a] \in Nat /\ block[a] + Extents[a] <= Top(ts)
        /\ Filled(a) \in Nat /\ Filled(a) <= Extents[a]
  BY <1>2 DEF Laid, FilledFits
<1> DEFINE F(a) == Filled(a)
<1> HIDE DEF F
<1>4. \A a \in DOMAIN block : /\ block[a] \in Nat /\ Extents[a] \in Nat /\ block[a] + Extents[a] <= Top(ts)
                              /\ F(a) \in Nat /\ F(a) <= Extents[a]
  BY <1>3 DEF F
<1>5. \A a, b \in DOMAIN block : a # b =>
        block[a] + Extents[a] <= block[b] \/ block[b] + Extents[b] <= block[a]
  BY <1>2 DEF Laid
<1>6. \A a, b \in DOMAIN block : a # b => block[a] + F(a) <= block[b] \/ block[b] + F(b) <= block[a]
  <2>1. TAKE a, b \in DOMAIN block
  <2>2. /\ block[a] \in Nat /\ Extents[a] \in Nat /\ F(a) \in Nat /\ F(a) <= Extents[a]
        /\ block[b] \in Nat /\ Extents[b] \in Nat /\ F(b) \in Nat /\ F(b) <= Extents[b]
    BY <1>4
  <2>3. a # b => block[a] + Extents[a] <= block[b] \/ block[b] + Extents[b] <= block[a]
    BY <1>5
  <2>4. QED
    BY <2>2, <2>3
<1>7. \A a \in DOMAIN block : block[a] + F(a) <= Top(ts)
  BY <1>2, <1>4
<1>8. QED
  BY <1>6, <1>7 DEF F

(* Sizes. *)
LEMMA SizesAre ==
  ASSUME NEW n \in Nat
  PROVE  /\ Subgroups(n) \in Nat /\ Units(n) \in Nat
         /\ \A k \in Nat : Units(n) * k \in Nat /\ k * Units(n) \in Nat
         /\ \A k \in 0 .. Subgroups(n) : k * SubgroupSize \in Nat /\ k * SubgroupSize <= Units(n)
<1>1. SubgroupSize \in Nat \ {0}
  BY DrawAssumption
<1>2. n + SubgroupSize - 1 \in Nat
  BY <1>1
<1>3. Subgroups(n) \in Nat
  BY <1>1, <1>2 DEF Subgroups
<1>4. Units(n) \in Nat
  BY <1>1, <1>3 DEF Units
<1>5. \A k \in Nat : Units(n) * k \in Nat /\ k * Units(n) \in Nat
  BY <1>4
<1> DEFINE m == Subgroups(n)
<1>6. \A k \in 0 .. m : k * SubgroupSize \in Nat /\ k * SubgroupSize <= m * SubgroupSize
  <2> HIDE DEF m
  <2>1. m \in Nat
    BY <1>3 DEF m
  <2>2. TAKE k \in 0 .. m
  <2>3. m - k \in Nat /\ k \in Nat
    BY <2>1
  <2>4. (m - k) * SubgroupSize \in Nat /\ k * SubgroupSize \in Nat
    BY <1>1, <2>3
  <2>5. m * SubgroupSize = (m - k) * SubgroupSize + k * SubgroupSize
    BY <1>1, <2>1, <2>3
  <2>6. QED
    BY <1>1, <2>1, <2>4, <2>5
<1>7. QED
  BY <1>3, <1>4, <1>5, <1>6 DEF Units

(* The room of the blocks that are taken stays the same while the call     *)
(* does, and while the pixels are the same once there are blocks for them. *)
LEMMA ExtentsStay ==
  ASSUME call' = call, NEW b \in AllBlocks, b \notin PixelBlocks \/ cur_tile'.pinfos = cur_tile.pinfos
  PROVE  Extents'[b] = Extents[b]
<1>1. Extent(b)' = Extent(b)
  <2>1. CASE b \notin PixelBlocks
    BY <2>1 DEF Extent, PixelBlocks, AllBlocks, CallBlocks, TileBlocks, Units, Subgroups, OutputWords,
                InputStride, OutputStride, PixelRoom
  <2>2. CASE cur_tile'.pinfos = cur_tile.pinfos
    BY <2>2 DEF Extent, Units, Subgroups, OutputWords, InputStride, OutputStride, PixelStride, PixelRoom
  <2>3. QED
    BY <2>1, <2>2
<1>2. QED
  BY <1>1 DEF Extents

(* A step that takes no block, gives none back and fills none. *)
LEMMA NothingTaken ==
  ASSUME BlocksInv, pc # "trap", call' = call, cur_tile' = cur_tile, block' = block, UNCHANGED geometry
  PROVE  /\ Extents' = Extents /\ \A b \in DOMAIN block : Filled(b)' = Filled(b)
         /\ FilledFits'
<1>1. \A b \in AllBlocks : Extents'[b] = Extents[b]
  BY ExtentsStay
<1>2. Extents' = Extents
  BY <1>1 DEF Extents
<1>3. \A b : Filled(b)' = Filled(b)
  BY DEF Filled, geometry
<1>4. FilledFits'
  BY <1>2, <1>3 DEF BlocksInv, FilledFits
<1>5. QED
  BY <1>2, <1>3, <1>4

(* As many as the numbers below. *)
LEMMA UpTo ==
  ASSUME NEW k \in Nat
  PROVE  Cardinality(0 .. k - 1) = k
<1>1. k - 1 \in Int /\ 0 \in Int
  OBVIOUS
<1>2. Cardinality(0 .. k - 1) = IF 0 > k - 1 THEN 0 ELSE (k - 1) - 0 + 1
  BY <1>1, FS_Interval
<1>3. QED
  BY <1>2

(* The words of a buffer are those of whole slots.                         *)
LEMMA BufferFits ==
  ASSUME NEW words \in Nat, NEW f, DOMAIN f = 0 .. words \div SlotAlign - 1
  PROVE  Cardinality(DOMAIN f) * SlotAlign \in Nat /\ Cardinality(DOMAIN f) * SlotAlign <= words
<1> DEFINE k == words \div 4
<1>1. k \in Nat /\ k * 4 <= words
  OBVIOUS
<1> HIDE DEF k
<1>2. Cardinality(0 .. k - 1) = k
  BY <1>1, UpTo
<1>3. DOMAIN f = 0 .. k - 1
  BY DEF SlotAlign, k
<1>4. QED
  BY <1>1, <1>2, <1>3 DEF SlotAlign


(* A stage of a call for which nothing was allocated yet. *)
LEMMA EmptyStage ==
  ASSUME pc' \in {"idle", "descriptors", "IA"}, ts'.cursor \in Nat, DOMAIN block' = {},
         DOMAIN cur_tile' = DOMAIN NoTile,
         pc' # "idle" => call' \in Calls, pc' = "descriptors" => next' \in Nat \ {0}
  PROVE  BlocksInv'
BY DEF BlocksInv, BlocksTaken, Laid, CallBelowTile, OutputsGrow, FilledFits, TileStages

(* Clearing takes nothing. *)
LEMMA ClearBlocks ==
  ASSUME ScopesOpen, BlocksInv, clear_attachment
  PROVE  BlocksInv'
<1>1. pc = "idle" /\ UNCHANGED <<pc, ts, block, cur_tile>>
  BY DEF clear_attachment
<1>2. ts.cursor \in Nat /\ DOMAIN block = {} /\ DOMAIN cur_tile = DOMAIN NoTile
  BY <1>1 DEF BlocksInv, BlocksTaken
<1>3. QED
  BY <1>1, <1>2, EmptyStage

(* A call begins without blocks. *)
LEMMA BeginBlocks ==
  ASSUME ScopesOpen, BlocksInv, begin_draw_indexed
  PROVE  BlocksInv'
<1>1. /\ pc = "idle" /\ ts' = enter_scope(ts) /\ pc' \in {"descriptors", "trap"}
      /\ call' \in Calls /\ block' = <<>> /\ next' = 1 /\ cur_tile' = cur_tile
  BY DEF begin_draw_indexed, Proceed
<1>2. DOMAIN cur_tile = DOMAIN NoTile /\ ts = create
  BY <1>1 DEF BlocksInv, ScopesOpen
<1>3. ts'.cursor = 0
  BY <1>1, <1>2 DEF enter_scope, create
<1>4. pc' = "trap" => BlocksInv'
  BY DEF BlocksInv
<1>5. QED
  BY <1>1, <1>2, <1>3, <1>4, EmptyStage

(* The tables of the descriptor sets are not among the blocks: they are    *)
(* read through the pointers the GPU state keeps.                          *)
LEMMA DescriptorBlocks ==
  ASSUME ScopesOpen, BlocksInv, setup_descriptors
  PROVE  BlocksInv'
<1>1. pc = "descriptors" /\ call' = call /\ block' = block /\ cur_tile' = cur_tile
  BY DEF setup_descriptors
<1>2. /\ Nested(ts, <<0>>) /\ ts.cursor \in Nat /\ call \in Calls /\ next \in Nat \ {0}
      /\ DOMAIN block = {} /\ DOMAIN cur_tile = DOMAIN NoTile
  BY <1>1 DEF BlocksInv, BlocksTaken, ScopesOpen, CallStages
<1>3. pc' = "trap" => BlocksInv'
  BY DEF BlocksInv
<1>4. CASE next <= Len(call.sets)
  <2>1. ts' = alloc_align(ts, 2 * Len(call.sets[next]), 8) /\ pc' \in {"descriptors", "trap"} /\ next' = next + 1
    BY <1>4 DEF setup_descriptors, Proceed
  <2>2. Len(call.sets[next]) \in Nat
    <3> DEFINE S == [type : STRING, bound : BOOLEAN]
    <3>1. call.sets \in Seq(Seq(S))
      BY <1>2, DrawAssumption DEF DescriptorSets
    <3> HIDE DEF S
    <3>2. next \in 1 .. Len(call.sets)
      BY <1>2, <1>4, <3>1
    <3>3. call.sets[next] \in Seq(S)
      BY <3>1, <3>2
    <3>4. QED
      BY <3>3
  <2>3. 2 * Len(call.sets[next]) \in Nat
    BY <2>2
  <2>4. ts'.cursor \in Nat
    BY <1>2, <2>1, <2>3, AlignedAlloc
  <2>5. next' \in Nat \ {0}
    BY <1>2, <2>1
  <2>6. QED
    BY <1>1, <1>2, <1>3, <2>1, <2>4, <2>5, EmptyStage
<1>5. CASE ~(next <= Len(call.sets))
  <2>1. ts' = ts /\ pc' = "IA"
    BY <1>5 DEF setup_descriptors
  <2>2. QED
    BY <1>1, <1>2, <2>1, EmptyStage
<1>6. QED
  BY <1>4, <1>5

(* A call ends with its blocks given up. *)
LEMMA EndBlocks ==
  ASSUME ScopesOpen, BlocksInv, end_draw
  PROVE  BlocksInv'
<1>1. /\ pc = "end_draw" /\ ts' = exit_scope(ts) /\ pc' \in {"idle", "trap"}
      /\ block' = <<>> /\ cur_tile' = NoTile
  BY DEF end_draw, Proceed
<1>2. Nested(ts, << 0 >>)
  BY <1>1 DEF ScopesOpen, CallStages
<1>3. ts'.cursor = 0
  BY <1>1, <1>2, LeaveCall DEF create
<1>4. pc' = "trap" => BlocksInv'
  BY DEF BlocksInv
<1>5. QED
  BY <1>1, <1>3, <1>4, EmptyStage

(* A stage before the tiles, or between them. *)
LEMMA CallStage ==
  ASSUME pc' \in {"VS", "PA", "begin_tile", "end_draw"}, ts'.cursor \in Nat,
         DOMAIN cur_tile' = DOMAIN NoTile, call' \in Calls,
         Laid(block', Extents', Top(ts')), FilledFits',
         DOMAIN block' \subseteq CallBlocks,
         pc' = "VS" => DOMAIN block' \subseteq {"attributes"},
         pc' = "PA" => DOMAIN block' \subseteq {"attributes", "vs_output", "vs_positions"},
         pc' = "begin_tile" => cur_tile'.output = <<>> /\ cur_tile'.depth_output = <<>>
  PROVE  BlocksInv'
<1>1. BlocksTaken'
  BY DEF BlocksTaken, AllBlocks
<1>2. CallBelowTile' /\ OutputsGrow'
  BY DEF CallBelowTile, OutputsGrow, TileStages
<1>3. Laid(block, Extents, Top(ts))'
  BY DEF Top
<1>4. QED
  BY <1>1, <1>2, <1>3 DEF BlocksInv

(* A stage of a tile, whose storage is above that of the call. *)
LEMMA TileStage ==
  ASSUME pc' \in TileStages, ts'.cursor \in Nat,
         DOMAIN cur_tile' = DOMAIN NoTile, call' \in Calls,
         Laid(block', Extents', Top(ts')), FilledFits', OutputsGrow',
         DOMAIN block' \subseteq AllBlocks,
         pc' \in {"rasterize", "setup"} => DOMAIN block' \subseteq CallBlocks \cup {"pinfos", "tiles"},
         NEW d \in Nat, ts'.scopes[2] = d,
         \A a \in DOMAIN block' \ TileBlocks : block'[a] + Extents'[a] <= Base + d
  PROVE  BlocksInv'
<1>1. BlocksTaken'
  BY DEF BlocksTaken, TileStages
<1>2. CallBelowTile'
  BY DEF CallBelowTile
<1>3. Laid(block, Extents, Top(ts))'
  BY DEF Top
<1>4. QED
  BY <1>1, <1>2, <1>3 DEF BlocksInv, TileStages


(* Input assembly fills the attributes of whole subgroups. *)
LEMMA AttributeBlocks ==
  ASSUME ScopesOpen, BlocksInv, IA_stage
  PROVE  BlocksInv'
<1> DEFINE words == Units(call.indexCount) * InputStride
<1>1. /\ pc = "IA" /\ ts' = alloc_align(ts, words, 8) /\ pc' \in {"VS", "trap"}
      /\ block' = WithBlock(block, "attributes", AlignedBlock(ts, 8))
      /\ call' = call /\ cur_tile' = cur_tile
  BY DEF IA_stage, Proceed
<1>2. /\ Nested(ts, <<0>>) /\ ts.cursor \in Nat /\ call \in Calls
      /\ DOMAIN block = {} /\ DOMAIN cur_tile = DOMAIN NoTile
  BY <1>1 DEF BlocksInv, BlocksTaken, ScopesOpen, CallStages
<1>3. words \in Nat
  <2>1. call.indexCount \in Nat /\ call.vs_inputs \in InterfaceVariables
    BY <1>2, DrawAssumption
  <2>2. InputStride \in Nat
    BY <2>1, LayoutIs DEF InputStride
  <2>3. QED
    BY <2>1, <2>2, SizesAre
<1>4. DOMAIN ia' = 0 .. words \div SlotAlign - 1
  BY DEF IA_stage, Buffer
<1>5. Extents'["attributes"] = words
  BY <1>1 DEF Extents, Extent, AllBlocks, CallBlocks, Units, Subgroups, InputStride
<1> HIDE DEF words
<1>6. Laid(block, Extents', Top(ts)) /\ "attributes" \notin DOMAIN block
  BY <1>2 DEF Laid
<1>7. /\ alloc_align(ts, words, 8).cursor \in Nat
      /\ Laid(WithBlock(block, "attributes", AlignedBlock(ts, 8)), Extents', Top(alloc_align(ts, words, 8)))
  BY <1>2, <1>3, <1>5, <1>6, AlignedBlockAdded
<1>8. ts'.cursor \in Nat /\ Laid(block', Extents', Top(ts')) /\ DOMAIN block' = DOMAIN block \cup {"attributes"}
  BY <1>1, <1>7 DEF WithBlock
<1>9. FilledFits'
  <2>1. Filled("attributes")' = Cardinality(DOMAIN ia') * SlotAlign
    BY DEF Filled
  <2>2. Cardinality(DOMAIN ia') * SlotAlign \in Nat /\ Cardinality(DOMAIN ia') * SlotAlign <= words
    BY <1>3, <1>4, BufferFits
  <2>3. \A b \in DOMAIN block' : b = "attributes"
    BY <1>2, <1>8
  <2>4. QED
    BY <1>5, <2>1, <2>2, <2>3 DEF FilledFits
<1>10. pc' = "trap" => BlocksInv'
  BY DEF BlocksInv
<1>11. DOMAIN block' = {"attributes"}
  BY <1>2, <1>8
<1>12. QED
  BY <1>1, <1>2, <1>8, <1>9, <1>10, <1>11, CallStage DEF CallBlocks

(* Vertex shading fills two more, with a lane's share for every lane of a  *)
(* subgroup, whether or not there is a vertex for it.                      *)
LEMMA VertexBlocks ==
  ASSUME ScopesOpen, BlocksInv, VS_stage
  PROVE  BlocksInv'
<1> DEFINE units == Units(call.indexCount)
           words == OutputWords(call.indexCount)
           output == alloc_align(ts, words, 8)
           first == WithBlock(block, "vs_output", AlignedBlock(ts, 8))
<1>1. /\ pc = "VS" /\ ts' = alloc_align(output, units * 4, 8) /\ pc' \in {"PA", "trap"}
      /\ block' = WithBlock(first, "vs_positions", AlignedBlock(output, 8))
      /\ call' = call /\ cur_tile' = cur_tile /\ ia' = ia
  BY DEF VS_stage, Proceed
<1>2. /\ Nested(ts, <<0>>) /\ ts.cursor \in Nat /\ call \in Calls
      /\ DOMAIN block \subseteq {"attributes"} /\ DOMAIN cur_tile = DOMAIN NoTile
      /\ Laid(block, Extents, Top(ts)) /\ FilledFits
  BY <1>1 DEF BlocksInv, BlocksTaken, ScopesOpen, CallStages
<1>3. units \in Nat /\ words \in Nat /\ units * 4 \in Nat
  <2>1. call.indexCount \in Nat /\ call.vs_outputs \in InterfaceVariables
    BY <1>2, DrawAssumption
  <2>2. OutputStride \in Nat
    BY <2>1, LayoutIs DEF OutputStride
  <2>3. QED
    BY <2>1, <2>2, SizesAre DEF OutputWords
<1>4. DOMAIN vs'.output = 0 .. words \div SlotAlign - 1 /\ DOMAIN vs'.positions = 0 .. units - 1
  BY DEF VS_stage, Buffer, OutputWords
<1>5. Extents'["vs_output"] = words /\ Extents'["vs_positions"] = units * 4
  BY <1>1 DEF Extents, Extent, AllBlocks, CallBlocks, Units, Subgroups, OutputWords, OutputStride
<1>6. \A b \in DOMAIN block : Extents'[b] = Extents[b]
  <2>1. \A b \in DOMAIN block : b \in AllBlocks /\ b \notin PixelBlocks
    BY <1>2 DEF AllBlocks, CallBlocks, PixelBlocks
  <2>2. QED
    BY <1>1, <2>1, ExtentsStay
<1> HIDE DEF words, units, output, first
<1>7. Laid(block, Extents', Top(ts)) /\ "vs_output" \notin DOMAIN block
  BY <1>2, <1>6 DEF Laid
<1>8. Nested(output, <<0>>) /\ output.cursor \in Nat /\ Laid(first, Extents', Top(output))
  BY <1>2, <1>3, <1>5, <1>7, AlignedBlockAdded DEF output, first
<1>9. DOMAIN first = DOMAIN block \cup {"vs_output"} /\ "vs_positions" \notin DOMAIN first
  BY <1>2 DEF first, WithBlock
<1> DEFINE after == alloc_align(output, units * 4, 8)
           both == WithBlock(first, "vs_positions", AlignedBlock(output, 8))
<1>10. after.cursor \in Nat /\ Laid(both, Extents', Top(after))
  BY <1>3, <1>5, <1>8, <1>9, AlignedBlockAdded
<1>11. ts'.cursor \in Nat /\ Laid(block', Extents', Top(ts')) /\ DOMAIN block' = DOMAIN first \cup {"vs_positions"}
  BY <1>1, <1>10 DEF WithBlock
<1> HIDE DEF after, both
<1>12. DOMAIN block' = DOMAIN block \cup {"vs_output", "vs_positions"}
  BY <1>9, <1>11
<1>13. FilledFits'
  <2>1. ASSUME NEW b \in DOMAIN block PROVE Filled(b)' = Filled(b)
    <3>1. b = "attributes"
      BY <1>2
    <3>2. QED
      BY <1>1, <3>1 DEF Filled
  <2>2. Filled("vs_output")' = Cardinality(DOMAIN vs'.output) * SlotAlign
    BY DEF Filled
  <2>3. Cardinality(DOMAIN vs'.output) * SlotAlign \in Nat /\ Cardinality(DOMAIN vs'.output) * SlotAlign <= words
    BY <1>3, <1>4, BufferFits
  <2>4. Filled("vs_positions")' = Cardinality(DOMAIN vs'.positions) * 4
    BY DEF Filled
  <2>5. Cardinality(DOMAIN vs'.positions) = units
    BY <1>3, <1>4, UpTo
  <2>6. \A b \in DOMAIN block' : b \in DOMAIN block \/ b = "vs_output" \/ b = "vs_positions"
    BY <1>12
  <2>7. \A b \in DOMAIN block : Filled(b)' \in Nat /\ Filled(b)' <= Extents'[b]
    BY <1>2, <1>6, <2>1 DEF FilledFits
  <2>8. Filled("vs_output")' \in Nat /\ Filled("vs_output")' <= Extents'["vs_output"]
    BY <1>5, <2>2, <2>3
  <2>9. Filled("vs_positions")' \in Nat /\ Filled("vs_positions")' <= Extents'["vs_positions"]
    BY <1>3, <1>5, <2>4, <2>5
  <2>10. QED
    BY <2>6, <2>7, <2>8, <2>9 DEF FilledFits
<1>14. pc' = "trap" => BlocksInv'
  BY DEF BlocksInv
<1>15. DOMAIN block' \subseteq {"attributes", "vs_output", "vs_positions"}
  BY <1>2, <1>12
<1>16. QED
  BY <1>1, <1>2, <1>11, <1>13, <1>14, <1>15, CallStage DEF CallBlocks


(* Primitive assembly fills a sixth of its block. *)
LEMMA CornerBlocks ==
  ASSUME ScopesOpen, BlocksInv, PA_stage
  PROVE  BlocksInv'
<1> DEFINE n == call.indexCount
           words == 4 * n * 6
           after == alloc_align(ts, words, 8)
           one == WithBlock(block, "screenspace", AlignedBlock(ts, 8))
<1>1. /\ pc = "PA" /\ ts' = after /\ pc' \in {"begin_tile", "trap"} /\ block' = one
      /\ call' = call /\ cur_tile' = NoTile /\ ia' = ia /\ vs' = vs
      /\ DOMAIN assembly' = 0 .. n - 1
  BY DEF PA_stage, Proceed
<1>2. /\ Nested(ts, <<0>>) /\ ts.cursor \in Nat /\ call \in Calls
      /\ DOMAIN block \subseteq {"attributes", "vs_output", "vs_positions"}
      /\ Laid(block, Extents, Top(ts)) /\ FilledFits
  BY <1>1 DEF BlocksInv, BlocksTaken, ScopesOpen, CallStages
<1>3. n \in Nat /\ words \in Nat
  BY <1>2, DrawAssumption
<1>4. Extents'["screenspace"] = words
  BY <1>1 DEF Extents, Extent, AllBlocks, CallBlocks
<1>5. \A b \in DOMAIN block : Extents'[b] = Extents[b]
  <2>1. \A b \in DOMAIN block : b \in AllBlocks /\ b \notin PixelBlocks
    BY <1>2 DEF AllBlocks, CallBlocks, PixelBlocks
  <2>2. QED
    BY <1>1, <2>1, ExtentsStay
<1>6. Laid(block, Extents', Top(ts)) /\ "screenspace" \notin DOMAIN block
  BY <1>2, <1>5 DEF Laid
<1> HIDE DEF words
<1>7. after.cursor \in Nat /\ Laid(one, Extents', Top(after))
  BY <1>2, <1>3, <1>4, <1>6, AlignedBlockAdded
<1>8. ts'.cursor \in Nat /\ Laid(block', Extents', Top(ts')) /\ DOMAIN block' = DOMAIN block \cup {"screenspace"}
  BY <1>1, <1>7 DEF WithBlock
<1>9. FilledFits'
  <2>1. ASSUME NEW b \in DOMAIN block PROVE Filled(b)' = Filled(b)
    BY <1>1, <1>2 DEF Filled
  <2>2. \A b \in DOMAIN block : Filled(b)' \in Nat /\ Filled(b)' <= Extents'[b]
    BY <1>2, <1>5, <2>1 DEF FilledFits
  <2>3. Filled("screenspace")' = n * 4
    BY <1>1, <1>3, UpTo DEF Filled
  <2>4. n * 4 \in Nat /\ n * 4 <= words
    BY <1>3 DEF words
  <2>5. \A b \in DOMAIN block' : b \in DOMAIN block \/ b = "screenspace"
    BY <1>8
  <2>6. QED
    BY <1>4, <2>2, <2>3, <2>4, <2>5 DEF FilledFits
<1>10. pc' = "trap" => BlocksInv'
  BY DEF BlocksInv
<1>11. DOMAIN block' \subseteq CallBlocks
  BY <1>2, <1>8 DEF CallBlocks
<1>12. cur_tile'.output = <<>> /\ cur_tile'.depth_output = <<>>
  BY <1>1 DEF NoTile
<1>13. QED
  BY <1>1, <1>2, <1>8, <1>9, <1>10, <1>11, <1>12, CallStage

(* A tile begins with room for its pixels, whose block may begin a page    *)
(* above the storage and end two pages above it, and for its small tiles.  *)
LEMMA TileBegins ==
  ASSUME ScopesOpen, BlocksInv, TileFits, begin_tile
  PROVE  BlocksInv'
<1> DEFINE scope == enter_scope(ts)
           pinfos == alloc_page_aligned(scope, 7 * MaxInvocations)
           words == 4 * MaxTiles
           after == alloc_align(pinfos, words, 8)
           first == WithBlock(block, "pinfos", PageBlock(scope))
           both == WithBlock(first, "tiles", AlignedBlock(pinfos, 8))
           d == ts.cursor
           saved == <<0, d>>
<1>1. /\ pc = "begin_tile" /\ ts' = after /\ pc' \in {"rasterize", "trap"} /\ block' = both
      /\ call' = call /\ cur_tile' = cur_tile /\ UNCHANGED geometry
  BY DEF begin_tile, Proceed
<1>2. /\ Nested(ts, << 0 >>) /\ d \in Nat /\ call \in Calls /\ DOMAIN cur_tile = DOMAIN NoTile
      /\ DOMAIN block \subseteq CallBlocks /\ Laid(block, Extents, Top(ts)) /\ FilledFits
      /\ cur_tile.output = <<>> /\ cur_tile.depth_output = <<>>
  BY <1>1 DEF BlocksInv, BlocksTaken, ScopesOpen, CallStages, OutputsGrow
<1>3. /\ MaxInvocations \in Nat /\ MaxTiles \in Nat /\ Page \in Nat /\ PixelRoom \in Nat
      /\ 2 * Page <= 7 * MaxInvocations
  <2>1. MaxInvocations \in Nat /\ MaxTiles \in Nat /\ Page \in Nat
    BY DrawAssumption, StorageAssumption
  <2>2. PICK n \in Nat : 7 * n <= PixelRoom
    BY DEF TileFits
  <2>3. QED
    BY <2>1, <2>2 DEF PixelRoom
<1>4. Extents'["pinfos"] = PixelRoom /\ Extents'["tiles"] = words
  BY DEF Extents, Extent, AllBlocks, CallBlocks, TileBlocks, PixelRoom
<1>5. \A b \in DOMAIN block : Extents'[b] = Extents[b]
  <2>1. \A b \in DOMAIN block : b \in AllBlocks /\ b \notin PixelBlocks
    BY <1>2 DEF AllBlocks, CallBlocks, PixelBlocks
  <2>2. QED
    BY <1>1, <2>1, ExtentsStay
<1>6. Nested(scope, saved) /\ scope.cursor = d /\ Top(scope) = Top(ts)
  BY <1>2, EnterTile DEF Top
<1>7. 7 * MaxInvocations \in Nat /\ words \in Nat
  BY <1>3
<1> HIDE DEF words, saved, scope
<1>8. /\ Nested(pinfos, saved) /\ pinfos.cursor \in Nat
      /\ Top(scope) \in Nat /\ PageBlock(scope) \in Nat /\ Top(scope) <= PageBlock(scope)
      /\ PageBlock(scope) + PixelRoom <= Top(pinfos) /\ Top(pinfos) \in Nat
  BY <1>2, <1>3, <1>6, <1>7, PageAlloc DEF PixelRoom
<1> HIDE DEF pinfos
<1>9. Laid(first, Extents', Top(pinfos))
  <2> DEFINE top == Top(scope)
             at == PageBlock(scope)
             top2 == Top(pinfos)
  <2>1. Laid(block, Extents', top) /\ "pinfos" \notin DOMAIN block /\ Extents'["pinfos"] \in Nat
    BY <1>2, <1>3, <1>4, <1>5, <1>6 DEF Laid, CallBlocks
  <2>2. top \in Nat /\ at \in Nat /\ top2 \in Nat /\ top <= at /\ at + Extents'["pinfos"] <= top2
    BY <1>4, <1>8
  <2> HIDE DEF top, at, top2
  <2>3. Laid(WithBlock(block, "pinfos", at), Extents', top2)
    BY <2>1, <2>2, BlockAdded
  <2>4. QED
    BY <2>3 DEF at, top2
<1>10. /\ DOMAIN first = DOMAIN block \cup {"pinfos"} /\ "tiles" \notin DOMAIN first
       /\ \A a \in DOMAIN block : first[a] = block[a]
  BY <1>2 DEF WithBlock, CallBlocks
<1> HIDE DEF first
<1>11. Nested(after, saved) /\ after.cursor \in Nat /\ Laid(both, Extents', Top(after))
  BY <1>4, <1>7, <1>8, <1>9, <1>10, AlignedBlockAdded
<1>12. /\ DOMAIN block' = DOMAIN first \cup {"tiles"}
       /\ \A a \in DOMAIN first : block'[a] = first[a]
  BY <1>1, <1>10 DEF WithBlock
<1> HIDE DEF after, both
<1>13. ts'.cursor \in Nat /\ Laid(block', Extents', Top(ts'))
  BY <1>1, <1>11
<1>14. ts'.scopes[2] = d
  BY <1>1, <1>11 DEF Nested, saved
<1>15. FilledFits'
  <2>1. ASSUME NEW b PROVE Filled(b)' = Filled(b)
    BY <1>1 DEF Filled, geometry
  <2>2. \A b \in DOMAIN block : Filled(b)' \in Nat /\ Filled(b)' <= Extents'[b]
    BY <1>2, <1>5, <2>1 DEF FilledFits
  <2>3. PICK n \in Nat : Len(cur_tile.pinfos) = n /\ 7 * n <= PixelRoom
    BY DEF TileFits
  <2>4. Filled("pinfos")' \in Nat /\ Filled("pinfos")' <= PixelRoom
    <3>1. Filled("pinfos")' = n * 7
      BY <1>1, <2>3 DEF Filled
    <3>2. n * 7 \in Nat /\ n * 7 <= PixelRoom
      BY <1>3, <2>3
    <3>3. QED
      BY <3>1, <3>2
  <2>5. Filled("tiles")' \in Nat /\ Filled("tiles")' <= words
    <3>1. Filled("tiles")' = cur_tile.tiles * 4
      BY <1>1 DEF Filled
    <3>2. cur_tile.tiles \in Nat /\ cur_tile.tiles <= MaxTiles
      BY <1>3 DEF TileFits
    <3>3. QED
      BY <1>3, <3>1, <3>2 DEF words
  <2>6. \A b \in DOMAIN block' : b \in DOMAIN block \/ b = "pinfos" \/ b = "tiles"
    BY <1>10, <1>12
  <2>7. QED
    BY <1>4, <2>2, <2>4, <2>5, <2>6 DEF FilledFits
<1>16. \A a \in DOMAIN block' \ TileBlocks : block'[a] + Extents'[a] <= Base + d
  <2>1. \A a \in DOMAIN block' \ TileBlocks : a \in DOMAIN block /\ block'[a] = block[a]
    BY <1>10, <1>12 DEF TileBlocks
  <2>2. QED
    BY <1>2, <1>5, <2>1 DEF Laid, Top
<1>17. DOMAIN block' \subseteq CallBlocks \cup {"pinfos", "tiles"}
  BY <1>2, <1>10, <1>12
<1>18. pc' = "trap" => BlocksInv'
  BY DEF BlocksInv
<1>19. pc' = "rasterize" => OutputsGrow'
  BY <1>1, <1>2 DEF OutputsGrow
<1>20. DOMAIN block' \subseteq AllBlocks
  BY <1>17 DEF AllBlocks, TileBlocks
<1>21. QED
  BY <1>1, <1>2, <1>13, <1>14, <1>15, <1>16, <1>17, <1>18, <1>19, <1>20, TileStage DEF TileStages


(* A stage of a tile that takes no block. *)
LEMMA SameBlocks ==
  ASSUME BlocksInv, pc \in TileStages, pc' \in TileStages, ts' = ts, block' = block, call' = call,
         DOMAIN cur_tile' = DOMAIN NoTile, FilledFits', OutputsGrow',
         \A b \in DOMAIN block : Extents'[b] = Extents[b],
         pc' \in {"rasterize", "setup"} => pc \in {"rasterize", "setup"}
  PROVE  BlocksInv'
<1>1. pc # "trap" /\ pc # "idle"
  BY DEF TileStages
<1>2. /\ ts.cursor \in Nat /\ call \in Calls /\ BlocksTaken /\ Laid(block, Extents, Top(ts)) /\ CallBelowTile
  BY <1>1 DEF BlocksInv
<1> DEFINE d == ts.scopes[2]
<1>3. d \in Nat /\ \A a \in DOMAIN block \ TileBlocks : block[a] + Extents[a] <= Base + d
  BY <1>2 DEF CallBelowTile
<1>4. ts'.scopes[2] = d
  OBVIOUS
<1>5. Laid(block', Extents', Top(ts'))
  BY <1>2 DEF Laid
<1>6. \A a \in DOMAIN block' \ TileBlocks : block'[a] + Extents'[a] <= Base + d
  BY <1>3
<1>7. /\ DOMAIN block' \subseteq AllBlocks
      /\ pc' \in {"rasterize", "setup"} => DOMAIN block' \subseteq CallBlocks \cup {"pinfos", "tiles"}
  BY <1>2 DEF BlocksTaken
<1> HIDE DEF d
<1>8. QED
  BY <1>2, <1>3, <1>4, <1>5, <1>6, <1>7, TileStage

(* What a tile is found to hold fills the block for its pixels.            *)
LEMMA PixelsFound ==
  ASSUME BlocksInv, TileFits', rasterize_current_tile
  PROVE  BlocksInv'
<1>1. /\ pc = "rasterize" /\ pc' \in {"rasterize", "setup"}
      /\ ts' = ts /\ block' = block /\ call' = call /\ UNCHANGED geometry
  BY DEF rasterize_current_tile
<1>2. /\ DOMAIN cur_tile = DOMAIN NoTile /\ FilledFits
      /\ DOMAIN block \subseteq CallBlocks \cup {"pinfos", "tiles"}
      /\ cur_tile.output = <<>> /\ cur_tile.depth_output = <<>>
      /\ Laid(block, Extents, Top(ts))
  BY <1>1 DEF BlocksInv, BlocksTaken, OutputsGrow
<1>3. /\ DOMAIN cur_tile' = DOMAIN NoTile
      /\ cur_tile'.output = cur_tile.output /\ cur_tile'.depth_output = cur_tile.depth_output
  BY <1>2 DEF rasterize_current_tile, NoTile
<1>4. ASSUME NEW b \in DOMAIN block PROVE Extents'[b] = Extents[b]
  <2>1. b \in AllBlocks /\ b \notin PixelBlocks
    BY <1>2 DEF AllBlocks, CallBlocks, PixelBlocks, TileBlocks
  <2>2. QED
    BY <1>1, <2>1, ExtentsStay
<1>5. PICK n \in Nat : Len(cur_tile'.pinfos) = n /\ 7 * n <= PixelRoom
  BY DEF TileFits, PixelRoom
<1>6. MaxInvocations \in Nat /\ MaxTiles \in Nat /\ Page \in Nat /\ PixelRoom \in Int
  <2>1. MaxInvocations \in Nat /\ MaxTiles \in Nat /\ Page \in Nat
    BY DrawAssumption, StorageAssumption
  <2>2. QED
    BY <2>1 DEF PixelRoom
<1>7. FilledFits'
  <2>1. ASSUME NEW b \in DOMAIN block PROVE Filled(b)' \in Nat /\ Filled(b)' <= Extents'[b]
    <3>1. CASE b \in CallBlocks
      <4>1. Filled(b)' = Filled(b)
        BY <1>1, <3>1 DEF Filled, geometry, CallBlocks
      <4>2. QED
        BY <1>2, <1>4, <4>1 DEF FilledFits
    <3>2. CASE b = "pinfos"
      <4>1. Filled(b)' = n * 7
        BY <1>5, <3>2 DEF Filled
      <4>2. Extents'[b] = PixelRoom
        BY <3>2 DEF Extents, Extent, AllBlocks, TileBlocks, PixelRoom
      <4>3. QED
        BY <1>5, <1>6, <4>1, <4>2
    <3>3. CASE b = "tiles"
      <4>1. Filled(b)' = cur_tile'.tiles * 4
        BY <3>3 DEF Filled
      <4>2. Extents'[b] = 4 * MaxTiles
        BY <3>3 DEF Extents, Extent, AllBlocks, TileBlocks
      <4>3. cur_tile'.tiles \in Nat /\ cur_tile'.tiles <= MaxTiles
        BY <1>6 DEF TileFits
      <4>4. QED
        BY <1>6, <4>1, <4>2, <4>3
    <3>4. QED
      BY <1>2, <3>1, <3>2, <3>3
  <2>2. QED
    BY <1>1, <2>1 DEF FilledFits
<1>8. OutputsGrow'
  BY <1>1, <1>2, <1>3 DEF OutputsGrow
<1>9. QED
  BY <1>1, <1>3, <1>4, <1>7, <1>8, SameBlocks DEF TileStages

(* The merge writes only to the attachments. *)
LEMMA MergeBlocks ==
  ASSUME BlocksInv, merge_current_tile
  PROVE  BlocksInv'
<1>1. /\ pc = "merge" /\ pc' \in {"merge", "end_tile", "trap"}
      /\ UNCHANGED <<call, ts, block, geometry, cur_tile>>
  BY DEF merge_current_tile, merge_pixel
<1>2. DOMAIN cur_tile = DOMAIN NoTile
  BY <1>1 DEF BlocksInv
<1>3. Extents' = Extents /\ FilledFits'
  BY <1>1, NothingTaken
<1>4. pc' # "trap" => OutputsGrow'
  BY <1>1 DEF OutputsGrow
<1>5. pc' = "trap" => BlocksInv'
  BY DEF BlocksInv
<1>6. QED
  BY <1>1, <1>2, <1>3, <1>4, <1>5, SameBlocks DEF TileStages

(* Each subgroup puts out a pixel for each of its lanes, up to as many as  *)
(* there are in all subgroups.                                             *)
LEMMA PixelsShaded ==
  ASSUME BlocksInv, TileFits, shade_current_tile
  PROVE  BlocksInv'
<1> DEFINE n == Len(cur_tile.pinfos)
<1>1. /\ pc = "shade" /\ pc' \in {"shade", "merge"}
      /\ ts' = ts /\ block' = block /\ call' = call /\ UNCHANGED geometry
  BY DEF shade_current_tile
<1>2. DOMAIN cur_tile = DOMAIN NoTile /\ FilledFits /\ OutputsGrow /\ BlocksTaken
  BY <1>1 DEF BlocksInv
<1>3. n \in Nat
  BY DEF TileFits
<1>4. CASE next < Subgroups(n)
  <2>1. PICK f, g :
          /\ cur_tile' = [cur_tile EXCEPT !.output = @ \o [j \in 1 .. SubgroupSize |-> f[j]],
                                          !.depth_output = @ \o [j \in 1 .. SubgroupSize |-> g[j]]]
          /\ next' = next + 1 /\ pc' = "shade"
    <3> DEFINE lane(j) == next * SubgroupSize + j - 1
               ofLane(h(_)) == [j \in 1 .. SubgroupSize |-> IF lane(j) < n THEN h(lane(j)) ELSE Junk]
               F == ofLane(PixelColor)
               G == ofLane(PixelDepth)
    <3>1. /\ cur_tile' = [cur_tile EXCEPT !.output = @ \o F, !.depth_output = @ \o G]
          /\ next' = next + 1 /\ pc' = "shade"
      BY <1>1, <1>4 DEF shade_current_tile
    <3>2. F = [j \in 1 .. SubgroupSize |-> F[j]] /\ G = [j \in 1 .. SubgroupSize |-> G[j]]
      OBVIOUS
    <3> HIDE DEF F, G
    <3>3. QED
      BY <3>1, <3>2
  <2> DEFINE F == [j \in 1 .. SubgroupSize |-> f[j]]
             G == [j \in 1 .. SubgroupSize |-> g[j]]
  <2>2. SubgroupSize \in Nat \ {0}
    BY DrawAssumption
  <2>3. IsSequence(F) /\ Len(F) = SubgroupSize /\ IsSequence(G) /\ Len(G) = SubgroupSize
    <3>1. F \in Seq({f[j] : j \in 1 .. SubgroupSize}) /\ G \in Seq({g[j] : j \in 1 .. SubgroupSize})
      BY <2>2
    <3>2. Len(F) = SubgroupSize /\ Len(G) = SubgroupSize
      BY <2>2
    <3>3. QED
      BY <3>1, <3>2 DEF IsSequence
  <2> HIDE DEF F, G
  <2>4. /\ DOMAIN cur_tile' = DOMAIN NoTile /\ cur_tile'.pinfos = cur_tile.pinfos
        /\ cur_tile'.output = cur_tile.output \o F /\ cur_tile'.depth_output = cur_tile.depth_output \o G
        /\ cur_tile'.tiles = cur_tile.tiles /\ cur_tile'.input = cur_tile.input
        /\ cur_tile'.positions = cur_tile.positions
    BY <1>2, <2>1 DEF NoTile, F, G
  <2>5. /\ next \in 0 .. Subgroups(n)
        /\ IsSequence(cur_tile.output) /\ Len(cur_tile.output) = next * SubgroupSize
        /\ IsSequence(cur_tile.depth_output) /\ Len(cur_tile.depth_output) = next * SubgroupSize
    BY <1>1, <1>2 DEF OutputsGrow
  <2> HIDE DEF n
  <2>6. Subgroups(n) \in Nat /\ next \in Nat /\ next + 1 \in 0 .. Subgroups(n)
    BY <1>3, <1>4, <2>5, SizesAre
  <2>7. (next + 1) * SubgroupSize = next * SubgroupSize + SubgroupSize
    BY <2>2, <2>6
  <2>8. /\ IsSequence(cur_tile'.output) /\ Len(cur_tile'.output) = next' * SubgroupSize
        /\ IsSequence(cur_tile'.depth_output) /\ Len(cur_tile'.depth_output) = next' * SubgroupSize
    <3>1. /\ IsSequence(cur_tile.output \o F)
          /\ Len(cur_tile.output \o F) = Len(cur_tile.output) + Len(F)
      BY <2>3, <2>5, SequencesJoin
    <3>2. /\ IsSequence(cur_tile.depth_output \o G)
          /\ Len(cur_tile.depth_output \o G) = Len(cur_tile.depth_output) + Len(G)
      BY <2>3, <2>5, SequencesJoin
    <3>3. next' = next + 1
      BY <2>1
    <3>4. QED
      BY <2>3, <2>4, <2>5, <2>7, <3>1, <3>2, <3>3
  <2>9. OutputsGrow'
    <3>1. Subgroups(Len(cur_tile.pinfos))' = Subgroups(n)
      BY <2>4 DEF Subgroups, n
    <3>2. QED
      BY <2>1, <2>6, <2>8, <3>1 DEF OutputsGrow
  <2>10. ASSUME NEW b \in DOMAIN block PROVE Extents'[b] = Extents[b]
    <3>1. b \in AllBlocks
      BY <1>2 DEF BlocksTaken
    <3>2. QED
      BY <1>1, <2>4, <3>1, ExtentsStay
  <2>11. FilledFits'
    <3>1. next' * SubgroupSize \in Nat /\ next' * SubgroupSize <= Units(n) /\ Units(n) \in Nat
      BY <1>3, <2>1, <2>6, SizesAre
    <3>2. ASSUME NEW b \in DOMAIN block PROVE Filled(b)' \in Nat /\ Filled(b)' <= Extents'[b]
      <4>1. CASE b \notin {"pixel_output", "pixel_depth"}
        <5>1. Filled(b)' = Filled(b)
          <6>1. b \in AllBlocks
            BY <1>2 DEF BlocksTaken
          <6>2. QED
            BY <1>1, <2>4, <4>1, <6>1 DEF Filled, geometry, AllBlocks, CallBlocks, TileBlocks
        <5>2. QED
          BY <1>2, <2>10, <5>1 DEF FilledFits
      <4>2. CASE b = "pixel_output"
        <5>1. Filled(b)' = (next' * SubgroupSize) * 4
          BY <2>8, <4>2 DEF Filled
        <5>2. Extents'[b] = 4 * Units(n)
          BY <2>10, <4>2 DEF Extents, Extent, AllBlocks, TileBlocks, n
        <5>3. QED
          BY <3>1, <5>1, <5>2
      <4>3. CASE b = "pixel_depth"
        <5>1. Filled(b)' = next' * SubgroupSize
          BY <2>8, <4>3 DEF Filled
        <5>2. Extents'[b] = Units(n)
          BY <2>10, <4>3 DEF Extents, Extent, AllBlocks, TileBlocks, n
        <5>3. QED
          BY <3>1, <5>1, <5>2
      <4>4. QED
        BY <4>1, <4>2, <4>3
    <3>3. QED
      BY <1>1, <3>2 DEF FilledFits
  <2>12. QED
    BY <1>1, <2>4, <2>9, <2>10, <2>11, SameBlocks DEF TileStages
<1>5. CASE ~(next < Subgroups(n))
  <2>1. pc' = "merge" /\ cur_tile' = cur_tile
    BY <1>5 DEF shade_current_tile
  <2>2. Extents' = Extents /\ FilledFits'
    BY <1>1, <2>1, NothingTaken
  <2>3. OutputsGrow'
    BY <2>1 DEF OutputsGrow
  <2>4. QED
    BY <1>1, <1>2, <2>1, <2>2, <2>3, SameBlocks DEF TileStages
<1>6. QED
  BY <1>4, <1>5


(* A tile's storage is given back, and what lies below it stays. *)
LEMMA TileEnds ==
  ASSUME ScopesOpen, BlocksInv, end_tile
  PROVE  BlocksInv'
<1>1. /\ pc = "end_tile" /\ ts' = exit_scope(ts) /\ pc' \in {"begin_tile", "end_draw", "trap"}
      /\ block' = [b \in DOMAIN block \ TileBlocks |-> block[b]]
      /\ call' = call /\ UNCHANGED geometry
      /\ \E x, y : cur_tile' = [NoTile EXCEPT !.x = x, !.y = y]
  BY DEF end_tile, tile_released, Proceed
<1>2. PICK d : Nested(ts, <<0, d>>)
  BY <1>1 DEF ScopesOpen, TileStages
<1>3. ts.scopes[2] = d
  BY <1>2 DEF Nested
<1>4. /\ call \in Calls /\ DOMAIN block \subseteq AllBlocks /\ Laid(block, Extents, Top(ts)) /\ FilledFits
      /\ d \in Nat /\ \A a \in DOMAIN block \ TileBlocks : block[a] + Extents[a] <= Base + d
  BY <1>1, <1>3 DEF BlocksInv, BlocksTaken, CallBelowTile, TileStages
<1>5. ts'.cursor = d
  BY <1>1, <1>2, LeaveTile
<1>6. /\ DOMAIN cur_tile' = DOMAIN NoTile
      /\ cur_tile'.output = <<>> /\ cur_tile'.depth_output = <<>>
  BY <1>1 DEF NoTile
<1>7. /\ DOMAIN block' = DOMAIN block \ TileBlocks
      /\ \A a \in DOMAIN block' : block'[a] = block[a]
  BY <1>1
<1>8. DOMAIN block' \subseteq CallBlocks
  BY <1>4, <1>7 DEF AllBlocks
<1>9. \A a \in DOMAIN block' : Extents'[a] = Extents[a]
  <2>1. \A a \in DOMAIN block' : a \in AllBlocks /\ a \notin PixelBlocks
    BY <1>8 DEF AllBlocks, CallBlocks, PixelBlocks
  <2>2. QED
    BY <1>1, <2>1, ExtentsStay
<1>10. Laid(block', Extents', Top(ts'))
  <2>1. \A a \in DOMAIN block' : block[a] + Extents[a] <= Top(ts')
    BY <1>4, <1>5, <1>7 DEF Top
  <2>2. QED
    BY <1>4, <1>7, <1>9, <2>1 DEF Laid
<1>11. FilledFits'
  <2>1. ASSUME NEW b \in DOMAIN block' PROVE Filled(b)' = Filled(b)
    BY <1>1, <1>8 DEF Filled, geometry, CallBlocks
  <2>2. QED
    BY <1>4, <1>7, <1>9, <2>1 DEF FilledFits
<1>12. pc' = "trap" => BlocksInv'
  BY DEF BlocksInv
<1>13. QED
  BY <1>1, <1>4, <1>5, <1>6, <1>8, <1>10, <1>11, <1>12, CallStage

(* The pixels of a tile get four blocks, for the lanes of all subgroups.   *)
LEMMA PixelBlocksTaken ==
  ASSUME ScopesOpen, BlocksInv, TileFits, setup_pixel_input_current_tile
  PROVE  BlocksInv'
<1> DEFINE n == Len(cur_tile.pinfos)
           units == Units(n)
<1>1. pc = "setup" /\ call' = call /\ UNCHANGED geometry
  BY DEF setup_pixel_input_current_tile
<1>2. PICK d : Nested(ts, <<0, d>>)
  BY <1>1 DEF ScopesOpen, TileStages
<1>3. ts.scopes[2] = d
  BY <1>2 DEF Nested
<1>4. /\ ts.cursor \in Nat /\ call \in Calls /\ DOMAIN cur_tile = DOMAIN NoTile
      /\ DOMAIN block \subseteq CallBlocks \cup {"pinfos", "tiles"}
      /\ Laid(block, Extents, Top(ts)) /\ FilledFits
      /\ cur_tile.output = <<>> /\ cur_tile.depth_output = <<>>
      /\ d \in Nat /\ \A a \in DOMAIN block \ TileBlocks : block[a] + Extents[a] <= Base + d
  BY <1>1, <1>3 DEF BlocksInv, BlocksTaken, CallBelowTile, OutputsGrow, TileStages
<1>5. n \in Nat
  BY DEF TileFits
<1>6. CASE n = 0
  <2>1. pc' = "end_tile" /\ UNCHANGED <<ts, block, cur_tile, next>>
    BY <1>6 DEF setup_pixel_input_current_tile
  <2>2. Extents' = Extents /\ FilledFits'
    BY <1>1, <2>1, NothingTaken
  <2>3. OutputsGrow'
    BY <2>1 DEF OutputsGrow
  <2>4. QED
    BY <1>1, <1>4, <2>1, <2>2, <2>3, SameBlocks DEF TileStages
<1>7. CASE n # 0
  <2> DEFINE inputs == 3 * PixelStride * units
             output == alloc_align(ts, 4 * units, 8)
             positions == alloc_align(output, 4 * units * 3, 8)
             depths == alloc_align(positions, units, 8)
             after == alloc_align(depths, inputs, 8)
             one == WithBlock(block, "pixel_output", AlignedBlock(ts, 8))
             two == WithBlock(one, "pixel_positions", AlignedBlock(output, 8))
             three == WithBlock(two, "pixel_depth", AlignedBlock(positions, 8))
             four == WithBlock(three, "pixel_input", AlignedBlock(depths, 8))
             saved == <<0, d>>
  <2>1. ts' = after /\ pc' \in {"shade", "trap"} /\ block' = four /\ next' = 0
    BY <1>7 DEF setup_pixel_input_current_tile, Proceed
  <2>2. /\ DOMAIN cur_tile' = DOMAIN NoTile /\ cur_tile'.pinfos = cur_tile.pinfos
        /\ cur_tile'.tiles = cur_tile.tiles
        /\ cur_tile'.output = <<>> /\ cur_tile'.depth_output = <<>>
        /\ DOMAIN cur_tile'.input = 0 .. (3 * units * PixelStride) \div SlotAlign - 1
        /\ DOMAIN cur_tile'.positions = 0 .. 3 * units - 1
    <3> DEFINE from(i) == MatchingSlot(OutputSlots, PixelSlots[i].location)
               vertex(u) == 3 * (cur_tile.pinfos[(u \div 3) + 1].triangle_id - 1) + (u % 3)
               F == Buffer(3 * units, PixelSlots, PixelStride,
                           LAMBDA u, i : IF u < 3 * n THEN VertexOutput(vertex(u), from(i).offset) ELSE Junk)
               G == [u \in 0 .. 3 * units - 1 |-> IF u < 3 * n THEN assembly[vertex(u)] ELSE Junk]
    <3>1. cur_tile' = [cur_tile EXCEPT !.input = F, !.positions = G]
      BY <1>7 DEF setup_pixel_input_current_tile
    <3>2. DOMAIN F = 0 .. (3 * units * PixelStride) \div SlotAlign - 1 /\ DOMAIN G = 0 .. 3 * units - 1
      BY DEF Buffer
    <3> HIDE DEF F, G, units
    <3>3. QED
      BY <1>4, <3>1, <3>2 DEF NoTile
  <2>3. units \in Nat /\ inputs \in Nat /\ 3 * units * PixelStride = inputs
    <3>1. call.ps_inputs \in InterfaceVariables
      BY <1>4, DrawAssumption
    <3>2. PixelStride \in Nat
      BY <3>1, LayoutIs DEF PixelStride
    <3>3. units \in Nat
      BY <1>5, SizesAre
    <3> HIDE DEF units
    <3>4. 3 * PixelStride \in Nat /\ 3 * units \in Nat
      BY <3>2, <3>3
    <3>5. 3 * PixelStride * units \in Nat /\ 3 * units * PixelStride = 3 * PixelStride * units
      BY <3>2, <3>3, <3>4
    <3>6. QED
      BY <3>3, <3>5
  <2>4. /\ Extents'["pixel_output"] = 4 * units /\ Extents'["pixel_positions"] = 4 * units * 3
        /\ Extents'["pixel_depth"] = units /\ Extents'["pixel_input"] = inputs
    BY <1>1, <2>2 DEF Extents, Extent, AllBlocks, TileBlocks, Units, Subgroups, PixelStride
  <2>5. \A b \in DOMAIN block : Extents'[b] = Extents[b]
    <3>1. \A b \in DOMAIN block : b \in AllBlocks
      BY <1>4 DEF AllBlocks, TileBlocks
    <3>2. QED
      BY <1>1, <2>2, <3>1, ExtentsStay
  <2> HIDE DEF n, units, inputs, output, positions, depths, after, one, two, three, four, saved
  <2>6. Laid(block, Extents', Top(ts)) /\ "pixel_output" \notin DOMAIN block
    BY <1>4, <2>5 DEF Laid, CallBlocks
  <2>7. 4 * units \in Nat /\ 4 * units * 3 \in Nat
    BY <2>3
  <2>8. /\ DOMAIN one = DOMAIN block \cup {"pixel_output"}
        /\ DOMAIN two = DOMAIN block \cup {"pixel_output", "pixel_positions"}
        /\ DOMAIN three = DOMAIN block \cup {"pixel_output", "pixel_positions", "pixel_depth"}
        /\ DOMAIN four = DOMAIN block \cup PixelBlocks
    BY DEF one, two, three, four, WithBlock, PixelBlocks
  <2>9. \A a \in DOMAIN block : four[a] = block[a]
    <3>1. \A a \in DOMAIN block : a \notin PixelBlocks
      BY <1>4 DEF CallBlocks, PixelBlocks
    <3>2. QED
      BY <2>8, <3>1 DEF one, two, three, four, WithBlock, PixelBlocks
  <2>10. Nested(ts, saved)
    BY <1>2 DEF saved
  <2>11. Nested(output, saved) /\ output.cursor \in Nat /\ Laid(one, Extents', Top(output))
    BY <1>4, <2>4, <2>6, <2>7, <2>10, AlignedBlockAdded DEF output, one
  <2>12. "pixel_positions" \notin DOMAIN one /\ "pixel_depth" \notin DOMAIN two /\ "pixel_input" \notin DOMAIN three
    BY <1>4, <2>8 DEF CallBlocks
  <2>13. Nested(positions, saved) /\ positions.cursor \in Nat /\ Laid(two, Extents', Top(positions))
    BY <2>4, <2>7, <2>11, <2>12, AlignedBlockAdded DEF positions, two
  <2>14. Nested(depths, saved) /\ depths.cursor \in Nat /\ Laid(three, Extents', Top(depths))
    BY <2>3, <2>4, <2>12, <2>13, AlignedBlockAdded DEF depths, three
  <2>15. Nested(after, saved) /\ after.cursor \in Nat /\ Laid(four, Extents', Top(after))
    BY <2>3, <2>4, <2>12, <2>14, AlignedBlockAdded DEF after, four
  <2>16. /\ ts'.cursor \in Nat /\ Laid(block', Extents', Top(ts')) /\ ts'.scopes[2] = d
         /\ DOMAIN block' = DOMAIN block \cup PixelBlocks
    BY <2>1, <2>8, <2>15 DEF Nested, saved
  <2>17. \A a \in DOMAIN block' \ TileBlocks : block'[a] + Extents'[a] <= Base + d
    <3>1. PixelBlocks \subseteq TileBlocks
      BY DEF PixelBlocks, TileBlocks
    <3>2. QED
      BY <1>4, <2>1, <2>5, <2>9, <2>16, <3>1
  <2>18. OutputsGrow'
    <3>1. pc' = "shade" \/ pc' = "trap"
      BY <2>1
    <3>2. IsSequence(<<>>)
      <4>1. <<>> \in Seq({})
        OBVIOUS
      <4>2. QED
        BY <4>1 DEF IsSequence
    <3>3. Subgroups(Len(cur_tile.pinfos))' \in Nat
      <4>1. Subgroups(n) \in Nat
        BY <1>5, SizesAre
      <4>2. QED
        BY <2>2, <4>1 DEF Subgroups, n
    <3>4. 0 * SubgroupSize = 0
      BY DrawAssumption
    <3>5. QED
      BY <2>1, <2>2, <3>1, <3>2, <3>3, <3>4 DEF OutputsGrow
  <2>19. FilledFits'
    <3>1. ASSUME NEW b \in DOMAIN block PROVE Filled(b)' \in Nat /\ Filled(b)' <= Extents'[b]
      <4>1. Filled(b)' = Filled(b)
        BY <1>1, <1>4, <2>2 DEF Filled, geometry, CallBlocks
      <4>2. QED
        BY <1>4, <2>5, <4>1 DEF FilledFits
    <3>2. Filled("pixel_output")' = 0 /\ Filled("pixel_depth")' = 0
      BY <2>2 DEF Filled
    <3>3. Filled("pixel_positions")' = 3 * units * 4
      <4>1. 3 * units \in Nat
        BY <2>3
      <4>2. Cardinality(DOMAIN cur_tile'.positions) = 3 * units
        BY <2>2, <4>1, UpTo
      <4>3. QED
        BY <4>2 DEF Filled
    <3>4. Filled("pixel_input")' \in Nat /\ Filled("pixel_input")' <= inputs
      <4>1. DOMAIN cur_tile'.input = 0 .. inputs \div SlotAlign - 1
        BY <2>2, <2>3
      <4>2. /\ Cardinality(DOMAIN cur_tile'.input) * SlotAlign \in Nat
            /\ Cardinality(DOMAIN cur_tile'.input) * SlotAlign <= inputs
        BY <2>3, <4>1, BufferFits
      <4>3. QED
        BY <4>2 DEF Filled
    <3>5. \A b \in PixelBlocks : Filled(b)' \in Nat /\ Filled(b)' <= Extents'[b]
      <4>1. Filled("pixel_output")' \in Nat /\ Filled("pixel_output")' <= Extents'["pixel_output"]
        BY <2>3, <2>4, <3>2
      <4>2. Filled("pixel_depth")' \in Nat /\ Filled("pixel_depth")' <= Extents'["pixel_depth"]
        BY <2>3, <2>4, <3>2
      <4>3. Filled("pixel_positions")' \in Nat /\ Filled("pixel_positions")' <= Extents'["pixel_positions"]
        BY <2>3, <2>4, <3>3
      <4>4. Filled("pixel_input")' \in Nat /\ Filled("pixel_input")' <= Extents'["pixel_input"]
        BY <2>4, <3>4
      <4>5. QED
        BY <4>1, <4>2, <4>3, <4>4 DEF PixelBlocks
    <3>6. QED
      BY <2>16, <3>1, <3>5 DEF FilledFits
  <2>20. DOMAIN block' \subseteq AllBlocks
    BY <1>4, <2>16 DEF AllBlocks, TileBlocks, PixelBlocks
  <2>21. pc' = "trap" => BlocksInv'
    BY DEF BlocksInv
  <2>22. QED
    BY <1>1, <1>4, <2>1, <2>2, <2>16, <2>17, <2>18, <2>19, <2>20, <2>21, TileStage DEF TileStages
<1>8. QED
  BY <1>6, <1>7

(* At the start nothing is allocated. *)
LEMMA InitBlocks == Init => BlocksInv
BY DEF Init, BlocksInv, BlocksTaken, Laid, CallBelowTile, OutputsGrow, FilledFits, TileStages, create

(* No step makes two blocks meet.                                          *)
LEMMA NextBlocks ==
  ASSUME ScopesOpen, BlocksInv, TileFits, TileFits', [Next]_vars
  PROVE  BlocksInv'
<1>1. CASE pc = "trap"
  <2>1. pc' = "trap"
    BY <1>1 DEF Next, vars, clear_attachment, begin_draw_indexed, setup_descriptors, IA_stage, VS_stage,
       PA_stage, begin_tile, rasterize_current_tile, setup_pixel_input_current_tile, shade_current_tile,
       merge_current_tile, end_tile, end_draw
  <2>2. QED
    BY <2>1 DEF BlocksInv
<1>2. CASE UNCHANGED vars
  <2>1. UNCHANGED <<pc, call, ts, block, ia, vs, assembly, cur_tile, next>>
    BY <1>2 DEF vars
  <2>2. CASE pc # "trap"
    <3>1. Extents' = Extents /\ FilledFits'
      BY <2>1, <2>2, NothingTaken DEF geometry
    <3>2. (BlocksTaken /\ CallBelowTile /\ OutputsGrow) => (BlocksTaken /\ CallBelowTile /\ OutputsGrow)'
      BY <2>1, <3>1 DEF BlocksTaken, CallBelowTile, OutputsGrow, Subgroups
    <3>3. Laid(block, Extents, Top(ts))' <=> Laid(block, Extents, Top(ts))
      BY <2>1, <3>1 DEF Laid, Top
    <3>4. QED
      BY <2>1, <2>2, <3>1, <3>2, <3>3 DEF BlocksInv
  <2>3. QED
    BY <1>1, <2>2, <2>1 DEF BlocksInv
<1>3. CASE Next
  BY <1>3, ClearBlocks, BeginBlocks, DescriptorBlocks, AttributeBlocks, VertexBlocks, CornerBlocks, TileBegins,
     PixelsFound, PixelBlocksTaken, PixelsShaded, MergeBlocks, TileEnds, EndBlocks DEF Next
<1>4. QED
  BY <1>2, <1>3

(***************************************************************************)
(* No stage writes outside the block it was given, whichever interfaces,   *)
(* tiles and subgroups a call has: as long as the pixels found in a tile   *)
(* fit the room for them, which nothing in the code checks.                *)
(***************************************************************************)
THEOREM BlocksStayApart == Spec /\ []TileFits => []BlocksApart
<1>1. Init => BlocksInv
  BY InitBlocks
<1>2. ScopesOpen /\ BlocksInv /\ TileFits /\ TileFits' /\ [Next]_vars => BlocksInv'
  BY NextBlocks
<1>3. BlocksInv => BlocksApart
  BY InvIsApart
<1> QED
  BY <1>1, <1>2, <1>3, ScopesNest, PTL DEF Spec

-----------------------------------------------------------------------------
(* Sequences and slots.                                                    *)

(* The numbers of a set that are less than another. *)
Below(S, x) == {y \in S : y < x}

(* A finite set of numbers has one number of each rank. *)
LEMMA RanksAre ==
  ASSUME NEW S, S \subseteq Nat, IsFiniteSet(S)
  PROVE  /\ Cardinality(S) \in Nat
         /\ \A j \in 1 .. Cardinality(S) : Nth(S, j) \in S
         /\ \A x \in S : \E j \in 1 .. Cardinality(S) : Nth(S, j) = x
<1> DEFINE n == Cardinality(S)
           rank == [x \in S |-> Cardinality(Below(S, x)) + 1]
<1>1. n \in Nat
  BY FS_CardinalityType
<1>2. ASSUME NEW x \in S
      PROVE  Cardinality(Below(S, x)) \in Nat /\ Cardinality(Below(S, x)) < n
  <2>1. Below(S, x) \subseteq S \ {x} /\ IsFiniteSet(S \ {x}) /\ Cardinality(S \ {x}) = n - 1
    <3>1. x \in Nat /\ ~(x < x)
      OBVIOUS
    <3>2. Below(S, x) \subseteq S \ {x}
      BY <3>1 DEF Below
    <3>3. QED
      BY <3>2, FS_RemoveElement
  <2>2. Cardinality(Below(S, x)) \in Nat /\ Cardinality(Below(S, x)) <= n - 1
    BY <2>1, FS_Subset, FS_CardinalityType
  <2>3. QED
    BY <1>1, <2>2
<1>3. ASSUME NEW x \in S, NEW y \in S, x < y
      PROVE  Cardinality(Below(S, x)) < Cardinality(Below(S, y))
  <2>1. x \in Nat /\ y \in Nat /\ Below(S, x) \subseteq Below(S, y) /\ x \in Below(S, y) /\ x \notin Below(S, x)
    <3>1. x \in Nat /\ y \in Nat
      OBVIOUS
    <3>2. \A z \in S : z < x => z < y
      BY <1>3, <3>1
    <3>3. ~(x < x)
      BY <3>1
    <3>4. QED
      BY <1>3, <3>1, <3>2, <3>3 DEF Below
  <2>2. IsFiniteSet(Below(S, y))
    <3>1. Below(S, y) \subseteq S
      BY DEF Below
    <3>2. QED
      BY <3>1, FS_Subset
  <2>3. /\ IsFiniteSet(Below(S, y) \ {x})
        /\ Cardinality(Below(S, y) \ {x}) = Cardinality(Below(S, y)) - 1
    BY <2>1, <2>2, FS_RemoveElement
  <2>4. Below(S, x) \subseteq Below(S, y) \ {x}
    BY <2>1
  <2>5. Cardinality(Below(S, x)) <= Cardinality(Below(S, y)) - 1
    BY <2>3, <2>4, FS_Subset
  <2>6. QED
    BY <1>2, <2>5
<1>4. rank \in Injection(S, 1 .. n)
  <2>1. ASSUME NEW x \in S PROVE rank[x] \in 1 .. n
    <3>1. rank[x] = Cardinality(Below(S, x)) + 1
      OBVIOUS
    <3>2. QED
      BY <1>1, <1>2, <3>1
  <2>2. ASSUME NEW x \in S, NEW y \in S, x # y PROVE rank[x] # rank[y]
    <3>1. x \in Nat /\ y \in Nat
      OBVIOUS
    <3>2. x < y \/ y < x
      BY <2>2, <3>1
    <3>3. Cardinality(Below(S, x)) # Cardinality(Below(S, y))
      BY <1>2, <1>3, <3>2
    <3>4. QED
      BY <1>2, <3>3
  <2>3. rank \in [S -> 1 .. n]
    BY <2>1
  <2> HIDE DEF rank
  <2>4. QED
    BY <2>2, <2>3 DEF Injection, IsInjective
<1>5. rank \in Surjection(S, 1 .. n)
  <2>1. IsFiniteSet(1 .. n) /\ Cardinality(1 .. n) = n
    <3>1. 1 \in Int /\ n \in Int
      BY <1>1
    <3>2. IsFiniteSet(1 .. n) /\ Cardinality(1 .. n) = IF 1 > n THEN 0 ELSE n - 1 + 1
      BY <3>1, FS_Interval
    <3>3. QED
      BY <1>1, <3>2
  <2> HIDE DEF rank
  <2>2. QED
    BY <1>4, <2>1, FS_Injection
<1>6. ASSUME NEW j \in 1 .. n, NEW x \in S, rank[x] = j
      PROVE  Nth(S, j) = x
  <2>1. \A y \in S : Cardinality(Below(S, y)) = j - 1 <=> y = x
    <3>1. TAKE y \in S
    <3>2. rank[y] = Cardinality(Below(S, y)) + 1 /\ rank[x] = Cardinality(Below(S, x)) + 1
      OBVIOUS
    <3>3. Cardinality(Below(S, x)) = j - 1
      BY <1>1, <1>2, <1>6, <3>2
    <3>4. y # x => Cardinality(Below(S, y)) # Cardinality(Below(S, x))
      <4>1. HAVE y # x
      <4>2. y < x \/ x < y
        BY <4>1
      <4>3. QED
        BY <1>2, <1>3, <4>2
    <3>5. QED
      BY <3>3, <3>4
  <2>2. x = CHOOSE y \in S : Cardinality(Below(S, y)) = j - 1
    BY <2>1
  <2>3. QED
    BY <2>2 DEF Nth, Below
<1>7. ASSUME NEW j \in 1 .. n PROVE Nth(S, j) \in S
  <2>1. \E x \in S : rank[x] = j
    <3> HIDE DEF rank
    <3>1. QED
      BY <1>5 DEF Surjection
  <2>2. QED
    BY <1>6, <2>1
<1>8. ASSUME NEW x \in S PROVE \E j \in 1 .. n : Nth(S, j) = x
  <2>1. rank[x] \in 1 .. n
    <3> HIDE DEF rank
    <3>1. QED
      BY <1>4 DEF Injection
  <2>2. QED
    BY <1>6, <2>1
<1>9. QED
  BY <1>1, <1>7, <1>8

(* A location's format is one of a variable that has it. *)
LEMMA FormatsAre ==
  ASSUME NEW v \in InterfaceVariables, NEW loc \in Locations(v)
  PROVE  AtLocation(v, loc).format \in Formats
<1> DEFINE V == [location : Nat, format : Formats]
           at == {i \in DOMAIN v : v[i].location = loc}
<1>1. \A x \in V : x.format \in Formats
  OBVIOUS
<1>2. v \in Seq(V)
  BY DEF InterfaceVariables
<1> HIDE DEF V
<1>3. DOMAIN v = 1 .. Len(v) /\ Len(v) \in Nat /\ \A i \in DOMAIN v : v[i] \in V
  BY <1>2
<1>4. at # {}
  BY DEF Locations
<1>5. at \subseteq 1 .. Len(v) /\ IsFiniteSet(1 .. Len(v)) /\ at \subseteq Nat
  BY <1>3, FS_Interval
<1>6. IsFiniteSet(at)
  BY <1>5, FS_Subset
<1> HIDE DEF at
<1>7. Max(at) \in at
  BY <1>4, <1>5, <1>6, MaxIs
<1>8. v[Max(at)] \in V
  BY <1>3, <1>5, <1>7
<1>9. QED
  BY <1>1, <1>8 DEF AtLocation, at

(* There is a slot for each location of an interface and no other, with    *)
(* the location's offset and format.                                       *)
LEMMA SlotsAre ==
  ASSUME NEW v \in InterfaceVariables
  PROVE  /\ \E m \in Nat : DOMAIN Slots(v) = 1 .. m
         /\ \A i \in DOMAIN Slots(v) :
              /\ Slots(v)[i].location \in Locations(v)
              /\ Slots(v)[i].offset = Offset(v, Slots(v)[i].location)
              /\ Slots(v)[i].format \in Formats
         /\ \A loc \in Locations(v) : \E i \in DOMAIN Slots(v) : Slots(v)[i].location = loc
<1> DEFINE L == Locations(v)
<1>1. L \subseteq Nat /\ IsFiniteSet(L)
  BY LocationsAre
<1> HIDE DEF L
<1>2. /\ Cardinality(L) \in Nat
      /\ \A j \in 1 .. Cardinality(L) : Nth(L, j) \in L
      /\ \A x \in L : \E j \in 1 .. Cardinality(L) : Nth(L, j) = x
  BY <1>1, RanksAre
<1>3. Slots(v) = [i \in 1 .. Cardinality(L) |->
                    [location |-> Nth(L, i), offset |-> Offset(v, Nth(L, i)),
                     format |-> AtLocation(v, Nth(L, i)).format]]
  BY DEF Slots, L
<1>4. \A i \in 1 .. Cardinality(L) :
        /\ Slots(v)[i].location = Nth(L, i)
        /\ Slots(v)[i].offset = Offset(v, Nth(L, i))
        /\ Slots(v)[i].format = AtLocation(v, Nth(L, i)).format
  BY <1>3
<1>5. DOMAIN Slots(v) = 1 .. Cardinality(L)
  BY <1>3
<1>6. \A i \in DOMAIN Slots(v) :
        /\ Slots(v)[i].location \in Locations(v)
        /\ Slots(v)[i].offset = Offset(v, Slots(v)[i].location)
        /\ Slots(v)[i].format \in Formats
  <2>1. TAKE i \in DOMAIN Slots(v)
  <2>2. Nth(L, i) \in Locations(v)
    BY <1>2, <1>5 DEF L
  <2>3. QED
    BY <1>4, <1>5, <2>2, FormatsAre
<1>7. \A loc \in Locations(v) : \E i \in DOMAIN Slots(v) : Slots(v)[i].location = loc
  BY <1>2, <1>4, <1>5 DEF L
<1>8. QED
  BY <1>2, <1>5, <1>6, <1>7

(* What setup_pixel_input finds for a location, if its format is one.      *)
LEMMA MatchingSlotIs ==
  ASSUME NEW v \in InterfaceVariables, NEW loc, MatchingSlot(Slots(v), loc).format \in Formats
  PROVE  loc \in Locations(v) /\ MatchingSlot(Slots(v), loc).offset = Offset(v, loc)
<1> DEFINE s == Slots(v)
           match == {i \in DOMAIN s : s[i].location = loc}
<1>1. match # {}
  <2>1. NoSlot.format \notin Formats
    BY DEF NoSlot, Formats
  <2>2. match = {} => MatchingSlot(s, loc) = NoSlot
    BY DEF MatchingSlot
  <2>3. QED
    BY <2>1, <2>2
<1>2. PICK m \in Nat : DOMAIN s = 1 .. m
  BY SlotsAre
<1>3. match \subseteq 1 .. m /\ match \subseteq Nat /\ IsFiniteSet(1 .. m)
  BY <1>2, FS_Interval
<1>4. IsFiniteSet(match)
  BY <1>3, FS_Subset
<1> HIDE DEF match
<1>5. Max(match) \in match
  BY <1>1, <1>3, <1>4, MaxIs
<1>6. MatchingSlot(s, loc) = s[Max(match)]
  BY <1>1 DEF MatchingSlot, match
<1>7. Max(match) \in DOMAIN s /\ s[Max(match)].location = loc
  BY <1>5 DEF match
<1>8. QED
  BY <1>6, <1>7, SlotsAre

(* Where a place of a buffer lies. *)
LEMMA PlacesAre ==
  ASSUME NEW w \in Nat, NEW o \in 0 .. w - 1, NEW n \in Nat, NEW k \in 0 .. n - 1
  PROVE  /\ (k * (4 * w) + 4 * o) \div 4 \in 0 .. (n * (4 * w)) \div 4 - 1
         /\ ((k * (4 * w) + 4 * o) \div 4) \div w = k
         /\ ((k * (4 * w) + 4 * o) \div 4) % w = o
<1> DEFINE p == k * w
           q == n * w
<1>1. p \in Nat /\ q \in Nat /\ k * (4 * w) = 4 * p /\ n * (4 * w) = 4 * q
  OBVIOUS
<1>2. p + w <= q
  <2>1. k + 1 <= n /\ (k + 1) * w = p + w /\ k + 1 \in Nat
    OBVIOUS
  <2>2. \A a, b \in Nat : a <= b => a * w <= b * w
    OBVIOUS
  <2>3. (k + 1) * w <= n * w
    BY <2>1, <2>2
  <2>4. QED
    BY <2>1, <2>3
<1>3. (p + o) \div w = k /\ (p + o) % w = o
  <2>1. \A d \in Nat \ {0}, e, r \in Nat : r < d => (e * d + r) \div d = e /\ (e * d + r) % d = r
    OBVIOUS
  <2>2. QED
    BY <2>1
<1> HIDE DEF p, q
<1>4. (4 * p + 4 * o) \div 4 = p + o /\ (4 * q) \div 4 = q
  BY <1>1
<1>5. p + o \in 0 .. q - 1
  BY <1>1, <1>2
<1>6. QED
  BY <1>1, <1>3, <1>4, <1>5

(* The place a lane fetches from is one that was filled for its unit and   *)
(* the slot of the location.                                               *)
LEMMA PlaceOf ==
  ASSUME NEW v \in InterfaceVariables, NEW loc \in Locations(v), NEW n \in Nat, NEW k \in 0 .. n - 1,
         NEW a, a = (k * Stride(v) + Offset(v, loc)) \div SlotAlign
  PROVE  /\ a \in 0 .. (n * Stride(v)) \div SlotAlign - 1
         /\ a \div (Stride(v) \div SlotAlign) = k
         /\ SlotsAt(Slots(v), Stride(v), a) # {}
         /\ SlotAt(Slots(v), Stride(v), a) \in DOMAIN Slots(v)
         /\ Slots(v)[SlotAt(Slots(v), Stride(v), a)].location = loc
<1> DEFINE s == Stride(v)
           off == Offset(v, loc)
           w == s \div 4
           o == off \div 4
           found == SlotAt(Slots(v), s, a)
<1>1. s \in Nat /\ s % 4 = 0 /\ off \in Nat /\ off % 4 = 0 /\ off < s
  BY LayoutIs DEF SlotAlign
<1> HIDE DEF s, off
<1>2. w \in Nat /\ s = 4 * w /\ o \in Nat /\ off = 4 * o /\ o < w
  BY <1>1
<1> HIDE DEF w, o
<1>3. o \in 0 .. w - 1
  BY <1>2
<1>4. a = (k * (4 * w) + 4 * o) \div 4
  BY <1>2 DEF SlotAlign, s, off
<1>5. a \in 0 .. (n * (4 * w)) \div 4 - 1 /\ a \div w = k /\ a % w = o
  <2> DEFINE place == (k * (4 * w) + 4 * o) \div 4
             end == (n * (4 * w)) \div 4
  <2>1. place \in 0 .. end - 1 /\ place \div w = k /\ place % w = o
    BY <1>2, <1>3, PlacesAre
  <2>2. a = place
    BY <1>4
  <2> HIDE DEF place, end
  <2>3. a \in 0 .. end - 1 /\ a \div w = k /\ a % w = o
    BY <2>1, <2>2
  <2>4. QED
    BY <2>3 DEF end
<1>6. SlotsAt(Slots(v), s, a) = {j \in DOMAIN Slots(v) : Slots(v)[j].offset = off}
  <2>1. s \div SlotAlign = w /\ SlotAlign * (a % w) = off
    BY <1>2, <1>5 DEF SlotAlign, w
  <2>2. QED
    BY <2>1 DEF SlotsAt
<1>7. SlotsAt(Slots(v), s, a) # {}
  BY <1>6, SlotsAre DEF off
<1>8. found \in SlotsAt(Slots(v), s, a)
  BY <1>7 DEF SlotAt
<1> HIDE DEF found
<1>9. found \in DOMAIN Slots(v) /\ Offset(v, Slots(v)[found].location) = off
  BY <1>6, <1>8, SlotsAre
<1>10. Slots(v)[found].location = loc
  <2> DEFINE l == Slots(v)[found].location
  <2>1. l \in Locations(v) /\ l \in Nat /\ loc \in Nat
    BY <1>9, SlotsAre, LocationsAre
  <2>2. Offset(v, l) = Offset(v, loc) /\ Offset(v, loc) \in Nat
    BY <1>1, <1>9 DEF off
  <2>3. ~(l < loc) /\ ~(loc < l)
    <3>1. l < loc => Offset(v, l) < Offset(v, loc)
      BY <2>1, LayoutIs
    <3>2. loc < l => Offset(v, loc) < Offset(v, l)
      BY <2>1, LayoutIs
    <3>3. QED
      BY <2>2, <3>1, <3>2
  <2>4. QED
    BY <2>1, <2>3
<1>11. QED
  BY <1>2, <1>5, <1>7, <1>9, <1>10 DEF s, found, w, SlotAlign

(* A table over 1 .. m is a sequence of m elements. *)
LEMMA TableIsSequence ==
  ASSUME NEW m \in Nat, NEW S, NEW f \in [1 .. m -> S]
  PROVE  f \in Seq(S) /\ Len(f) = m /\ DOMAIN f = 1 .. m
OBVIOUS

(* What is kept of a sequence is one, of elements it had before.           *)
LEMMA KeptIs ==
  ASSUME NEW m \in Nat, NEW at \in SUBSET (1 .. m), NEW S, NEW s, \A i \in at : s[i] \in S
  PROVE  Kept(s, at) \in Seq(S)
<1>1. IsFiniteSet(1 .. m) /\ at \subseteq Nat
  BY FS_Interval
<1>2. IsFiniteSet(at)
  BY <1>1, FS_Subset
<1> DEFINE n == Cardinality(at)
<1>3. n \in Nat /\ \A j \in 1 .. n : Nth(at, j) \in at
  BY <1>1, <1>2, RanksAre
<1> HIDE DEF n
<1>4. Kept(s, at) = [j \in 1 .. n |-> s[Nth(at, j)]]
  BY DEF Kept, n
<1>5. Kept(s, at) \in [1 .. n -> S]
  BY <1>3, <1>4
<1>6. QED
  BY <1>3, <1>5, TableIsSequence

(* The least and the largest of three numbers. *)
LEMMA OfThree ==
  ASSUME NEW a \in Int, NEW b \in Int, NEW c \in Int
  PROVE  Min({a, b, c}) \in Int /\ Max({a, b, c}) \in Int
<1> DEFINE S == {a, b, c}
<1>1. \E x \in S : \A y \in S : x <= y
  BY SMT
<1>2. \E x \in S : \A y \in S : x >= y
  BY SMT
<1> HIDE DEF S
<1>3. Min(S) \in S /\ Max(S) \in S
  BY <1>1, <1>2 DEF Min, Max
<1>4. QED
  BY <1>3 DEF S

(* The small tiles of a bound are numbered. *)
LEMMA BoundsAre ==
  ASSUME NEW z \in Int
  PROVE  FirstTile(z) \in Int /\ EndTile(z) \in Int
<1>1. Small \in Nat \ {0} /\ Tile \in Nat
  BY TileAssumption
<1>2. Clamp(z, 0, 2 * Tile) \in Int
  BY <1>1 DEF Clamp
<1> DEFINE h == (Clamp(z, 0, 2 * Tile) + 1) \div 2
<1>3. h \in Int
  BY <1>2
<1> HIDE DEF h
<1>4. h \div Small \in Int /\ (h + Small - 1) \div Small \in Int
  BY <1>1, <1>3
<1>5. QED
  BY <1>4 DEF FirstTile, EndTile, h

(* The small tiles of a triangle are a sequence, each with a sequence of   *)
(* pixels.                                                                 *)
LEMMA ClassifiedIs ==
  ASSUME NEW v, NEW n, \A i \in 1 .. 3 : v[i].x \in Int /\ v[i].y \in Int
  PROVE  \E S : Classified(v, n) \in Seq(S) /\ \A t \in S : Len(t.mask) \in Nat
<1> DEFINE x0 == FirstTile(Min({v[1].x, v[2].x, v[3].x}))
           x1 == EndTile(Max({v[1].x, v[2].x, v[3].x}))
           y0 == FirstTile(Min({v[1].y, v[2].y, v[3].y}))
           y1 == EndTile(Max({v[1].y, v[2].y, v[3].y}))
           width == x1 - x0
           inside(x, y, s) == \A i \in 1 .. 3 : Edge(v[i], n[i], x * Small + s.x, y * Small + s.y) >= 0
           mask(x, y) == Kept(SubPixels, {i \in DOMAIN SubPixels : inside(x, y, SubPixels[i])})
           classify(x, y) ==
             [x |-> x, y |-> y, e |-> [i \in 1 .. 3 |-> Edge(v[i], n[i], x * Small, y * Small)],
              mask |-> mask(x, y)]
           count == width * (y1 - y0)
           all == IF width > 0 /\ y1 > y0
                  THEN [i \in 1 .. count |->
                          classify(x0 + ((i - 1) % width), y0 + ((i - 1) \div width))]
                  ELSE <<>>
<1>1. Classified(v, n) = Kept(all, {i \in DOMAIN all : all[i].mask # <<>>})
  BY DEF Classified
<1>2. count \in Int
  <2>1. /\ v[1].x \in Int /\ v[2].x \in Int /\ v[3].x \in Int
        /\ v[1].y \in Int /\ v[2].y \in Int /\ v[3].y \in Int
    OBVIOUS
  <2>2. /\ Min({v[1].x, v[2].x, v[3].x}) \in Int /\ Max({v[1].x, v[2].x, v[3].x}) \in Int
        /\ Min({v[1].y, v[2].y, v[3].y}) \in Int /\ Max({v[1].y, v[2].y, v[3].y}) \in Int
    BY <2>1, OfThree
  <2>3. x0 \in Int /\ x1 \in Int /\ y0 \in Int /\ y1 \in Int
    BY <2>2, BoundsAre
  <2> HIDE DEF x0, x1, y0, y1
  <2>4. QED
    BY <2>3
<1>3. \A x, y : Len(mask(x, y)) \in Nat
  <2>1. TAKE x, y
  <2>2. Small * Small \in Nat /\ DOMAIN SubPixels = 1 .. Small * Small
    BY TileAssumption DEF SubPixels
  <2> DEFINE at == {i \in DOMAIN SubPixels : inside(x, y, SubPixels[i])}
             S == {SubPixels[i] : i \in at}
  <2>3. at \in SUBSET (1 .. Small * Small) /\ \A i \in at : SubPixels[i] \in S
    BY <2>2
  <2> HIDE DEF at, S
  <2>4. Kept(SubPixels, at) \in Seq(S)
    BY <2>2, <2>3, KeptIs
  <2>5. QED
    BY <2>4 DEF at
<1>4. \E m \in Nat : DOMAIN all = 1 .. m /\ \A i \in 1 .. m : Len(all[i].mask) \in Nat
  <2> HIDE DEF mask
  <2>1. CASE width > 0 /\ y1 > y0
    <3>1. all = [i \in 1 .. count |->
                   classify(x0 + ((i - 1) % width), y0 + ((i - 1) \div width))]
      BY <2>1
    <3> HIDE DEF x0, y0, width, count, all
    <3>2. DOMAIN all = 1 .. count /\ \A i \in 1 .. count : Len(all[i].mask) \in Nat
      BY <1>3, <3>1
    <3>3. \E m \in Nat : 1 .. count = 1 .. m
      <4>1. CASE count \in Nat
        BY <4>1
      <4>2. CASE count \notin Nat
        <5>1. 1 .. count = 1 .. 0
          BY <1>2, <4>2
        <5>2. QED
          BY <5>1
      <4>3. QED
        BY <4>1, <4>2
    <3>4. QED
      BY <3>2, <3>3
  <2>2. CASE ~(width > 0 /\ y1 > y0)
    <3>1. all = <<>>
      BY <2>2
    <3> HIDE DEF all
    <3>2. DOMAIN all = 1 .. 0
      <4>1. DOMAIN <<>> = 1 .. 0
        OBVIOUS
      <4>2. QED
        BY <3>1, <4>1, Zenon
    <3>3. \A i \in 1 .. 0 : FALSE
      OBVIOUS
    <3>4. QED
      BY <3>2, <3>3
  <2>3. QED
    BY <2>1, <2>2
<1> HIDE DEF all
<1>5. PICK m \in Nat : DOMAIN all = 1 .. m /\ \A i \in 1 .. m : Len(all[i].mask) \in Nat
  BY <1>4
<1> DEFINE at == {i \in DOMAIN all : all[i].mask # <<>>}
           S == {all[i] : i \in at}
<1>6. at \in SUBSET (1 .. m) /\ \A i \in at : all[i] \in S
  BY <1>5
<1>7. \A t \in S : Len(t.mask) \in Nat
  BY <1>5
<1>8. Classified(v, n) = Kept(all, at)
  BY <1>1
<1> HIDE DEF at, S
<1>9. Kept(all, at) \in Seq(S)
  BY <1>6, KeptIs
<1>10. QED
  BY <1>7, <1>8, <1>9

(* What FlattenSeq adds up. *)
IsJoined(ss, m, f) == f = [i \in 1 .. m |-> IF i = 1 THEN ss[i] ELSE f[i - 1] \o ss[i]]

(* There is such a table of any length. *)
LEMMA JoinedExists ==
  ASSUME NEW ss, NEW m \in Nat
  PROVE  \E f : IsJoined(ss, m, f)
<1> DEFINE T == {k \in Nat : ~\E f : IsJoined(ss, k, f)}
<1>1. SUFFICES ASSUME T # {} PROVE FALSE
  OBVIOUS
<1>2. PICK k \in T : \A l \in T : k <= l
  <2>1. T \subseteq Nat
    OBVIOUS
  <2> HIDE DEF T
  <2>2. QED
    BY <1>1, <2>1, Walks!LeastNat
<1>3. k \in Nat /\ ~\E f : IsJoined(ss, k, f)
  OBVIOUS
<1>4. k # 0
  <2> DEFINE f == [i \in 1 .. 0 |-> 0]
  <2>1. IsJoined(ss, 0, f)
    BY DEF IsJoined
  <2>2. QED
    BY <1>3, <2>1
<1>5. k - 1 \in Nat /\ k - 1 \notin T
  BY <1>2, <1>3, <1>4
<1>6. PICK f : IsJoined(ss, k - 1, f)
  BY <1>5
<1> DEFINE g == [i \in 1 .. k |-> IF i = 1 THEN ss[i] ELSE f[i - 1] \o ss[i]]
<1>7. \A i \in 1 .. k - 1 : f[i] = g[i]
  <2>1. \A i \in 1 .. k - 1 : f[i] = IF i = 1 THEN ss[i] ELSE f[i - 1] \o ss[i]
    <3> HIDE DEF g
    <3>1. QED
      BY <1>6 DEF IsJoined
  <2>2. \A i \in 1 .. k : g[i] = IF i = 1 THEN ss[i] ELSE f[i - 1] \o ss[i]
    OBVIOUS
  <2>3. \A i \in 1 .. k - 1 : i \in 1 .. k
    BY <1>3
  <2> HIDE DEF g
  <2>4. QED
    BY <2>1, <2>2, <2>3
<1>8. \A i \in 1 .. k : i # 1 => i - 1 \in 1 .. k - 1
  BY <1>3
<1>9. g = [i \in 1 .. k |-> IF i = 1 THEN ss[i] ELSE g[i - 1] \o ss[i]]
  <2>1. \A i \in 1 .. k : i # 1 => f[i - 1] = g[i - 1]
    BY <1>7, <1>8
  <2> HIDE <1>6, <1>7
  <2>2. QED
    BY <2>1
<1> HIDE DEF g
<1>10. QED
  BY <1>3, <1>9 DEF IsJoined

(* Sequences over a set joined make a sequence over it. *)
LEMMA FlattenIs ==
  ASSUME NEW S, NEW ss \in Seq(Seq(S))
  PROVE  FlattenSeq(ss) \in Seq(S)
<1>1. CASE Len(ss) = 0
  <2>1. ss = << >>
    BY <1>1
  <2>2. QED
    BY <1>1, <2>1 DEF FlattenSeq
<1>2. CASE Len(ss) # 0
  <2> DEFINE m == Len(ss)
  <2>1. m \in Nat \ {0} /\ \A i \in 1 .. m : ss[i] \in Seq(S)
    BY <1>2
  <2> DEFINE f == CHOOSE g : IsJoined(ss, m, g)
  <2>2. FlattenSeq(ss) = f[m]
    BY <1>2 DEF FlattenSeq, IsJoined
  <2> HIDE DEF m
  <2>3. IsJoined(ss, m, f)
    BY <2>1, JoinedExists
  <2> HIDE DEF f
  <2>4. \A i \in 1 .. m : f[i] = IF i = 1 THEN ss[i] ELSE f[i - 1] \o ss[i]
    BY <2>3 DEF IsJoined
  <2> DEFINE T == {i \in Nat : i \in 1 .. m /\ f[i] \notin Seq(S)}
  <2>5. T = {}
    <3>1. SUFFICES ASSUME T # {} PROVE FALSE
      OBVIOUS
    <3>2. PICK k \in T : \A l \in T : k <= l
      <4>1. T \subseteq Nat
        OBVIOUS
      <4> HIDE DEF T
      <4>2. QED
        BY <3>1, <4>1, Walks!LeastNat
    <3>3. k \in 1 .. m /\ f[k] \notin Seq(S) /\ k \in Nat
      OBVIOUS
    <3>4. CASE k = 1
      BY <2>1, <2>4, <3>3, <3>4
    <3>5. CASE k # 1
      <4>1. k - 1 \in 1 .. m /\ k - 1 \in Nat /\ k - 1 \notin T
        BY <2>1, <3>2, <3>3, <3>5
      <4>2. f[k - 1] \in Seq(S) /\ ss[k] \in Seq(S)
        BY <2>1, <3>3, <4>1
      <4>3. f[k - 1] \o ss[k] \in Seq(S)
        BY <4>2
      <4>4. QED
        BY <2>4, <3>3, <3>5, <4>3
    <3>6. QED
      BY <3>4, <3>5
  <2>6. m \in 1 .. m /\ m \in Nat
    BY <2>1
  <2>7. QED
    BY <2>2, <2>5, <2>6
<1>3. QED
  BY <1>1, <1>2

(* A sequence of pixel invocations of triangles of a set. *)
OfTriangles(s, ids) == \E S : s \in Seq(S) /\ \A info \in S : info.triangle_id \in ids

(* The pixels found for a triangle are pixels of it.                       *)
LEMMA InvocationsAre ==
  ASSUME NEW k, NEW v, NEW x, NEW y, \A i \in 1 .. 3 : v[i].x \in Int /\ v[i].y \in Int
  PROVE  OfTriangles(Invocations(k, v, x, y), {k})
<1> DEFINE n == <<Normal(v[1], v[2]), Normal(v[2], v[3]), Normal(v[3], v[1])>>
           swapped == Area(v) > 0
           invocation(t, s) ==
             [triangle_id |-> k,
              b |-> Barycentrics(v, EdgeWeights(n, swapped, t, s)),
              x |-> x * Tile + t.x * Small + s.x,
              y |-> y * Tile + t.y * Small + s.y,
              is_front_face |-> ~swapped]
           ofTile(t) == [j \in 1 .. Len(t.mask) |-> invocation(t, t.mask[j])]
           tiles == TilesOf(v, n, swapped)
           found == [i \in 1 .. Len(tiles) |-> ofTile(tiles[i])]
<1>1. Invocations(k, v, x, y) = FlattenSeq(found)
  BY DEF Invocations
<1>2. PICK D : tiles \in Seq(D) /\ \A t \in D : Len(t.mask) \in Nat
  <2> HIDE DEF n, swapped
  <2> DEFINE u == <<v[3], v[2], v[1]>>
  <2>1. \A i \in 1 .. 3 : u[i].x \in Int /\ u[i].y \in Int
    <3>1. u[1] = v[3] /\ u[2] = v[2] /\ u[3] = v[1]
      OBVIOUS
    <3> HIDE DEF u
    <3>2. QED
      BY <3>1
  <2> HIDE DEF u
  <2>2. \A m : \E E : Classified(u, m) \in Seq(E) /\ \A t \in E : Len(t.mask) \in Nat
    BY <2>1, ClassifiedIs
  <2>3. \A m : \E E : Classified(v, m) \in Seq(E) /\ \A t \in E : Len(t.mask) \in Nat
    BY ClassifiedIs
  <2>4. QED
    BY <2>2, <2>3 DEF TilesOf, u
<1> DEFINE S == {invocation(t, t.mask[j]) : t \in D, j \in Nat}
<1>3. \A info \in S : info.triangle_id = k
  OBVIOUS
<1>4. \A t \in D : ofTile(t) \in Seq(S)
  <2> HIDE DEF tiles, n, swapped
  <2>1. TAKE t \in D
  <2>2. Len(t.mask) \in Nat
    BY <1>2
  <2>3. \A j \in 1 .. Len(t.mask) : invocation(t, t.mask[j]) \in S
    OBVIOUS
  <2> HIDE DEF S, invocation
  <2>4. ofTile(t) \in [1 .. Len(t.mask) -> S]
    BY <2>3
  <2> HIDE DEF ofTile
  <2>5. QED
    BY <2>2, <2>4, TableIsSequence
<1> HIDE DEF S, ofTile, tiles
<1>5. Len(tiles) \in Nat /\ \A i \in 1 .. Len(tiles) : tiles[i] \in D
  BY <1>2
<1>6. found \in [1 .. Len(tiles) -> Seq(S)]
  BY <1>4, <1>5
<1> HIDE DEF found
<1>7. found \in Seq(Seq(S))
  BY <1>5, <1>6, TableIsSequence
<1>8. FlattenSeq(found) \in Seq(S)
  BY <1>7, FlattenIs
<1>9. QED
  BY <1>1, <1>3, <1>8 DEF OfTriangles

(* What there is at the start of a call or a tile is no pixel. *)
LEMMA NoPixels == \A ids : OfTriangles(<<>>, ids)
<1>1. TAKE ids
<1>2. PICK E : E = {}
  OBVIOUS
<1>3. <<>> \in Seq(E) /\ \A info \in E : info.triangle_id \in ids
  BY <1>2
<1>4. QED
  BY <1>3 DEF OfTriangles

-----------------------------------------------------------------------------
(* What the stages hand on to each other.                                  *)

(* Each vertex of the call has its attributes in the buffer of attributes. *)
AttributesInPlace ==
  \A k \in 0 .. call.indexCount - 1 : \A loc \in Locations(call.vs_inputs) :
    Fetch(ia, InputStride, k, Offset(call.vs_inputs, loc)) = Attribute(k, loc)

(* Each vertex has its outputs in the buffer of outputs. *)
OutputsInPlace ==
  \A k \in 0 .. call.indexCount - 1 : \A loc \in Locations(call.vs_outputs) :
    VertexOutput(k, Offset(call.vs_outputs, loc)) = Vertex(k).attr[loc]

PositionsInPlace == \A k \in 0 .. call.indexCount - 1 : vs.positions[k] = Attribute(k, 0)

CornersAreNumbers ==
  \A k \in 0 .. call.indexCount - 1 : assembly[k] \in [x : Int, y : Int, z : Int, w : Nat \ {0}]

(***************************************************************************)
(* The inductive invariant: what each stage finds in the buffer of the     *)
(* stage before it, and that the pixels of a tile are of triangles of the  *)
(* call.                                                                   *)
(***************************************************************************)
StagesMatch ==
  /\ DOMAIN cur_tile = DOMAIN NoTile /\ cur_tile.x \in Int /\ cur_tile.y \in Int
  /\ pc # "idle" => call \in Calls
  /\ pc = "VS" => AttributesInPlace
  /\ pc = "PA" => PositionsInPlace
  /\ pc \in {"PA", "begin_tile"} \cup TileStages => OutputsInPlace
  /\ pc \in {"begin_tile"} \cup TileStages => CornersAreNumbers
  /\ pc = "begin_tile" => cur_tile.pinfos = <<>>
  /\ pc = "rasterize" => next \in Nat \ {0}
  /\ pc \in TileStages => OfTriangles(cur_tile.pinfos, 1 .. call.indexCount \div 3)

PixelsInv == pc # "trap" => StagesMatch /\ PixelInputsMatch

(* There is a unit for every vertex. *)
LEMMA UnitsSuffice ==
  ASSUME NEW n \in Nat
  PROVE  Units(n) \in Nat /\ n <= Units(n)
<1>1. SubgroupSize \in Nat \ {0}
  BY DrawAssumption
<1>2. Units(n) \in Nat
  BY SizesAre
<1> DEFINE g == SubgroupSize
           a == n + g - 1
           q == a \div g
<1>3. a \in Nat /\ g \in Nat \ {0}
  BY <1>1
<1>4. Units(n) = q * g
  BY DEF Units, Subgroups
<1> HIDE DEF a, g
<1>5. q \in Nat /\ a = g * q + (a % g) /\ a % g \in 0 .. g - 1
  BY <1>3
<1> HIDE DEF q
<1>6. g * q \in Nat /\ g * q = q * g
  BY <1>3, <1>5
<1>7. a - g + 1 <= g * q
  BY <1>3, <1>5, <1>6
<1>8. a - g + 1 = n
  BY <1>1 DEF a, g
<1>9. QED
  BY <1>2, <1>4, <1>6, <1>7, <1>8

(* Input assembly puts every attribute where the shader will look for it.  *)
LEMMA AttributesFilled ==
  ASSUME call \in Calls, IA_stage
  PROVE  AttributesInPlace'
<1> DEFINE n == call.indexCount
           v == call.vs_inputs
<1>1. n \in Nat /\ v \in InterfaceVariables /\ call' = call
  BY DrawAssumption DEF IA_stage
<1>2. Units(n) \in Nat /\ n <= Units(n)
  BY <1>1, UnitsSuffice
<1>3. ia' = [a \in 0 .. (Units(n) * Stride(v)) \div SlotAlign - 1 |->
               IF SlotsAt(Slots(v), Stride(v), a) = {} THEN Junk
               ELSE IF a \div (Stride(v) \div SlotAlign) < n
                 THEN Attribute(a \div (Stride(v) \div SlotAlign),
                                Slots(v)[SlotAt(Slots(v), Stride(v), a)].location)
                 ELSE Junk]
  BY DEF IA_stage, Buffer, InputSlots, InputStride
<1>4. SUFFICES ASSUME NEW k \in 0 .. n - 1, NEW loc \in Locations(v)
               PROVE  Fetch(ia', Stride(v), k, Offset(v, loc)) = Attribute(k, loc)
  BY <1>1 DEF AttributesInPlace, InputStride, Attribute, Vertex, Fetch
<1> DEFINE a == (k * Stride(v) + Offset(v, loc)) \div SlotAlign
<1>5. k \in 0 .. Units(n) - 1 /\ k < n
  BY <1>1, <1>2
<1>6. /\ a \in 0 .. (Units(n) * Stride(v)) \div SlotAlign - 1
      /\ a \div (Stride(v) \div SlotAlign) = k
      /\ SlotsAt(Slots(v), Stride(v), a) # {}
      /\ Slots(v)[SlotAt(Slots(v), Stride(v), a)].location = loc
  BY <1>1, <1>2, <1>5, PlaceOf
<1> HIDE DEF a
<1>7. ia'[a] = Attribute(k, loc)
  BY <1>3, <1>5, <1>6
<1>8. QED
  BY <1>7 DEF Fetch, a

(* A call has a position and what its vertex shader puts out. *)
LEMMA InputsAre ==
  ASSUME NEW c \in Calls
  PROVE  0 \in Locations(c.vs_inputs) /\ \A loc \in Locations(c.vs_outputs) : loc + 1 \in Locations(c.vs_inputs)
BY DrawAssumption

(* The vertex shader puts every output where it belongs. *)
LEMMA OutputsFilled ==
  ASSUME call \in Calls, AttributesInPlace, VS_stage
  PROVE  OutputsInPlace' /\ PositionsInPlace'
<1> DEFINE n == call.indexCount
           v == call.vs_outputs
           in(k, loc) == Fetch(ia, InputStride, k, Offset(call.vs_inputs, loc))
<1>1. n \in Nat /\ v \in InterfaceVariables /\ call' = call
  BY DrawAssumption DEF VS_stage
<1>2. Units(n) \in Nat /\ n <= Units(n)
  BY <1>1, UnitsSuffice
<1>3. /\ vs'.output = [a \in 0 .. (Units(n) * Stride(v)) \div SlotAlign - 1 |->
                         IF SlotsAt(Slots(v), Stride(v), a) = {} THEN Junk
                         ELSE in(a \div (Stride(v) \div SlotAlign),
                                 Slots(v)[SlotAt(Slots(v), Stride(v), a)].location + 1)]
      /\ vs'.positions = [k \in 0 .. Units(n) - 1 |-> in(k, 0)]
  BY DEF VS_stage, Buffer, OutputSlots, OutputStride
<1> HIDE DEF in
<1>4. ASSUME NEW k \in 0 .. n - 1
      PROVE  vs'.positions[k] = Attribute(k, 0)
  <2>1. k \in 0 .. Units(n) - 1
    BY <1>1, <1>2
  <2>2. vs'.positions[k] = in(k, 0)
    BY <1>3, <2>1
  <2>3. QED
    BY <2>2, InputsAre DEF in, AttributesInPlace
<1>5. ASSUME NEW k \in 0 .. n - 1, NEW loc \in Locations(v)
      PROVE  Fetch(vs'.output, Stride(v), k, Offset(v, loc)) = Vertex(k).attr[loc]
  <2> DEFINE a == (k * Stride(v) + Offset(v, loc)) \div SlotAlign
  <2>1. k \in 0 .. Units(n) - 1
    BY <1>1, <1>2
  <2>2. /\ a \in 0 .. (Units(n) * Stride(v)) \div SlotAlign - 1
        /\ a \div (Stride(v) \div SlotAlign) = k
        /\ SlotsAt(Slots(v), Stride(v), a) # {}
        /\ Slots(v)[SlotAt(Slots(v), Stride(v), a)].location = loc
    BY <1>1, <1>2, <2>1, PlaceOf
  <2> HIDE DEF a
  <2>3. vs'.output[a] = in(k, loc + 1)
    BY <1>3, <2>2
  <2>4. in(k, loc + 1) = Attribute(k, loc + 1)
    BY <1>5, InputsAre DEF in, AttributesInPlace
  <2>5. loc \in Nat
    BY <1>1, LocationsAre
  <2>6. loc + 1 # 0 /\ loc + 1 - 1 = loc
    BY <2>5
  <2>7. Attribute(k, loc + 1) = Vertex(k).attr[loc]
    <3>1. \A l : l # 0 => Attribute(k, l) = Vertex(k).attr[l - 1]
      BY DEF Attribute
    <3>2. PICK l : l = loc + 1
      OBVIOUS
    <3>3. l # 0 /\ l - 1 = loc
      BY <2>5, <3>2
    <3>4. Attribute(k, l) = Vertex(k).attr[l - 1]
      BY <3>1, <3>3
    <3>5. QED
      BY <3>2, <3>3, <3>4
  <2>8. QED
    BY <2>3, <2>4, <2>7 DEF Fetch, a
<1>6. PositionsInPlace'
  BY <1>1, <1>4 DEF PositionsInPlace, Attribute, Vertex
<1>7. OutputsInPlace'
  BY <1>1, <1>5 DEF OutputsInPlace, VertexOutput, OutputStride, Vertex
<1>8. QED
  BY <1>6, <1>7

(* The corners on the framebuffer. *)
LEMMA CornersFilled ==
  ASSUME call \in Calls, PositionsInPlace, PA_stage
  PROVE  CornersAreNumbers'
<1> DEFINE n == call.indexCount
<1>1. call' = call /\ assembly' = [k \in 0 .. n - 1 |-> Screenspace(vs.positions[k])]
  BY DEF PA_stage
<1>2. ASSUME NEW k \in 0 .. n - 1
      PROVE  assembly'[k] \in [x : Int, y : Int, z : Int, w : Nat \ {0}]
  <2>1. {Vertex(k).x, Vertex(k).y, Vertex(k).z} \subseteq Int /\ Vertex(k).w \in Nat \ {0}
    BY DrawAssumption DEF Vertex
  <2>2. PICK w \in Nat \ {0}, p \in Int, q \in Int, z \in Int :
          Attribute(k, 0) = [x |-> p, y |-> q, z |-> z, w |-> w]
    <3> DEFINE w == IF call.formats[0] = "f4" THEN Vertex(k).w ELSE 1
    <3>1. w \in Nat \ {0}
      BY <2>1
    <3>2. Attribute(k, 0) = [x |-> Vertex(k).x * w, y |-> Vertex(k).y * w, z |-> Vertex(k).z * w, w |-> w]
      BY DEF Attribute
    <3> HIDE DEF w
    <3>3. Vertex(k).x * w \in Int /\ Vertex(k).y * w \in Int /\ Vertex(k).z * w \in Int
      BY <2>1, <3>1
    <3>4. QED
      BY <3>1, <3>2, <3>3
  <2>3. assembly'[k] = Screenspace([x |-> p, y |-> q, z |-> z, w |-> w])
    BY <1>1, <2>2 DEF PositionsInPlace
  <2>4. p \div w \in Int /\ q \div w \in Int /\ z \div w \in Int
    OBVIOUS
  <2>5. QED
    BY <2>3, <2>4 DEF Screenspace
<1>3. QED
  BY <1>1, <1>2 DEF CornersAreNumbers

(* Corner c of triangle t is a vertex of the call, the one Order means.    *)
LEMMA CornerIs ==
  ASSUME call \in Calls, NEW t \in 1 .. call.indexCount \div 3, NEW c \in 0 .. 2
  PROVE  /\ 3 * (t - 1) + c \in 0 .. call.indexCount - 1
         /\ Order!Corner(call, t, c) = Vertex(3 * (t - 1) + c)
<1>1. call.indexCount \in Nat /\ call.firstIndex \in Nat
  BY DrawAssumption
<1>2. 3 * (t - 1) + c \in 0 .. call.indexCount - 1
  BY <1>1
<1>3. call.firstIndex + 3 * (t - 1) + c + 1 = call.firstIndex + (3 * (t - 1) + c) + 1
  BY <1>1
<1>4. QED
  BY <1>2, <1>3 DEF Order!Corner, Vertex, VertexOf

(* What the rasterizer finds for a triangle is of the call. *)
LEMMA PixelsAreOfCall ==
  ASSUME StagesMatch, rasterize_current_tile
  PROVE  StagesMatch' /\ PixelInputsMatch'
<1> DEFINE ids == 1 .. call.indexCount \div 3
<1>1. /\ pc = "rasterize" /\ pc' \in {"rasterize", "setup"}
      /\ call' = call /\ UNCHANGED geometry
  BY DEF rasterize_current_tile
<1>2. /\ call \in Calls /\ call.indexCount \in Nat /\ next \in Nat \ {0}
      /\ OutputsInPlace /\ CornersAreNumbers /\ OfTriangles(cur_tile.pinfos, ids)
      /\ DOMAIN cur_tile = DOMAIN NoTile /\ cur_tile.x \in Int /\ cur_tile.y \in Int
  BY <1>1, DrawAssumption DEF StagesMatch, TileStages
<1>3. CASE ~(next <= call.indexCount \div 3)
  <2>1. pc' = "setup" /\ cur_tile' = cur_tile
    BY <1>3 DEF rasterize_current_tile
  <2>2. OutputsInPlace' /\ CornersAreNumbers'
    BY <1>1, <1>2 DEF OutputsInPlace, CornersAreNumbers, VertexOutput, OutputStride, Vertex, geometry
  <2>3. QED
    BY <1>1, <1>2, <2>1, <2>2 DEF StagesMatch, TileStages, PixelInputsMatch
<1>4. CASE next <= call.indexCount \div 3
  <2> DEFINE v == <<TileCorner(next, 0), TileCorner(next, 1), TileCorner(next, 2)>>
             all == Invocations(next, v, cur_tile.x, cur_tile.y)
             found == IF Culled(call.cullMode, call.frontFace, Area(v)) THEN <<>> ELSE all
             count == Max({cur_tile.tiles, SmallTiles(found)})
  <2>1. /\ cur_tile' = [cur_tile EXCEPT !.pinfos = @ \o found, !.tiles = count]
        /\ next' = next + 1 /\ pc' = pc
    BY <1>4 DEF rasterize_current_tile
  <2>2. next \in ids
    BY <1>2, <1>4
  <2>3. \A i \in 1 .. 3 : v[i].x \in Int /\ v[i].y \in Int
    <3>1. ASSUME NEW c \in 0 .. 2 PROVE TileCorner(next, c).x \in Int /\ TileCorner(next, c).y \in Int
      <4>1. 3 * (next - 1) + c \in 0 .. call.indexCount - 1
        BY <1>2, <2>2, CornerIs
      <4> DEFINE u == assembly[3 * (next - 1) + c]
      <4>2. u \in [x : Int, y : Int, z : Int, w : Nat \ {0}]
        BY <1>2, <4>1 DEF CornersAreNumbers
      <4>3. u.x \in Int /\ u.y \in Int
        BY <4>2
      <4>4. u.x - 2 * Tile * cur_tile.x \in Int /\ u.y - 2 * Tile * cur_tile.y \in Int
        BY <1>2, <4>3, TileAssumption
      <4>5. TileCorner(next, c) =
              [u EXCEPT !.x = @ - 2 * Tile * cur_tile.x, !.y = @ - 2 * Tile * cur_tile.y]
        BY DEF TileCorner
      <4> HIDE DEF u
      <4>6. "x" \in DOMAIN u /\ "y" \in DOMAIN u
        BY <4>2
      <4>7. QED
        BY <4>4, <4>5, <4>6
    <3>2. v[1] = TileCorner(next, 0) /\ v[2] = TileCorner(next, 1) /\ v[3] = TileCorner(next, 2)
      OBVIOUS
    <3> HIDE DEF v
    <3>3. QED
      BY <3>1, <3>2
  <2> HIDE DEF v
  <2>4. OfTriangles(all, {next})
    BY <2>3, InvocationsAre
  <2> HIDE DEF all
  <2>5. OfTriangles(found, ids)
    <3>1. OfTriangles(<<>>, ids)
      BY NoPixels
    <3>2. OfTriangles(all, ids)
      BY <2>2, <2>4 DEF OfTriangles
    <3>3. QED
      BY <3>1, <3>2
  <2> HIDE DEF found, count
  <2>6. OfTriangles(cur_tile.pinfos \o found, ids)
    <3>1. PICK S : cur_tile.pinfos \in Seq(S) /\ \A info \in S : info.triangle_id \in ids
      BY <1>2 DEF OfTriangles
    <3>2. PICK T : found \in Seq(T) /\ \A info \in T : info.triangle_id \in ids
      BY <2>5 DEF OfTriangles
    <3>3. cur_tile.pinfos \in Seq(S \cup T) /\ found \in Seq(S \cup T)
      BY <3>1, <3>2
    <3>4. cur_tile.pinfos \o found \in Seq(S \cup T)
      BY <3>3
    <3>5. QED
      BY <3>1, <3>2, <3>4 DEF OfTriangles
  <2>7. /\ DOMAIN cur_tile' = DOMAIN NoTile /\ cur_tile'.x = cur_tile.x /\ cur_tile'.y = cur_tile.y
        /\ cur_tile'.pinfos = cur_tile.pinfos \o found
    BY <1>2, <2>1 DEF NoTile
  <2>8. OutputsInPlace' /\ CornersAreNumbers'
    BY <1>1, <1>2 DEF OutputsInPlace, CornersAreNumbers, VertexOutput, OutputStride, Vertex, geometry
  <2>9. next' \in Nat \ {0}
    BY <1>2, <2>1
  <2>10. QED
    BY <1>1, <1>2, <2>1, <2>6, <2>7, <2>8, <2>9 DEF StagesMatch, TileStages, PixelInputsMatch
<1>5. QED
  BY <1>3, <1>4

(* What PixelInputsMatch says of a tile. *)
InputsMatch(c, tile) ==
  \A i \in DOMAIN tile.pinfos, s \in DOMAIN c.ps_inputs, k \in 0 .. 2 :
    LET loc == c.ps_inputs[s].location IN
    Fetch(tile.input, Stride(c.ps_inputs), 3 * (i - 1) + k, Offset(c.ps_inputs, loc))
      = Order!Corner(c, tile.pinfos[i].triangle_id, k).attr[loc]

(* The set-up of the pixels puts every input where the pixel shader will   *)
(* look for it.                                                            *)
LEMMA InputsFilled ==
  ASSUME StagesMatch, setup_pixel_input_current_tile, pc' = "shade"
  PROVE  PixelInputsMatch'
<1> DEFINE n == Len(cur_tile.pinfos)
           N == Units(n)
           p == call.ps_inputs
           q == call.vs_outputs
           ids == 1 .. call.indexCount \div 3
           from(i) == MatchingSlot(Slots(q), Slots(p)[i].location)
           vertex(u) == 3 * (cur_tile.pinfos[(u \div 3) + 1].triangle_id - 1) + (u % 3)
<1>1. pc = "setup" /\ call' = call
  BY DEF setup_pixel_input_current_tile
<1>2. /\ call \in Calls /\ p \in InterfaceVariables /\ q \in InterfaceVariables
      /\ OutputsInPlace /\ OfTriangles(cur_tile.pinfos, ids)
      /\ DOMAIN cur_tile = DOMAIN NoTile
  BY <1>1, DrawAssumption DEF StagesMatch, TileStages
<1>3. n # 0
  BY <1>1 DEF setup_pixel_input_current_tile
<1>4. /\ n \in Nat /\ DOMAIN cur_tile.pinfos = 1 .. n
      /\ \A i \in 1 .. n : cur_tile.pinfos[i].triangle_id \in ids
  <2>1. PICK S : cur_tile.pinfos \in Seq(S) /\ \A info \in S : info.triangle_id \in ids
    BY <1>2 DEF OfTriangles
  <2>2. QED
    BY <2>1
<1>5. N \in Nat /\ n <= N /\ 3 * N \in Nat
  BY <1>4, UnitsSuffice
<1>6. \A i \in DOMAIN Slots(p) : from(i).format = Slots(p)[i].format
  BY <1>3 DEF setup_pixel_input_current_tile, Proceed, PixelSlots, OutputSlots
<1>7. /\ cur_tile'.pinfos = cur_tile.pinfos
      /\ cur_tile'.input = [a \in 0 .. (3 * N * Stride(p)) \div SlotAlign - 1 |->
                             IF SlotsAt(Slots(p), Stride(p), a) = {} THEN Junk
                             ELSE IF a \div (Stride(p) \div SlotAlign) < 3 * n
                               THEN VertexOutput(vertex(a \div (Stride(p) \div SlotAlign)),
                                                 from(SlotAt(Slots(p), Stride(p), a)).offset)
                               ELSE Junk]
  BY <1>2, <1>3 DEF setup_pixel_input_current_tile, Buffer, PixelSlots, OutputSlots, PixelStride, NoTile
<1> HIDE DEF from, vertex, N
<1>8. SUFFICES ASSUME NEW i \in 1 .. n, NEW s \in DOMAIN p, NEW c \in 0 .. 2
               PROVE  Fetch(cur_tile'.input, Stride(p), 3 * (i - 1) + c, Offset(p, p[s].location))
                        = Order!Corner(call, cur_tile.pinfos[i].triangle_id, c).attr[p[s].location]
  <2>1. PixelInputsMatch' <=> (pc' = "shade" => InputsMatch(call', cur_tile'))
    BY DEF PixelInputsMatch, InputsMatch, PixelStride
  <2>2. cur_tile'.pinfos = cur_tile.pinfos /\ DOMAIN cur_tile.pinfos = 1 .. n
    BY <1>4, <1>7
  <2>3. InputsMatch(call, cur_tile')
    <3>1. SUFFICES ASSUME NEW i \in 1 .. n, NEW s \in DOMAIN p, NEW k \in 0 .. 2
                   PROVE  Fetch(cur_tile'.input, Stride(p), 3 * (i - 1) + k, Offset(p, p[s].location))
                            = Order!Corner(call, cur_tile'.pinfos[i].triangle_id, k).attr[p[s].location]
      BY <2>2 DEF InputsMatch
    <3>2. QED
      BY <2>2
  <2>4. QED
    BY <1>1, <2>1, <2>3
<1> DEFINE loc == p[s].location
<1>9. loc \in Locations(p)
  BY DEF Locations
<1> HIDE DEF loc
<1> DEFINE u == 3 * (i - 1) + c
           a == (u * Stride(p) + Offset(p, loc)) \div SlotAlign
           j == SlotAt(Slots(p), Stride(p), a)
           t == cur_tile.pinfos[i].triangle_id
<1>10. u \in 0 .. 3 * N - 1 /\ u < 3 * n /\ u \div 3 = i - 1 /\ u % 3 = c /\ (i - 1) + 1 = i
  BY <1>4, <1>5
<1> HIDE DEF u
<1>11. /\ a \in 0 .. (3 * N * Stride(p)) \div SlotAlign - 1
       /\ a \div (Stride(p) \div SlotAlign) = u
       /\ SlotsAt(Slots(p), Stride(p), a) # {}
       /\ j \in DOMAIN Slots(p) /\ Slots(p)[j].location = loc
  BY <1>2, <1>5, <1>9, <1>10, PlaceOf
<1> HIDE DEF a, j
<1>12. cur_tile'.input[a] = VertexOutput(vertex(u), from(j).offset)
  BY <1>7, <1>10, <1>11 DEF j
<1>13. loc \in Locations(q) /\ from(j).offset = Offset(q, loc)
  <2>1. Slots(p)[j].format \in Formats
    BY <1>2, <1>11, SlotsAre
  <2>2. from(j).format \in Formats
    BY <1>6, <1>11, <2>1
  <2>3. MatchingSlot(Slots(q), loc).format \in Formats /\ from(j) = MatchingSlot(Slots(q), loc)
    BY <1>11, <2>2 DEF from
  <2>4. QED
    BY <1>2, <2>3, MatchingSlotIs
<1>14. t \in ids /\ vertex(u) = 3 * (t - 1) + c
  BY <1>4, <1>10 DEF vertex
<1> HIDE DEF t
<1>15. vertex(u) \in 0 .. call.indexCount - 1 /\ Order!Corner(call, t, c) = Vertex(vertex(u))
  BY <1>2, <1>14, CornerIs
<1>16. VertexOutput(vertex(u), Offset(q, loc)) = Vertex(vertex(u)).attr[loc]
  BY <1>2, <1>13, <1>15 DEF OutputsInPlace
<1>17. QED
  BY <1>12, <1>13, <1>15, <1>16 DEF Fetch, a, u, t, loc

(* A step that leaves the call and its vertices alone keeps them. *)
LEMMA VerticesStay ==
  ASSUME call' = call, UNCHANGED geometry
  PROVE  /\ OutputsInPlace => OutputsInPlace'
         /\ CornersAreNumbers => CornersAreNumbers'
BY DEF OutputsInPlace, CornersAreNumbers, VertexOutput, OutputStride, Vertex, geometry

(* The first of the tiles begins after the assembly of the primitives.     *)
LEMMA AssemblyMatches ==
  ASSUME StagesMatch, PA_stage, pc' # "trap"
  PROVE  StagesMatch' /\ PixelInputsMatch'
<1>1. /\ pc = "PA" /\ pc' = "begin_tile" /\ call' = call /\ cur_tile' = NoTile
      /\ ia' = ia /\ vs' = vs
  BY DEF PA_stage, Proceed
<1>2. call \in Calls /\ PositionsInPlace /\ OutputsInPlace
  BY <1>1 DEF StagesMatch
<1>3. CornersAreNumbers'
  BY <1>2, CornersFilled
<1>4. OutputsInPlace'
  BY <1>1, <1>2 DEF OutputsInPlace, VertexOutput, OutputStride, Vertex
<1>5. cur_tile'.pinfos = <<>> /\ cur_tile'.x = 0 /\ cur_tile'.y = 0
  BY <1>1 DEF NoTile
<1>6. QED
  BY <1>1, <1>2, <1>3, <1>4, <1>5 DEF StagesMatch, TileStages, PixelInputsMatch

(* The next tile is at a place, and has no pixels yet. *)
LEMMA NextTileMatches ==
  ASSUME StagesMatch, end_tile, pc' # "trap"
  PROVE  StagesMatch' /\ PixelInputsMatch'
<1> DEFINE x == (cur_tile.x + 1) % XTiles
           y == IF x = 0 THEN cur_tile.y + 1 ELSE cur_tile.y
<1>1. /\ pc = "end_tile" /\ pc' \in {"begin_tile", "end_draw"} /\ call' = call /\ UNCHANGED geometry
      /\ cur_tile' = [NoTile EXCEPT !.x = x, !.y = y]
  BY DEF end_tile, Proceed
<1>2. /\ call \in Calls /\ OutputsInPlace /\ CornersAreNumbers
      /\ cur_tile.x \in Int /\ cur_tile.y \in Int
  BY <1>1 DEF StagesMatch, TileStages
<1>3. x \in Int /\ y \in Int
  <2>1. XTiles \in Nat \ {0}
    <3>1. Width \in Nat \ {0} /\ Tile \in Nat \ {0}
      BY DrawAssumption, TileAssumption
    <3>2. \A a, b \in Nat \ {0} : (a + b - 1) \div b \in Nat \ {0}
      OBVIOUS
    <3>3. QED
      BY <3>1, <3>2 DEF XTiles
  <2>2. QED
    BY <1>2, <2>1
<1> HIDE DEF x, y
<1>4. DOMAIN cur_tile' = DOMAIN NoTile /\ cur_tile'.x = x /\ cur_tile'.y = y /\ cur_tile'.pinfos = <<>>
  BY <1>1 DEF NoTile
<1>5. QED
  BY <1>1, <1>2, <1>3, <1>4, VerticesStay DEF StagesMatch, TileStages, PixelInputsMatch

(* The set-up leaves the pixels of the tile as they were found. *)
LEMMA SetupMatches ==
  ASSUME StagesMatch, setup_pixel_input_current_tile, pc' # "trap"
  PROVE  StagesMatch' /\ PixelInputsMatch'
<1>1. pc = "setup" /\ pc' \in {"shade", "end_tile"} /\ call' = call /\ UNCHANGED geometry
  BY DEF setup_pixel_input_current_tile, Proceed
<1>2. /\ call \in Calls /\ OutputsInPlace /\ CornersAreNumbers
      /\ DOMAIN cur_tile = DOMAIN NoTile /\ cur_tile.x \in Int /\ cur_tile.y \in Int
      /\ OfTriangles(cur_tile.pinfos, 1 .. call.indexCount \div 3)
  BY <1>1 DEF StagesMatch, TileStages
<1>3. \/ cur_tile' = cur_tile
      \/ \E input, positions : cur_tile' = [cur_tile EXCEPT !.input = input, !.positions = positions]
  BY DEF setup_pixel_input_current_tile
<1>4. /\ DOMAIN cur_tile' = DOMAIN NoTile /\ cur_tile'.x = cur_tile.x /\ cur_tile'.y = cur_tile.y
      /\ cur_tile'.pinfos = cur_tile.pinfos
  BY <1>2, <1>3 DEF NoTile
<1>5. StagesMatch'
  BY <1>1, <1>2, <1>4, VerticesStay DEF StagesMatch, TileStages
<1>6. PixelInputsMatch'
  <2>1. CASE pc' = "shade"
    BY <2>1, InputsFilled
  <2>2. CASE pc' # "shade"
    BY <2>2 DEF PixelInputsMatch
  <2>3. QED
    BY <2>1, <2>2
<1>7. QED
  BY <1>5, <1>6

(* Shading adds outputs to the tile. *)
LEMMA ShadingMatches ==
  ASSUME StagesMatch, PixelInputsMatch, shade_current_tile
  PROVE  StagesMatch' /\ PixelInputsMatch'
<1>1. pc = "shade" /\ pc' \in {"shade", "merge"} /\ call' = call /\ UNCHANGED geometry
  BY DEF shade_current_tile
<1>2. /\ call \in Calls /\ OutputsInPlace /\ CornersAreNumbers
      /\ DOMAIN cur_tile = DOMAIN NoTile /\ cur_tile.x \in Int /\ cur_tile.y \in Int
      /\ OfTriangles(cur_tile.pinfos, 1 .. call.indexCount \div 3)
  BY <1>1 DEF StagesMatch, TileStages
<1>3. \/ cur_tile' = cur_tile
      \/ \E out, depths : cur_tile' = [cur_tile EXCEPT !.output = out, !.depth_output = depths]
  BY DEF shade_current_tile
<1>4. /\ DOMAIN cur_tile' = DOMAIN NoTile /\ cur_tile'.x = cur_tile.x /\ cur_tile'.y = cur_tile.y
      /\ cur_tile'.pinfos = cur_tile.pinfos /\ cur_tile'.input = cur_tile.input
  BY <1>2, <1>3 DEF NoTile
<1>5. StagesMatch'
  BY <1>1, <1>2, <1>4, VerticesStay DEF StagesMatch, TileStages
<1>6. PixelInputsMatch'
  <2>1. InputsMatch(call, cur_tile)
    BY <1>1 DEF PixelInputsMatch, InputsMatch, PixelStride
  <2>2. InputsMatch(call, cur_tile) <=> InputsMatch(call, cur_tile')
    BY <1>4 DEF InputsMatch
  <2>3. PixelInputsMatch' <=> (pc' = "shade" => InputsMatch(call', cur_tile'))
    BY DEF PixelInputsMatch, InputsMatch, PixelStride
  <2>4. QED
    BY <1>1, <2>1, <2>2, <2>3
<1>7. QED
  BY <1>5, <1>6

(* At first there is no call. *)
LEMMA InitPixels == Init => PixelsInv
BY DEF Init, PixelsInv, StagesMatch, TileStages, PixelInputsMatch, NoTile

(* Every stage finds what the stage before it made. *)
LEMMA NextPixels ==
  ASSUME PixelsInv, [Next]_vars
  PROVE  PixelsInv'
<1>1. SUFFICES ASSUME pc' # "trap" PROVE StagesMatch' /\ PixelInputsMatch'
  BY DEF PixelsInv
<1>2. pc # "trap"
  BY <1>1 DEF Next, vars, clear_attachment, begin_draw_indexed, setup_descriptors, IA_stage, VS_stage,
     PA_stage, begin_tile, rasterize_current_tile, setup_pixel_input_current_tile, shade_current_tile,
     merge_current_tile, end_tile, end_draw
<1>3. StagesMatch /\ PixelInputsMatch
  BY <1>2 DEF PixelsInv
<1>4. CASE clear_attachment
  BY <1>3, <1>4 DEF clear_attachment, StagesMatch, TileStages, PixelInputsMatch
<1>5. CASE begin_draw_indexed
  <2>1. pc' = "descriptors" /\ call' \in Calls /\ cur_tile' = cur_tile
    BY <1>1, <1>5 DEF begin_draw_indexed, Proceed
  <2>2. QED
    BY <1>3, <2>1 DEF StagesMatch, TileStages, PixelInputsMatch
<1>6. CASE setup_descriptors
  <2>1. pc = "descriptors" /\ pc' \in {"descriptors", "IA"} /\ call' = call /\ cur_tile' = cur_tile
    BY <1>1, <1>6 DEF setup_descriptors, Proceed
  <2>2. QED
    BY <1>3, <2>1 DEF StagesMatch, TileStages, PixelInputsMatch
<1>7. CASE IA_stage
  <2>1. pc = "IA" /\ pc' = "VS" /\ call' = call /\ cur_tile' = cur_tile
    BY <1>1, <1>7 DEF IA_stage, Proceed
  <2>2. call \in Calls
    BY <1>3, <2>1 DEF StagesMatch
  <2>3. AttributesInPlace'
    BY <1>7, <2>2, AttributesFilled
  <2>4. QED
    BY <1>3, <2>1, <2>2, <2>3 DEF StagesMatch, TileStages, PixelInputsMatch
<1>8. CASE VS_stage
  <2>1. pc = "VS" /\ pc' = "PA" /\ call' = call /\ cur_tile' = cur_tile
    BY <1>1, <1>8 DEF VS_stage, Proceed
  <2>2. call \in Calls /\ AttributesInPlace
    BY <1>3, <2>1 DEF StagesMatch
  <2>3. OutputsInPlace' /\ PositionsInPlace'
    BY <1>8, <2>2, OutputsFilled
  <2>4. QED
    BY <1>3, <2>1, <2>2, <2>3 DEF StagesMatch, TileStages, PixelInputsMatch
<1>9. CASE PA_stage
  BY <1>1, <1>3, <1>9, AssemblyMatches
<1>10. CASE begin_tile
  <2>1. /\ pc = "begin_tile" /\ pc' = "rasterize" /\ call' = call /\ cur_tile' = cur_tile
        /\ UNCHANGED geometry /\ next' = 1
    BY <1>1, <1>10 DEF begin_tile, Proceed
  <2>2. OfTriangles(cur_tile'.pinfos, 1 .. call'.indexCount \div 3)
    BY <1>3, <2>1, NoPixels DEF StagesMatch
  <2>3. QED
    BY <1>3, <2>1, <2>2, VerticesStay DEF StagesMatch, TileStages, PixelInputsMatch
<1>11. CASE rasterize_current_tile
  BY <1>3, <1>11, PixelsAreOfCall
<1>12. CASE setup_pixel_input_current_tile
  BY <1>1, <1>3, <1>12, SetupMatches
<1>13. CASE shade_current_tile
  BY <1>3, <1>13, ShadingMatches
<1>14. CASE merge_current_tile
  <2>1. /\ pc = "merge" /\ pc' \in {"merge", "end_tile"} /\ call' = call /\ cur_tile' = cur_tile
        /\ UNCHANGED geometry
    BY <1>1, <1>14 DEF merge_current_tile, merge_pixel
  <2>2. QED
    BY <1>3, <2>1, VerticesStay DEF StagesMatch, TileStages, PixelInputsMatch
<1>15. CASE end_tile
  BY <1>1, <1>3, <1>15, NextTileMatches
<1>16. CASE end_draw
  <2>1. pc' = "idle" /\ cur_tile' = NoTile
    BY <1>1, <1>16 DEF end_draw, Proceed
  <2>2. QED
    BY <2>1 DEF StagesMatch, TileStages, PixelInputsMatch, NoTile
<1>17. CASE UNCHANGED vars
  <2>1. UNCHANGED <<pc, call, cur_tile, next, ia, vs, assembly>>
    BY <1>17 DEF vars
  <2>2. /\ OutputsInPlace' <=> OutputsInPlace
        /\ AttributesInPlace' <=> AttributesInPlace
        /\ PositionsInPlace' <=> PositionsInPlace
        /\ CornersAreNumbers' <=> CornersAreNumbers
    BY <2>1 DEF OutputsInPlace, AttributesInPlace, PositionsInPlace, CornersAreNumbers, VertexOutput,
                OutputStride, InputStride, Attribute, Vertex
  <2>3. PixelInputsMatch' <=> PixelInputsMatch
    BY <2>1 DEF PixelInputsMatch, PixelStride
  <2>4. QED
    BY <1>3, <2>1, <2>2, <2>3 DEF StagesMatch
<1>18. QED
  BY <1>4, <1>5, <1>6, <1>7, <1>8, <1>9, <1>10, <1>11, <1>12, <1>13, <1>14, <1>15, <1>16, <1>17 DEF Next

(* A pixel shader reads for each of its inputs what the vertex shader put  *)
(* out at that location for the corners of the pixel's triangle, for any   *)
(* two interfaces, any index list and any size of tiles and subgroups.     *)
THEOREM PixelInputsAreMatched == Spec => []PixelInputsMatch
<1>1. PixelsInv => PixelInputsMatch
  BY DEF PixelsInv, PixelInputsMatch
<1> QED
  BY <1>1, InitPixels, NextPixels, PTL DEF Spec
=============================================================================
