-------------------------- MODULE VectorizerProofs --------------------------
(***************************************************************************)
(* What the sort of the blocks guarantees for any shader it accepts, and   *)
(* for any order of the successors of a block: a list that the masked code *)
(* can rely on.                                                            *)
(***************************************************************************)
EXTENDS Vectorizer, ControlFlowProofs, SequenceTheorems, TLAPS

Queued == ToSet(to_visit)

(***************************************************************************)
(* The inductive invariant of the sort. Blocks come into the queue from    *)
(* listed blocks, so that the list cannot come round a block: what is      *)
(* listed before a block is listed can be reached without it. That is why  *)
(* a header is listed before the blocks it dominates, and its back edges   *)
(* all lead back.                                                          *)
(***************************************************************************)
FromShader == cfg \in Shaders /\ back_edges = BackEdges(cfg)

QueuedAfterListed ==
  \A b \in Queued : b = cfg.entry \/ \E a \in Sorted : b \in cfg.out[a]

NoneForgotten ==
  /\ cfg.entry \in Sorted \cup Queued
  /\ \A a \in Sorted : cfg.out[a] \subseteq Sorted \cup Queued

PredecessorsListed ==
  \A b \in Sorted : \A a \in InBlocks(cfg, b) : a \in Sorted \/ <<a, b>> \in back_edges

ListedWithout ==
  \A d \in cfg.blocks \ {cfg.entry} : d \in Sorted \/ Sorted \subseteq Visited(cfg, cfg.entry, d)

SortInv ==
  /\ TypeOK
  /\ FromShader
  /\ TopologicalOrder
  /\ QueuedAfterListed
  /\ NoneForgotten
  /\ Sorted \subseteq Live(cfg)
  /\ PredecessorsListed
  /\ ListedWithout

-----------------------------------------------------------------------------
(* Sequences as sets.                                                      *)

(* What is in a sequence has a place there. *)
LEMMA InToSet ==
  ASSUME NEW S, NEW s \in Seq(S)
  PROVE  \A y : y \in ToSet(s) <=> \E i \in 1..Len(s) : s[i] = y
<1>1. DOMAIN s = 1..Len(s)
  OBVIOUS
<1>2. QED
  BY <1>1 DEF ToSet

(* The queue of the entry block alone. *)
LEMMA ToSetOne ==
  ASSUME NEW x
  PROVE  ToSet(<<x>>) = {x}
<1>1. <<x>> \in Seq({x}) /\ Len(<<x>>) = 1 /\ <<x>>[1] = x
  OBVIOUS
<1> DEFINE s == <<x>>
<1>2. \A y : y \in ToSet(s) <=> \E i \in 1..Len(s) : s[i] = y
  BY <1>1, InToSet
<1>3. 1..Len(s) = {1} /\ s[1] = x
  BY <1>1
<1> HIDE DEF s
<1>4. ToSet(s) = {x}
  BY <1>2, <1>3
<1>5. QED
  BY <1>4 DEF s

(* A block put at the end is one more. *)
LEMMA ToSetAppend ==
  ASSUME NEW S, NEW s \in Seq(S), NEW x \in S
  PROVE  Append(s, x) \in Seq(S) /\ ToSet(Append(s, x)) = ToSet(s) \cup {x}
<1> DEFINE t == Append(s, x)
<1>1. /\ Len(s) \in Nat
      /\ t \in Seq(S) /\ Len(t) = Len(s) + 1
      /\ \A i \in 1..Len(s) : t[i] = s[i]
      /\ t[Len(s) + 1] = x
  OBVIOUS
<1>2. \A y : y \in ToSet(s) <=> \E i \in 1..Len(s) : s[i] = y
  BY InToSet
<1> HIDE DEF t
<1>3. \A y : y \in ToSet(t) <=> \E i \in 1..Len(t) : t[i] = y
  BY <1>1, InToSet
<1>4. \A i \in 1..Len(s) : i \in 1..Len(t)
  BY <1>1
<1>5. \A i \in 1..Len(t) : i \in 1..Len(s) \/ i = Len(t)
  BY <1>1
<1>6. Len(t) \in 1..Len(t)
  BY <1>1
<1>7. \A y : y \in ToSet(t) <=> y \in ToSet(s) \cup {x}
  BY <1>1, <1>2, <1>3, <1>4, <1>5, <1>6
<1>8. QED
  BY <1>1, <1>7 DEF t

(* The head and the rest are all there is. *)
LEMMA ToSetHeadTail ==
  ASSUME NEW S, NEW s \in Seq(S), s # << >>
  PROVE  /\ Tail(s) \in Seq(S) /\ Head(s) \in S
         /\ ToSet(s) = {Head(s)} \cup ToSet(Tail(s))
<1> DEFINE h == Head(s)
           t == Tail(s)
<1>1. /\ Len(s) \in Nat \ {0}
      /\ h = s[1] /\ h \in S
      /\ t \in Seq(S) /\ Len(t) = Len(s) - 1
      /\ \A i \in 1..Len(t) : t[i] = s[i + 1]
  OBVIOUS
<1>2. \A y : y \in ToSet(s) <=> \E i \in 1..Len(s) : s[i] = y
  BY InToSet
<1> HIDE DEF h, t
<1>3. \A y : y \in ToSet(t) <=> \E i \in 1..Len(t) : t[i] = y
  BY <1>1, InToSet
<1>4. \A i \in 1..Len(s) : i = 1 \/ (s[i] = t[i - 1] /\ i - 1 \in 1..Len(t))
  <2>1. TAKE i \in 1..Len(s)
  <2>2. i # 1 => i - 1 \in 1..Len(t) /\ (i - 1) + 1 = i
    BY <1>1
  <2>3. i # 1 => s[i] = t[i - 1]
    BY <1>1, <2>2
  <2>4. QED
    BY <2>2, <2>3
<1>5. \A i \in 1..Len(t) : i + 1 \in 1..Len(s) /\ t[i] = s[i + 1]
  BY <1>1
<1>6. 1 \in 1..Len(s)
  BY <1>1
<1>7. \A y : y \in ToSet(s) => y \in {h} \cup ToSet(t)
  BY <1>1, <1>2, <1>3, <1>4, Zenon
<1>8. \A y : y \in {h} \cup ToSet(t) => y \in ToSet(s)
  BY <1>1, <1>2, <1>3, <1>5, <1>6, Zenon
<1>9. QED
  BY <1>1, <1>7, <1>8 DEF h, t

(* Two sequences hold together what each holds. *)
LEMMA ToSetConcat ==
  ASSUME NEW S, NEW s \in Seq(S), NEW t \in Seq(S)
  PROVE  s \o t \in Seq(S) /\ ToSet(s \o t) = ToSet(s) \cup ToSet(t)
<1> DEFINE u == s \o t
<1>1. /\ u \in Seq(S) /\ Len(u) = Len(s) + Len(t)
      /\ \A i \in 1..(Len(s) + Len(t)) : u[i] = IF i <= Len(s) THEN s[i] ELSE t[i - Len(s)]
  BY ConcatProperties, Zenon
<1>2. Len(s) \in Nat /\ Len(t) \in Nat
  OBVIOUS
<1> HIDE DEF u
<1>3. \A i \in 1..Len(u) : \/ i \in 1..Len(s) /\ u[i] = s[i]
                           \/ i - Len(s) \in 1..Len(t) /\ u[i] = t[i - Len(s)]
  BY <1>1, <1>2
<1>4. \A i \in 1..Len(s) : i \in 1..Len(u) /\ u[i] = s[i]
  BY <1>1, <1>2
<1>5. \A i \in 1..Len(t) : i + Len(s) \in 1..Len(u) /\ u[i + Len(s)] = t[i]
  <2>1. TAKE i \in 1..Len(t)
  <2>2. i + Len(s) \in 1..(Len(s) + Len(t)) /\ ~(i + Len(s) <= Len(s)) /\ (i + Len(s)) - Len(s) = i
    BY <1>2
  <2>3. QED
    BY <1>1, <2>2
<1>6. /\ \A y : y \in ToSet(s) <=> \E i \in 1..Len(s) : s[i] = y
      /\ \A y : y \in ToSet(t) <=> \E i \in 1..Len(t) : t[i] = y
      /\ \A y : y \in ToSet(u) <=> \E i \in 1..Len(u) : u[i] = y
  BY <1>1, InToSet
<1>7. \A y : y \in ToSet(u) => y \in ToSet(s) \cup ToSet(t)
  BY <1>3, <1>6, Zenon
<1>8. \A y : y \in ToSet(s) \cup ToSet(t) => y \in ToSet(u)
  BY <1>4, <1>5, <1>6, Zenon
<1>9. QED
  BY <1>1, <1>7, <1>8 DEF u

(* A sequence made of a set holds the elements of the set. *)
LEMMA ToSetOfSet ==
  ASSUME NEW S, IsFiniteSet(S), NEW s \in SetToSeqs(S)
  PROVE  s \in Seq(S) /\ ToSet(s) = S
<1> DEFINE n == Cardinality(S)
<1>1. n \in Nat
  BY FS_CardinalityType
<1>2. s \in [1..n -> S] /\ \A i, j \in 1..n : i # j => s[i] # s[j]
  BY DEF SetToSeqs
<1>3. s \in Seq(S)
  BY <1>1, <1>2
<1>4. s \in Injection(1..n, S)
  BY <1>2 DEF Injection, IsInjective
<1>5. IsFiniteSet(1..n) /\ Cardinality(1..n) = n
  BY <1>1, FS_Interval
<1>6. s \in Surjection(1..n, S)
  BY <1>4, <1>5, FS_Injection
<1>7. QED
  BY <1>2, <1>3, <1>6 DEF Surjection, ToSet

-----------------------------------------------------------------------------
(* The sort.                                                               *)

(* The facts about one step of the sort: what is at the front of the queue *)
(* is a block, and what the queue holds besides it.                        *)
LEMMA FrontOfQueue ==
  ASSUME SortInv, to_visit # << >>
  PROVE  /\ Head(to_visit) \in cfg.blocks
         /\ Tail(to_visit) \in Seq(cfg.blocks)
         /\ Queued = {Head(to_visit)} \cup ToSet(Tail(to_visit))
BY ToSetHeadTail DEF SortInv, TypeOK, Queued

(* The invariant but for its order only depends on what is listed and what *)
(* is queued.                                                              *)
LEMMA SameListed ==
  ASSUME SortInv, UNCHANGED <<cfg, back_edges, sorted>>,
         to_visit' \in Seq(cfg.blocks), Queued' \subseteq Queued, Queued \subseteq Queued' \cup Sorted
  PROVE  SortInv'
<1>1. Sorted' = Sorted /\ cfg' = cfg /\ back_edges' = back_edges /\ sorted' = sorted
  BY DEF Sorted
<1>2. TypeOK' /\ FromShader'
  BY <1>1 DEF SortInv, TypeOK, FromShader
<1>3. TopologicalOrder' /\ PredecessorsListed' /\ ListedWithout' /\ (Sorted \subseteq Live(cfg))'
  BY <1>1 DEF SortInv, TopologicalOrder, PredecessorsListed, ListedWithout
<1>4. QueuedAfterListed' /\ NoneForgotten'
  BY <1>1 DEF SortInv, QueuedAfterListed, NoneForgotten
<1>5. QED
  BY <1>2, <1>3, <1>4 DEF SortInv

(* The entry waits, and nothing is in the list. *)
LEMMA InitSortInv == Init => SortInv
<1>1. SUFFICES ASSUME Init PROVE SortInv
  OBVIOUS
<1>2. /\ cfg \in Shaders /\ back_edges = BackEdges(cfg)
      /\ to_visit = <<cfg.entry>> /\ sorted = << >>
  BY <1>1 DEF Init
<1>3. IsCfg(cfg) /\ cfg.entry \in cfg.blocks
  BY <1>2, ShadersAssumption, CfgIsGraph DEF IsShaderCfg
<1>4. Queued = {cfg.entry} /\ Sorted = {} /\ Len(sorted) = 0
  <2>1. ToSet(<<cfg.entry>>) = {cfg.entry}
    BY ToSetOne
  <2>2. ToSet(<< >>) = {}
    BY DEF ToSet
  <2>3. QED
    BY <1>2, <2>1, <2>2 DEF Queued, Sorted
<1>5. back_edges \subseteq Edges(cfg)
  BY <1>2 DEF BackEdges
<1>6. TypeOK
  BY <1>2, <1>3, <1>5 DEF TypeOK
<1>7. TopologicalOrder
  BY <1>4 DEF TopologicalOrder
<1>8. QED
  BY <1>2, <1>4, <1>6, <1>7
     DEF SortInv, FromShader, QueuedAfterListed, NoneForgotten, PredecessorsListed, ListedWithout

(* A block that is in the list already is dropped. *)
LEMMA SkipPlacedInv == SortInv /\ SkipPlaced => SortInv'
<1>1. SUFFICES ASSUME SortInv, SkipPlaced PROVE SortInv'
  OBVIOUS
<1>2. /\ to_visit # << >> /\ Head(to_visit) \in Sorted
      /\ to_visit' = Tail(to_visit) /\ UNCHANGED <<cfg, back_edges, sorted>>
  BY <1>1 DEF SkipPlaced
<1>3. Queued' = ToSet(Tail(to_visit))
  BY <1>2 DEF Queued
<1>4. QED
  BY <1>1, <1>2, <1>3, FrontOfQueue, SameListed

(* A block with a predecessor still to come goes to the end of the queue. *)
LEMMA DeferInv == SortInv /\ Defer => SortInv'
<1>1. SUFFICES ASSUME SortInv, Defer PROVE SortInv'
  OBVIOUS
<1>2. /\ to_visit # << >>
      /\ to_visit' = Append(Tail(to_visit), Head(to_visit))
      /\ UNCHANGED <<cfg, back_edges, sorted>>
  BY <1>1 DEF Defer
<1>3. /\ Head(to_visit) \in cfg.blocks
      /\ Tail(to_visit) \in Seq(cfg.blocks)
      /\ Queued = {Head(to_visit)} \cup ToSet(Tail(to_visit))
  BY <1>1, <1>2, FrontOfQueue
<1>4. to_visit' \in Seq(cfg.blocks) /\ Queued' = Queued
  <2> DEFINE bb == Head(to_visit)
             rest == Tail(to_visit)
  <2>1. bb \in cfg.blocks /\ rest \in Seq(cfg.blocks) /\ Queued = {bb} \cup ToSet(rest)
    BY <1>3
  <2>2. to_visit' = Append(rest, bb)
    BY <1>2
  <2> HIDE DEF bb, rest
  <2>3. Append(rest, bb) \in Seq(cfg.blocks) /\ ToSet(Append(rest, bb)) = ToSet(rest) \cup {bb}
    BY <2>1, ToSetAppend
  <2>4. Queued' = ToSet(rest) \cup {bb}
    BY <2>2, <2>3, Zenon DEF Queued
  <2>5. QED
    BY <2>1, <2>2, <2>3, <2>4, Zenon
<1>5. QED
  BY <1>1, <1>2, <1>4, SameListed

(* What Place does to the queue: the successors come to it, the block      *)
(* leaves it.                                                              *)
LEMMA PlaceQueues ==
  ASSUME SortInv, Place
  PROVE  LET bb == Head(to_visit)
         IN  /\ to_visit' \in Seq(cfg.blocks)
             /\ Queued' = ToSet(Tail(to_visit)) \cup cfg.out[bb]
             /\ sorted' = Append(sorted, bb) /\ Sorted' = Sorted \cup {bb}
<1> DEFINE bb == Head(to_visit)
           rest == Tail(to_visit)
           reachables == {out \in cfg.out[bb] : Reachable(cfg, out, bb)}
           unreachables == cfg.out[bb] \ reachables
<1>1. to_visit # << >> /\ sorted' = Append(sorted, bb)
  BY DEF Place
<1>2. bb \in cfg.blocks /\ rest \in Seq(cfg.blocks)
  BY <1>1, FrontOfQueue
<1>3. PICK r \in SetToSeqs(reachables), u \in SetToSeqs(unreachables) :
        to_visit' = IF reachables # {} THEN r \o rest \o u ELSE u \o rest
  BY DEF Place
<1>4. cfg.out[bb] \subseteq cfg.blocks /\ IsFiniteSet(cfg.out[bb])
  BY <1>2, CfgIsGraph DEF SortInv, TypeOK
<1>5. reachables \subseteq cfg.out[bb] /\ reachables \cup unreachables = cfg.out[bb]
  OBVIOUS
<1> HIDE DEF bb, rest, reachables, unreachables
<1>6. IsFiniteSet(reachables) /\ IsFiniteSet(unreachables)
  <2>1. unreachables \subseteq cfg.out[bb]
    BY <1>5
  <2>2. QED
    BY <1>4, <1>5, <2>1, FS_Subset
<1>7. r \in Seq(reachables) /\ ToSet(r) = reachables /\ u \in Seq(unreachables) /\ ToSet(u) = unreachables
  BY <1>6, ToSetOfSet
<1>8. r \in Seq(cfg.blocks) /\ u \in Seq(cfg.blocks)
  BY <1>4, <1>5, <1>7
<1>9. /\ r \o rest \in Seq(cfg.blocks) /\ ToSet(r \o rest) = ToSet(r) \cup ToSet(rest)
      /\ u \o rest \in Seq(cfg.blocks) /\ ToSet(u \o rest) = ToSet(u) \cup ToSet(rest)
  BY <1>2, <1>8, ToSetConcat
<1>10. /\ (r \o rest) \o u \in Seq(cfg.blocks)
       /\ ToSet((r \o rest) \o u) = ToSet(r \o rest) \cup ToSet(u)
  <2> DEFINE front == r \o rest
  <2>1. front \in Seq(cfg.blocks)
    BY <1>9
  <2> HIDE DEF front
  <2>2. front \o u \in Seq(cfg.blocks) /\ ToSet(front \o u) = ToSet(front) \cup ToSet(u)
    BY <1>8, <2>1, ToSetConcat
  <2>3. QED
    BY <2>2, Zenon DEF front
<1>11. to_visit' \in Seq(cfg.blocks) /\ Queued' = ToSet(rest) \cup cfg.out[bb]
  <2>1. CASE reachables # {}
    <3>1. to_visit' = (r \o rest) \o u
      BY <1>3, <2>1, Zenon
    <3>2. ToSet((r \o rest) \o u) = reachables \cup ToSet(rest) \cup unreachables
      BY <1>7, <1>9, <1>10, Zenon
    <3>3. Queued' = reachables \cup ToSet(rest) \cup unreachables
      BY <3>1, <3>2, Zenon DEF Queued
    <3> QED
      BY <1>5, <1>10, <3>1, <3>3
  <2>2. CASE reachables = {}
    <3>1. to_visit' = u \o rest
      BY <1>3, <2>2, Zenon
    <3>2. Queued' = unreachables \cup ToSet(rest)
      BY <1>7, <1>9, <3>1, Zenon DEF Queued
    <3> QED
      BY <1>5, <1>9, <2>2, <3>1, <3>2
  <2>3. QED
    BY <2>1, <2>2
<1>12. Sorted' = Sorted \cup {bb}
  BY <1>1, <1>2, ToSetAppend DEF Sorted, SortInv, TypeOK
<1>13. QED
  BY <1>1, <1>11, <1>12 DEF bb, rest


(* A listed block that the front block leads to is a loop header: the      *)
(* block before its back edges cannot be reached without it.               *)
LEMMA BackEdgesToListed ==
  ASSUME SortInv, NEW a \in cfg.blocks, NEW b \in cfg.out[a], <<a, b>> \in back_edges, a \in Sorted
  PROVE  b \in Sorted
<1>1. IsCfg(cfg) /\ b \in cfg.blocks
  BY CfgIsGraph DEF SortInv, TypeOK
<1>2. b = a \/ (b # cfg.entry /\ a \notin Visited(cfg, cfg.entry, b))
  BY <1>1, BackEdgesAre DEF SortInv, FromShader
<1>3. CASE b # cfg.entry /\ a \notin Visited(cfg, cfg.entry, b)
  BY <1>1, <1>3 DEF SortInv, ListedWithout
<1>4. QED
  BY <1>2, <1>3

(* A block whose predecessors are in the list comes next, and its          *)
(* successors wait.                                                        *)
LEMMA PlaceInv == SortInv /\ Place => SortInv'
<1>1. SUFFICES ASSUME SortInv, Place PROVE SortInv'
  OBVIOUS
<1> DEFINE bb == Head(to_visit)
           rest == Tail(to_visit)
           n == Len(sorted)
<1>2. /\ to_visit # << >> /\ bb \notin Sorted /\ ReadyToInsert(bb)
      /\ UNCHANGED <<cfg, back_edges>>
  BY <1>1 DEF Place
<1>3. /\ bb \in cfg.blocks /\ rest \in Seq(cfg.blocks) /\ bb \in Queued
      /\ Queued = {bb} \cup ToSet(rest)
  BY <1>1, <1>2, FrontOfQueue
<1>4. /\ to_visit' \in Seq(cfg.blocks)
      /\ Queued' = ToSet(rest) \cup cfg.out[bb]
      /\ sorted' = Append(sorted, bb) /\ Sorted' = Sorted \cup {bb}
  BY <1>1, PlaceQueues
<1> HIDE DEF bb, rest
<1>5. /\ IsCfg(cfg) /\ IsGraph(cfg) /\ cfg.entry \in cfg.blocks
      /\ \A b \in cfg.blocks : cfg.out[b] \subseteq cfg.blocks
  BY <1>1, CfgIsGraph DEF SortInv, TypeOK
<1>6. /\ sorted \in Seq(cfg.blocks) /\ n \in Nat
      /\ sorted' \in Seq(cfg.blocks) /\ Len(sorted') = n + 1
      /\ \A i \in 1..n : sorted'[i] = sorted[i]
      /\ sorted'[n + 1] = bb
  <2>1. sorted \in Seq(cfg.blocks)
    BY <1>1 DEF SortInv, TypeOK
  <2>2. QED
    BY <1>3, <1>4, <2>1
<1>7. /\ \A b \in Sorted : b \in cfg.blocks
      /\ \A y : y \in Sorted <=> \E i \in 1..n : sorted[i] = y
  <2>1. \A y : y \in Sorted <=> \E i \in 1..n : sorted[i] = y
    BY <1>6, InToSet DEF Sorted
  <2>2. \A i \in 1..n : sorted[i] \in cfg.blocks
    BY <1>6
  <2>3. QED
    BY <2>1, <2>2
<1>8. TypeOK'
  BY <1>1, <1>2, <1>4, <1>6 DEF SortInv, TypeOK
<1>9. FromShader'
  BY <1>1, <1>2 DEF SortInv, FromShader
<1>10. bb = cfg.entry \/ \E a \in Sorted : bb \in cfg.out[a]
  BY <1>1, <1>3 DEF SortInv, QueuedAfterListed
<1>11. QueuedAfterListed'
  BY <1>1, <1>2, <1>3, <1>4 DEF SortInv, QueuedAfterListed
<1>12. NoneForgotten'
  BY <1>1, <1>2, <1>3, <1>4 DEF SortInv, NoneForgotten
<1>13. (Sorted \subseteq Live(cfg))'
  <2>1. /\ cfg.entry \in Live(cfg)
        /\ \A a \in Live(cfg) : \A d \in cfg.out[a] : d = "none" \/ d \in Live(cfg)
    BY <1>5, VisitedClosed DEF Live, Closed
  <2>2. bb # "none"
    BY <1>3, <1>5, CfgIsGraph
  <2>3. bb \in Live(cfg)
    BY <1>1, <1>10, <2>1, <2>2 DEF SortInv
  <2>4. QED
    BY <1>1, <1>2, <1>4, <2>3 DEF SortInv
<1>14. \A a \in InBlocks(cfg, bb) : a \in Sorted \/ <<a, bb>> \in back_edges
  BY <1>2 DEF ReadyToInsert
<1>15. PredecessorsListed'
  BY <1>1, <1>2, <1>4, <1>14 DEF SortInv, PredecessorsListed
<1>16. ListedWithout'
  <2>1. SUFFICES ASSUME NEW d \in cfg.blocks \ {cfg.entry}, d \notin Sorted, d # bb
                 PROVE  Sorted \cup {bb} \subseteq Visited(cfg, cfg.entry, d)
    BY <1>2, <1>4 DEF ListedWithout
  <2>2. Sorted \subseteq Visited(cfg, cfg.entry, d)
    BY <1>1, <2>1 DEF SortInv, ListedWithout
  <2>3. /\ cfg.entry \in Visited(cfg, cfg.entry, d)
        /\ \A a \in Visited(cfg, cfg.entry, d) : \A e \in cfg.out[a] : e = d \/ e \in Visited(cfg, cfg.entry, d)
    BY <1>5, VisitedClosed DEF Closed
  <2>4. QED
    BY <1>10, <2>1, <2>2, <2>3
<1>17. \A a \in Sorted : bb \in cfg.out[a] => <<a, bb>> \notin back_edges
  BY <1>1, <1>2, <1>7, BackEdgesToListed
<1>18. \A b \in Sorted : b \in cfg.out[bb] => <<bb, b>> \in back_edges
  BY <1>1, <1>2, <1>3 DEF SortInv, PredecessorsListed, InBlocks
<1>19. bb \notin cfg.out[bb]
  BY <1>1, <1>3, ShadersAssumption DEF SortInv, FromShader, IsShaderCfg
<1>20. TopologicalOrder'
  <2>1. \A i \in 1..(n + 1) : i \in 1..n \/ i = n + 1
    BY <1>6
  <2>2. \A i \in 1..n : sorted'[i] = sorted[i] /\ sorted[i] \in Sorted /\ i < n + 1 /\ i <= n + 1
    BY <1>6, <1>7
  <2>3. ASSUME NEW i \in 1..(n + 1), NEW j \in 1..(n + 1), sorted'[i] = sorted'[j] PROVE i = j
    BY <1>1, <1>2, <1>6, <2>1, <2>2, <2>3 DEF SortInv, TopologicalOrder
  <2>4. ASSUME NEW i \in 1..(n + 1), NEW j \in 1..(n + 1), sorted'[j] \in cfg.out[sorted'[i]]
        PROVE  IF <<sorted'[i], sorted'[j]>> \in back_edges THEN j <= i ELSE i < j
    <3>1. CASE i \in 1..n /\ j \in 1..n
      BY <1>1, <2>2, <2>4, <3>1 DEF SortInv, TopologicalOrder
    <3>2. CASE i \in 1..n /\ j = n + 1
      BY <1>6, <1>17, <2>2, <2>4, <3>2
    <3>3. CASE i = n + 1 /\ j \in 1..n
      BY <1>6, <1>18, <2>2, <2>4, <3>3
    <3>4. CASE i = n + 1 /\ j = n + 1
      BY <1>6, <1>19, <2>4, <3>4
    <3>5. QED
      BY <2>1, <3>1, <3>2, <3>3, <3>4
  <2>5. QED
    BY <1>2, <1>6, <2>3, <2>4 DEF TopologicalOrder
<1>21. QED
  BY <1>8, <1>9, <1>11, <1>12, <1>13, <1>15, <1>16, <1>20 DEF SortInv

(* No step of the sort breaks the invariant. *)
LEMMA NextSortInv == SortInv /\ [Next]_sortVars => SortInv'
<1>1. SUFFICES ASSUME SortInv, [Next]_sortVars PROVE SortInv'
  OBVIOUS
<1>2. CASE SkipPlaced
  BY <1>1, <1>2, SkipPlacedInv
<1>3. CASE Defer
  BY <1>1, <1>3, DeferInv
<1>4. CASE Place
  BY <1>1, <1>4, PlaceInv
<1>5. CASE UNCHANGED sortVars
  <2>1. UNCHANGED <<cfg, back_edges, sorted, to_visit>>
    BY <1>5 DEF sortVars
  <2>2. Queued' = Queued /\ to_visit' \in Seq(cfg.blocks)
    BY <1>1, <2>1 DEF Queued, SortInv, TypeOK
  <2>3. QED
    BY <1>1, <2>1, <2>2, SameListed
<1>6. QED
  BY <1>1, <1>2, <1>3, <1>4, <1>5 DEF Next

(* So it holds throughout. *)
LEMMA SortInvHolds == Spec => []SortInv
BY InitSortInv, NextSortInv, PTL DEF Spec

(* When the queue runs dry, the list is closed, and holds the entry: so it *)
(* holds what can run.                                                     *)
LEMMA LiveIsListed ==
  ASSUME SortInv, SortDone
  PROVE  Sorted = Live(cfg)
<1>1. Queued = {}
  BY DEF SortDone, Queued, ToSet
<1>2. cfg.entry \in Sorted /\ Closed(cfg, "none", Sorted)
  BY <1>1 DEF SortInv, NoneForgotten, Closed
<1>3. IsGraph(cfg)
  BY CfgIsGraph DEF SortInv, TypeOK
<1>4. Live(cfg) \subseteq Sorted
  BY <1>2, <1>3, VisitedLeast DEF Live
<1>5. QED
  BY <1>4 DEF SortInv

(* The queue and the list only hold blocks of the graph. *)
THEOREM SortTypes == Spec => []TypeOK
<1>1. SortInv => TypeOK
  BY DEF SortInv
<1>2. QED
  BY <1>1, SortInvHolds, PTL

(* At every moment the list is in topological order, loops aside.          *)
THEOREM SortIsTopological == Spec => []TopologicalOrder
<1>1. SortInv => TopologicalOrder
  BY DEF SortInv
<1>2. QED
  BY <1>1, SortInvHolds, PTL

(* When the sort ends, the blocks that can run are in the list, and no     *)
(* others.                                                                 *)
THEOREM SortIsComplete == Spec => []EveryLiveBlockPlaced
<1>1. SortInv => EveryLiveBlockPlaced
  BY LiveIsListed DEF EveryLiveBlockPlaced
<1>2. QED
  BY <1>1, SortInvHolds, PTL

-----------------------------------------------------------------------------
(* Loops in the list.                                                      *)

(***************************************************************************)
(* Why the list stays in a loop until all of it is listed. While a loop is *)
(* only listed in part, those of its blocks that could be listed are at    *)
(* the front of the queue with only blocks of the loop before them, and    *)
(* since there always is one of them, the sort does not get past.          *)
(***************************************************************************)
InFront(k, b) ==
  /\ \A i \in 1..k : SameComponent(cfg, b, to_visit[i])
  /\ \A c \in cfg.blocks \ Sorted :
       SameComponent(cfg, b, c) /\ ReadyToInsert(c) => \E i \in 1..k : to_visit[i] = c

StaysIn(b) ==
  \A i, j \in 1..Len(sorted) :
    i < j /\ SameComponent(cfg, b, sorted[i]) => SameComponent(cfg, b, sorted[j])

PartlyListed(b) == b \in Sorted /\ \E c \in cfg.blocks \ Sorted : SameComponent(cfg, b, c)

LoopInv ==
  /\ \A b \in Sorted :
       PartlyListed(b) => StaysIn(b) /\ \E k \in 0..Len(to_visit) : InFront(k, b)
  /\ LoopsContiguous

(* The graph the sort works on, and the two readings of what is ready.     *)
LEMMA SortGraph ==
  ASSUME SortInv
  PROVE  /\ IsShaderCfg(cfg) /\ IsCfg(cfg) /\ ReachedWithin(cfg, Sorted)
         /\ Sorted \subseteq Live(cfg) /\ Sorted \subseteq cfg.blocks
         /\ \A b : ReadyToInsert(b) <=> ReadyAfter(cfg, Sorted, b)
<1>1. cfg \in Shaders /\ back_edges = BackEdges(cfg) /\ IsCfg(cfg)
  BY DEF SortInv, FromShader, TypeOK
<1>2. IsShaderCfg(cfg)
  BY <1>1, ShadersAssumption
<1>3. ReachedWithin(cfg, Sorted)
  BY DEF SortInv, ListedWithout, ReachedWithin
<1>4. Sorted \subseteq Live(cfg)
  BY DEF SortInv
<1>5. Live(cfg) \subseteq cfg.blocks
  BY <1>1, CfgIsGraph, VisitedClosed DEF Live
<1>6. \A b : ReadyToInsert(b) <=> ReadyAfter(cfg, Sorted, b)
  BY <1>1 DEF ReadyToInsert, ReadyAfter
<1>7. QED
  BY <1>1, <1>2, <1>3, <1>4, <1>5, <1>6

(* The same after a step. *)
LEMMA SortGraphNext ==
  SortInv' => (/\ ReachedWithin(cfg, Sorted) /\ Sorted \subseteq Live(cfg)
               /\ \A b : ReadyToInsert(b) <=> ReadyAfter(cfg, Sorted, b))'
<1>1. SortInv => /\ ReachedWithin(cfg, Sorted) /\ Sorted \subseteq Live(cfg)
                 /\ \A b : ReadyToInsert(b) <=> ReadyAfter(cfg, Sorted, b)
  BY SortGraph
<1>2. QED
  BY <1>1, PTL

(* A loop that is listed in part has a block that is ready, so that one of *)
(* its blocks is the front of the queue.                                   *)
LEMMA FrontOfLoop ==
  ASSUME SortInv, NEW b, PartlyListed(b), NEW k \in 0..Len(to_visit), InFront(k, b)
  PROVE  k >= 1 /\ to_visit # << >> /\ SameComponent(cfg, b, Head(to_visit))
<1>1. PICK c \in cfg.blocks \ Sorted : SameComponent(cfg, b, c)
  BY DEF PartlyListed
<1>2. b \in Sorted /\ b \in Live(cfg)
  BY SortGraph DEF PartlyListed
<1>3. \E x \in cfg.blocks \ Sorted : SameComponent(cfg, b, x) /\ ReadyAfter(cfg, Sorted, x)
  BY <1>1, <1>2, SortGraph, SomeBlockIsReady
<1>4. \E i \in 1..k : SameComponent(cfg, b, to_visit[i])
  BY <1>3, SortGraph DEF InFront
<1>5. to_visit \in Seq(cfg.blocks) /\ Len(to_visit) \in Nat
  BY DEF SortInv, TypeOK
<1>6. k >= 1 /\ 1 \in 1..k
  BY <1>4, <1>5
<1>7. SameComponent(cfg, b, to_visit[1])
  BY <1>6 DEF InFront
<1>8. to_visit # << >> /\ Head(to_visit) = to_visit[1]
  BY <1>5, <1>6
<1>9. QED
  BY <1>6, <1>7, <1>8

(* Dropping a block that is listed, or one that is not ready, from the     *)
(* front of the queue leaves the rest of the loop in front.                *)
LEMMA FrontDropped ==
  ASSUME SortInv, LoopInv, to_visit # << >>, UNCHANGED <<cfg, back_edges, sorted>>,
         Head(to_visit) \in Sorted \/ ~ReadyToInsert(Head(to_visit)),
         Len(to_visit') \in Nat, Len(to_visit') >= Len(to_visit) - 1,
         \A i \in 1..(Len(to_visit) - 1) : to_visit'[i] = to_visit[i + 1]
  PROVE  LoopInv'
<1> DEFINE n == Len(to_visit)
<1>1. to_visit \in Seq(cfg.blocks) /\ n \in Nat /\ Head(to_visit) = to_visit[1]
  BY DEF SortInv, TypeOK
<1>2. Sorted' = Sorted /\ \A b : ReadyToInsert(b)' <=> ReadyToInsert(b)
  BY DEF Sorted, ReadyToInsert
<1>3. LoopsContiguous'
  BY DEF LoopInv, LoopsContiguous
<1>4. ASSUME NEW b \in Sorted, PartlyListed(b)
      PROVE  StaysIn(b)' /\ \E k \in 0..Len(to_visit') : InFront(k, b)'
  <2>1. StaysIn(b) /\ \E k \in 0..n : InFront(k, b)
    BY <1>4 DEF LoopInv
  <2>2. StaysIn(b)'
    BY <2>1 DEF StaysIn
  <2>3. PICK k \in 0..n : InFront(k, b)
    BY <2>1
  <2>4. k >= 1
    BY <1>4, <2>3, FrontOfLoop
  <2> DEFINE l == k - 1
  <2>5. l \in 0..Len(to_visit') /\ \A i \in 1..l : i + 1 \in 1..k /\ to_visit'[i] = to_visit[i + 1]
    BY <1>1, <2>4
  <2>6. \A i \in 1..l : SameComponent(cfg, b, to_visit'[i])
    BY <2>3, <2>5 DEF InFront
  <2>7. ASSUME NEW c \in cfg.blocks \ Sorted, SameComponent(cfg, b, c), ReadyToInsert(c)
        PROVE  \E i \in 1..l : to_visit'[i] = c
    <3>1. PICK i \in 1..k : to_visit[i] = c
      BY <2>3, <2>7 DEF InFront
    <3>2. i # 1
      BY <1>1, <2>7, <3>1
    <3>3. i - 1 \in 1..l /\ (i - 1) + 1 = i /\ i - 1 \in 1..(n - 1)
      BY <1>1, <3>2
    <3>4. to_visit'[i - 1] = c
      BY <3>1, <3>3
    <3>5. QED
      BY <3>3, <3>4
  <2>8. InFront(l, b)'
    BY <1>2, <2>6, <2>7 DEF InFront
  <2>9. QED
    BY <2>2, <2>5, <2>8
<1>5. \A b : PartlyListed(b)' <=> PartlyListed(b)
  BY <1>2 DEF PartlyListed
<1>6. QED
  BY <1>2, <1>3, <1>4, <1>5 DEF LoopInv

(* Skipping a listed block keeps the loop invariant. *)
LEMMA SkipPlacedLoop == SortInv /\ LoopInv /\ SkipPlaced => LoopInv'
<1>1. SUFFICES ASSUME SortInv, LoopInv, SkipPlaced PROVE LoopInv'
  OBVIOUS
<1>2. /\ to_visit # << >> /\ Head(to_visit) \in Sorted
      /\ to_visit' = Tail(to_visit) /\ UNCHANGED <<cfg, back_edges, sorted>>
  BY <1>1 DEF SkipPlaced
<1>3. to_visit \in Seq(cfg.blocks)
  BY <1>1 DEF SortInv, TypeOK
<1>4. /\ Len(to_visit') \in Nat /\ Len(to_visit') >= Len(to_visit) - 1
      /\ \A i \in 1..(Len(to_visit) - 1) : to_visit'[i] = to_visit[i + 1]
  BY <1>2, <1>3
<1>5. QED
  BY <1>1, <1>2, <1>4, FrontDropped

(* So does putting off a block that is not ready. *)
LEMMA DeferLoop == SortInv /\ LoopInv /\ Defer => LoopInv'
<1>1. SUFFICES ASSUME SortInv, LoopInv, Defer PROVE LoopInv'
  OBVIOUS
<1> DEFINE rest == Tail(to_visit)
           bb == Head(to_visit)
<1>2. /\ to_visit # << >> /\ ~ReadyToInsert(bb)
      /\ to_visit' = Append(rest, bb)
      /\ UNCHANGED <<cfg, back_edges, sorted>>
  BY <1>1 DEF Defer
<1>3. to_visit \in Seq(cfg.blocks)
  BY <1>1 DEF SortInv, TypeOK
<1>4. /\ Len(to_visit) \in Nat /\ rest \in Seq(cfg.blocks) /\ Len(rest) = Len(to_visit) - 1
      /\ \A i \in 1..Len(rest) : rest[i] = to_visit[i + 1]
      /\ bb \in cfg.blocks
  BY <1>2, <1>3
<1> HIDE DEF rest, bb
<1>5. /\ Len(Append(rest, bb)) = Len(rest) + 1
      /\ \A i \in 1..Len(rest) : Append(rest, bb)[i] = rest[i]
  BY <1>4
<1>6. /\ Len(to_visit') \in Nat /\ Len(to_visit') >= Len(to_visit) - 1
      /\ \A i \in 1..(Len(to_visit) - 1) : to_visit'[i] = to_visit[i + 1]
  BY <1>2, <1>4, <1>5
<1>7. QED
  BY <1>1, <1>2, <1>6, FrontDropped DEF bb

(* What Place does to the front of the queue when the placed block is in a *)
(* loop: its successors in the loop come before what was queued.           *)
LEMMA PlaceFront ==
  ASSUME SortInv, Place, NEW d \in cfg.out[Head(to_visit)], Reachable(cfg, d, Head(to_visit))
  PROVE  LET bb == Head(to_visit)
             rest == Tail(to_visit)
         IN  \E m \in Nat :
               /\ m + Len(rest) <= Len(to_visit')
               /\ \A i \in 1..m : to_visit'[i] \in cfg.out[bb] /\ Reachable(cfg, to_visit'[i], bb)
               /\ \A c \in cfg.out[bb] : Reachable(cfg, c, bb) => \E i \in 1..m : to_visit'[i] = c
               /\ \A j \in 1..Len(rest) : to_visit'[m + j] = rest[j]
<1> DEFINE bb == Head(to_visit)
           rest == Tail(to_visit)
           reachables == {out \in cfg.out[bb] : Reachable(cfg, out, bb)}
           unreachables == cfg.out[bb] \ reachables
<1>1. PICK r \in SetToSeqs(reachables), u \in SetToSeqs(unreachables) :
        to_visit' = IF reachables # {} THEN r \o rest \o u ELSE u \o rest
  BY DEF Place
<1>2. bb \in cfg.blocks /\ rest \in Seq(cfg.blocks)
  BY FrontOfQueue DEF Place
<1>3. cfg.out[bb] \subseteq cfg.blocks /\ IsFiniteSet(cfg.out[bb])
  BY <1>2, CfgIsGraph DEF SortInv, TypeOK
<1>4. reachables # {}
  OBVIOUS
<1>5. reachables \subseteq cfg.out[bb] /\ unreachables \subseteq cfg.out[bb]
  OBVIOUS
<1>6. \A c : c \in reachables <=> c \in cfg.out[bb] /\ Reachable(cfg, c, bb)
  OBVIOUS
<1> HIDE DEF bb, rest, reachables, unreachables
<1>7. IsFiniteSet(reachables) /\ IsFiniteSet(unreachables)
  BY <1>3, <1>5, FS_Subset
<1>8. r \in Seq(reachables) /\ ToSet(r) = reachables /\ u \in Seq(unreachables)
  BY <1>7, ToSetOfSet
<1>9. r \in Seq(cfg.blocks) /\ u \in Seq(cfg.blocks)
  BY <1>3, <1>5, <1>8
<1>10. \A y : y \in reachables <=> \E i \in 1..Len(r) : r[i] = y
  BY <1>8, InToSet
<1> DEFINE front == r \o rest
<1>11. /\ front \in Seq(cfg.blocks) /\ Len(front) = Len(r) + Len(rest)
       /\ \A i \in 1..(Len(r) + Len(rest)) : front[i] = IF i <= Len(r) THEN r[i] ELSE rest[i - Len(r)]
  BY <1>2, <1>9, ConcatProperties, Zenon
<1>12. front \in Seq(cfg.blocks) /\ u \in Seq(cfg.blocks)
  BY <1>9, <1>11
<1>13. to_visit' = front \o u
  BY <1>1, <1>4, Zenon
<1> HIDE DEF front
<1>14. /\ Len(front \o u) = Len(front) + Len(u)
       /\ \A i \in 1..(Len(front) + Len(u)) :
            (front \o u)[i] = IF i <= Len(front) THEN front[i] ELSE u[i - Len(front)]
  BY <1>12, ConcatProperties, Zenon
<1>15. Len(r) \in Nat /\ Len(rest) \in Nat /\ Len(u) \in Nat
  BY <1>2, <1>9
<1>16. \A i \in 1..Len(r) : to_visit'[i] = r[i]
  <2>1. TAKE i \in 1..Len(r)
  <2>2. i \in 1..(Len(r) + Len(rest)) /\ i <= Len(front) /\ i \in 1..(Len(front) + Len(u)) /\ i <= Len(r)
    BY <1>11, <1>15
  <2>3. (front \o u)[i] = front[i] /\ front[i] = r[i]
    BY <1>11, <1>14, <2>2
  <2>4. QED
    BY <1>13, <2>3
<1>17. \A j \in 1..Len(rest) : to_visit'[Len(r) + j] = rest[j]
  <2>1. TAKE j \in 1..Len(rest)
  <2>2. /\ Len(r) + j \in 1..(Len(r) + Len(rest)) /\ Len(r) + j <= Len(front)
        /\ Len(r) + j \in 1..(Len(front) + Len(u)) /\ ~(Len(r) + j <= Len(r))
        /\ (Len(r) + j) - Len(r) = j
    BY <1>11, <1>15
  <2>3. (front \o u)[Len(r) + j] = front[Len(r) + j] /\ front[Len(r) + j] = rest[j]
    BY <1>11, <1>14, <2>2
  <2>4. QED
    BY <1>13, <2>3
<1>18. Len(r) + Len(rest) <= Len(to_visit')
  BY <1>11, <1>13, <1>14, <1>15
<1>19. \A i \in 1..Len(r) : to_visit'[i] \in cfg.out[bb] /\ Reachable(cfg, to_visit'[i], bb)
  BY <1>6, <1>10, <1>16
<1>20. \A c \in cfg.out[bb] : Reachable(cfg, c, bb) => \E i \in 1..Len(r) : to_visit'[i] = c
  BY <1>6, <1>10, <1>16
<1>21. QED
  BY <1>15, <1>17, <1>18, <1>19, <1>20 DEF bb, rest

(* Placing a block keeps the loop invariant: the block is in every loop    *)
(* that is listed in part, and if it is the first of its loop, the blocks  *)
(* of the loop that are ready after it are its successors.                 *)
LEMMA PlaceLoop == SortInv /\ LoopInv /\ Place => LoopInv'
<1>1. SUFFICES ASSUME SortInv, LoopInv, Place PROVE LoopInv'
  OBVIOUS
<1> DEFINE bb == Head(to_visit)
           rest == Tail(to_visit)
           n == Len(sorted)
<1>2. /\ to_visit # << >> /\ bb \notin Sorted /\ ReadyToInsert(bb)
      /\ UNCHANGED <<cfg, back_edges>>
  BY <1>1 DEF Place
<1>3. sorted' = Append(sorted, bb) /\ Sorted' = Sorted \cup {bb} /\ to_visit' \in Seq(cfg.blocks)
  BY <1>1, PlaceQueues
<1>4. SortInv'
  BY <1>1, PlaceInv
<1>5. bb \in cfg.blocks /\ to_visit \in Seq(cfg.blocks) /\ sorted \in Seq(cfg.blocks)
  BY <1>1, <1>2, FrontOfQueue DEF SortInv, TypeOK
<1>6. /\ Len(to_visit) \in Nat \ {0} /\ bb = to_visit[1] /\ Len(rest) = Len(to_visit) - 1
      /\ \A i \in 1..Len(rest) : rest[i] = to_visit[i + 1]
      /\ Len(to_visit') \in Nat
  BY <1>2, <1>3, <1>5
<1>7. /\ n \in Nat /\ Len(sorted') = n + 1
      /\ \A i \in 1..n : sorted'[i] = sorted[i] /\ sorted[i] \in Sorted
      /\ sorted'[n + 1] = bb
  <2>1. \A i \in 1..n : sorted[i] \in Sorted
    BY <1>5, InToSet DEF Sorted
  <2>2. QED
    BY <1>3, <1>5, <2>1
<1>8. /\ IsShaderCfg(cfg) /\ IsCfg(cfg) /\ Sorted \subseteq cfg.blocks
      /\ \A b : ReadyToInsert(b) <=> ReadyAfter(cfg, Sorted, b)
  BY <1>1, SortGraph
<1>9. /\ ReachedWithin(cfg, Sorted \cup {bb}) /\ bb \in Live(cfg)
      /\ \A b : ReadyToInsert(b)' <=> ReadyAfter(cfg, Sorted \cup {bb}, b)
  <2>1. (/\ ReachedWithin(cfg, Sorted) /\ Sorted \subseteq Live(cfg)
         /\ \A b : ReadyToInsert(b) <=> ReadyAfter(cfg, Sorted, b))'
    BY <1>4, SortGraphNext
  <2>2. QED
    BY <1>2, <1>3, <1>4, <2>1 DEF ReachedWithin, ReadyAfter
<1>10. SameComponent(cfg, bb, bb)
  BY <1>5, <1>8, ComponentsDivide
<1>11. \A b \in cfg.blocks : \A c : SameComponent(cfg, b, c) =>
         /\ c \in cfg.blocks /\ SameComponent(cfg, c, b)
         /\ \A x : SameComponent(cfg, c, x) => SameComponent(cfg, b, x)
  BY <1>8, ComponentsDivide
<1> HIDE DEF bb, rest, n
(* bb is in every loop that is listed in part. *)
<1>12. \A b \in Sorted : PartlyListed(b) => SameComponent(cfg, b, bb)
  BY <1>1, FrontOfLoop DEF LoopInv, bb
<1>13. ASSUME NEW b \in Sorted', NEW c \in cfg.blocks \ Sorted', SameComponent(cfg, b, c)
       PROVE  StaysIn(b)' /\ \E k \in 0..Len(to_visit') : InFront(k, b)'
  <2>1. b \in cfg.blocks /\ c \in cfg.blocks \ Sorted /\ c # bb
    BY <1>3, <1>5, <1>8, <1>13
  <2>2. SameComponent(cfg, b, bb)
    BY <1>3, <1>10, <1>12, <1>13, <2>1 DEF PartlyListed
  <2>3. \A x : SameComponent(cfg, b, x) <=> SameComponent(cfg, bb, x)
    BY <1>5, <1>11, <2>1, <2>2
  <2>4. SameComponent(cfg, bb, c)
    BY <1>13, <2>3
  <2>5. \E d \in cfg.out[bb] : SameComponent(cfg, bb, d)
    BY <1>5, <1>8, <2>1, <2>4, LoopGoesOn
  <2>6. \E d \in cfg.out[bb] : Reachable(cfg, d, bb)
    BY <2>5 DEF SameComponent
  <2>7. PICK m \in Nat :
          /\ m + Len(rest) <= Len(to_visit')
          /\ \A i \in 1..m : to_visit'[i] \in cfg.out[bb] /\ Reachable(cfg, to_visit'[i], bb)
          /\ \A x \in cfg.out[bb] : Reachable(cfg, x, bb) => \E i \in 1..m : to_visit'[i] = x
          /\ \A j \in 1..Len(rest) : to_visit'[m + j] = rest[j]
    BY <1>1, <2>6, PlaceFront DEF bb, rest
  <2>8. \A i \in 1..m : SameComponent(cfg, bb, to_visit'[i])
    BY <1>5, <1>8, <2>7, Reaching DEF SameComponent
  <2>9. \A x \in cfg.out[bb] : SameComponent(cfg, bb, x) => \E i \in 1..m : to_visit'[i] = x
    BY <2>7 DEF SameComponent
  <2>10. CASE \E b0 \in Sorted : SameComponent(cfg, bb, b0)
    <3>1. PICK b0 \in Sorted : SameComponent(cfg, bb, b0)
      BY <2>10
    <3>2. \A x : SameComponent(cfg, b0, x) <=> SameComponent(cfg, bb, x)
      BY <1>5, <1>8, <1>11, <3>1
    <3>3. PartlyListed(b0)
      BY <1>2, <1>5, <1>10, <3>1, <3>2 DEF PartlyListed
    <3>4. StaysIn(b0) /\ \E k \in 0..Len(to_visit) : InFront(k, b0)
      BY <1>1, <3>1, <3>3 DEF LoopInv
    <3>5. PICK k \in 0..Len(to_visit) : InFront(k, b0)
      BY <3>4
    <3>6. k >= 1
      BY <1>1, <3>3, <3>5, FrontOfLoop
    <3> DEFINE l == m + (k - 1)
    <3>7. /\ l \in 0..Len(to_visit')
          /\ \A i \in 1..l : i \in 1..m \/ (i - m \in 1..Len(rest) /\ (i - m) + 1 \in 1..k /\ m + (i - m) = i)
          /\ \A i \in 2..k : i - 1 \in 1..Len(rest) /\ m + (i - 1) \in 1..l /\ (i - 1) + 1 = i
          /\ \A i \in 1..m : i \in 1..l
      BY <1>6, <2>7, <3>6
    <3>8. \A i \in 1..l : SameComponent(cfg, bb, to_visit'[i])
      <4>1. SUFFICES ASSUME NEW i \in 1..l, i \notin 1..m PROVE SameComponent(cfg, bb, to_visit'[i])
        BY <2>8
      <4>2. i - m \in 1..Len(rest) /\ (i - m) + 1 \in 1..k /\ m + (i - m) = i
        BY <3>7, <4>1
      <4>3. to_visit'[i] = to_visit[(i - m) + 1]
        BY <1>6, <2>7, <4>2
      <4>4. QED
        BY <3>2, <3>5, <4>2, <4>3 DEF InFront
    <3>9. ASSUME NEW x \in cfg.blocks \ (Sorted \cup {bb}), SameComponent(cfg, bb, x),
                 ReadyAfter(cfg, Sorted \cup {bb}, x)
          PROVE  \E i \in 1..l : to_visit'[i] = x
      <4>1. CASE ReadyAfter(cfg, Sorted, x)
        <5>1. PICK i \in 1..k : to_visit[i] = x
          BY <1>8, <3>2, <3>5, <3>9, <4>1 DEF InFront
        <5>2. i \in 2..k
          BY <1>6, <3>9, <5>1
        <5>3. to_visit'[m + (i - 1)] = x
          BY <1>6, <2>7, <3>7, <5>1, <5>2
        <5>4. QED
          BY <3>7, <5>2, <5>3
      <4>2. CASE ~ReadyAfter(cfg, Sorted, x)
        <5>1. x \in cfg.out[bb]
          BY <3>9, <4>2 DEF ReadyAfter, InBlocks
        <5>2. QED
          BY <2>9, <3>7, <3>9, <5>1
      <4>3. QED
        BY <4>1, <4>2
    <3>10. InFront(l, b)'
      BY <1>2, <1>3, <1>9, <2>3, <3>8, <3>9 DEF InFront
    <3>11. StaysIn(b)'
      <4>1. SUFFICES ASSUME NEW i \in 1..(n + 1), NEW j \in 1..(n + 1), i < j,
                            SameComponent(cfg, bb, sorted'[i])
                     PROVE  SameComponent(cfg, bb, sorted'[j])
        BY <1>2, <1>7, <2>3 DEF StaysIn
      <4>2. i \in 1..n /\ (j \in 1..n \/ j = n + 1)
        BY <1>7, <4>1
      <4>3. CASE j = n + 1
        BY <1>7, <1>10, <4>3
      <4>4. CASE j \in 1..n
        BY <1>7, <3>2, <3>4, <4>1, <4>2, <4>4 DEF StaysIn, n
      <4>5. QED
        BY <4>2, <4>3, <4>4
    <3>12. QED
      BY <3>7, <3>10, <3>11
  <2>11. CASE \A b0 \in Sorted : ~SameComponent(cfg, bb, b0)
    <3>1. \A x \in Sorted \cup {bb} : SameComponent(cfg, bb, x) => x = bb
      BY <2>11
    <3>2. ASSUME NEW x \in cfg.blocks \ (Sorted \cup {bb}), SameComponent(cfg, bb, x),
                 ReadyAfter(cfg, Sorted \cup {bb}, x)
          PROVE  \E i \in 1..m : to_visit'[i] = x
      <4>1. x \in cfg.out[bb]
        BY <1>8, <1>9, <3>1, <3>2, ReadyAfterHeader
      <4>2. QED
        BY <2>9, <3>2, <4>1
    <3>3. InFront(m, b)'
      BY <1>2, <1>3, <1>9, <2>3, <2>8, <3>2 DEF InFront
    <3>4. m \in 0..Len(to_visit')
      BY <1>6, <2>7
    <3>5. StaysIn(b)'
      <4>1. SUFFICES ASSUME NEW i \in 1..(n + 1), NEW j \in 1..(n + 1), i < j,
                            SameComponent(cfg, bb, sorted'[i])
                     PROVE  FALSE
        BY <1>2, <1>7, <2>3 DEF StaysIn
      <4>2. i \in 1..n
        BY <1>7, <4>1
      <4>3. QED
        BY <1>7, <2>11, <4>1, <4>2
    <3>6. QED
      BY <3>3, <3>4, <3>5
  <2>12. QED
    BY <2>10, <2>11
<1>14. LoopsContiguous'
  <2>1. SUFFICES ASSUME NEW i \in 1..(n + 1), NEW j \in 1..(n + 1), NEW k \in 1..(n + 1), i < j, j < k,
                        SameComponent(cfg, sorted'[i], sorted'[k])
                 PROVE  SameComponent(cfg, sorted'[i], sorted'[j])
    BY <1>2, <1>7 DEF LoopsContiguous
  <2>2. i \in 1..n /\ j \in 1..n /\ (k \in 1..n \/ k = n + 1)
    BY <1>7, <2>1
  <2>3. CASE k \in 1..n
    BY <1>1, <1>7, <2>1, <2>2, <2>3 DEF LoopInv, LoopsContiguous, n
  <2>4. CASE k = n + 1
    <3> DEFINE b == sorted[i]
    <3>1. b \in Sorted /\ SameComponent(cfg, b, bb) /\ PartlyListed(b)
      BY <1>2, <1>5, <1>7, <2>1, <2>2, <2>4 DEF PartlyListed
    <3>2. StaysIn(b) /\ SameComponent(cfg, b, b)
      BY <1>1, <1>8, <3>1, ComponentsDivide DEF LoopInv
    <3>3. SameComponent(cfg, b, sorted[j])
      BY <2>1, <2>2, <3>2 DEF StaysIn, n
    <3>4. QED
      BY <1>7, <2>2, <3>3
  <2>5. QED
    BY <2>2, <2>3, <2>4
<1>15. QED
  BY <1>2, <1>13, <1>14 DEF LoopInv, PartlyListed

(* No step of the sort breaks the loop invariant. *)
LEMMA NextLoopInv == SortInv /\ LoopInv /\ [Next]_sortVars => LoopInv'
<1>1. SUFFICES ASSUME SortInv, LoopInv, [Next]_sortVars PROVE LoopInv'
  OBVIOUS
<1>2. CASE SkipPlaced
  BY <1>1, <1>2, SkipPlacedLoop
<1>3. CASE Defer
  BY <1>1, <1>3, DeferLoop
<1>4. CASE Place
  BY <1>1, <1>4, PlaceLoop
<1>5. CASE UNCHANGED sortVars
  <2>1. UNCHANGED <<cfg, back_edges, sorted, to_visit>>
    BY <1>5 DEF sortVars
  <2>2. QED
    BY <1>1, <2>1 DEF LoopInv, LoopsContiguous, PartlyListed, StaysIn, InFront, Sorted, ReadyToInsert
<1>6. QED
  BY <1>1, <1>2, <1>3, <1>4, <1>5 DEF Next

(* At first no block is listed, so no loop is. *)
LEMMA InitLoopInv == Init => LoopInv
<1>1. Init => Sorted = {} /\ Len(sorted) = 0
  BY DEF Init, Sorted, ToSet
<1>2. QED
  BY <1>1 DEF LoopInv, LoopsContiguous

(* The loop invariant holds at every moment of the sort. *)
LEMMA LoopInvHolds == Spec => [](SortInv /\ LoopInv)
BY InitLoopInv, InitSortInv, NextSortInv, NextLoopInv, PTL DEF Spec

(* Once the list enters a loop it stays in it until the loop is complete:  *)
(* no block of the code behind a loop is listed between two of its blocks. *)
THEOREM LoopsStayTogether == Spec => []LoopsContiguous
<1>1. LoopInv => LoopsContiguous
  BY DEF LoopInv
<1>2. QED
  BY <1>1, LoopInvHolds, PTL


-----------------------------------------------------------------------------
(* The masked code on the list of the sort. What MaskMachineProofs says of *)
(* any linear list is cited as MP.                                         *)

MP == INSTANCE MaskMachineProofs WITH Programs <- {}, Terminator <- "terminator"

(* MaskMachine is the same under both names. *)
LEMMA SameNext == [Machine!Next]_machineVars <=> [MP!Next]_MP!vars
<1>1. Machine!Dispatch <=> MP!Dispatch
  BY DEF Machine!Dispatch, MP!Dispatch, Machine!Done, MP!Done
<1>2. Machine!BranchConditional <=> MP!BranchConditional
  BY DEF Machine!BranchConditional, MP!BranchConditional,
         Machine!Done, MP!Done, Machine!MovedMasks, MP!MovedMasks, Machine!Waiting, MP!Waiting
<1>3. Machine!Branch <=> MP!Branch
  BY DEF Machine!Branch, MP!Branch,
         Machine!Done, MP!Done, Machine!MovedMasks, MP!MovedMasks, Machine!Waiting, MP!Waiting
<1>4. Machine!Return <=> MP!Return
  BY DEF Machine!Return, MP!Return, Machine!Done, MP!Done, Machine!Waiting, MP!Waiting
<1>5. Machine!Next <=> MP!Next
  BY <1>1, <1>2, <1>3, <1>4 DEF Machine!Next, MP!Next
<1>6. QED
  BY <1>5 DEF machineVars, MP!vars


(* The list as a program: it numbers the listed blocks in order.           *)
LEMMA ListFields ==
  ASSUME SortInv
  PROVE  /\ List.blocks = Sorted /\ List.entry = cfg.entry
         /\ List.out = [b \in Sorted |-> cfg.out[b]]
         /\ List.back = {e \in back_edges : e[1] \in Sorted}
         /\ DOMAIN List.id = Sorted
         /\ \A i \in 1..Len(sorted) : List.id[sorted[i]] = i
         /\ List.next = [b \in Sorted |-> IF List.id[b] = Len(sorted)
                                            THEN "terminator" ELSE sorted[List.id[b] + 1]]
<1> DEFINE listed == {sorted[i] : i \in 1..Len(sorted)}
           at == [b \in listed |-> CHOOSE i \in 1..Len(sorted) : sorted[i] = b]
<1>1. listed = Sorted
  BY InToSet DEF SortInv, TypeOK, Sorted
<1>2. List = [blocks |-> listed, entry |-> cfg.entry,
              out |-> [b \in listed |-> cfg.out[b]],
              back |-> {e \in back_edges : e[1] \in listed},
              id |-> at,
              next |-> [b \in listed |-> IF at[b] = Len(sorted) THEN "terminator" ELSE sorted[at[b] + 1]]]
  BY DEF List, Threaded
<1>3. \A i \in 1..Len(sorted) : at[sorted[i]] = i
  <2>1. TAKE i \in 1..Len(sorted)
  <2>2. \A j \in 1..Len(sorted) : sorted[j] = sorted[i] => j = i
    BY DEF SortInv, TopologicalOrder
  <2>3. sorted[i] \in listed
    OBVIOUS
  <2>4. (CHOOSE j \in 1..Len(sorted) : sorted[j] = sorted[i]) = i
    BY <2>2
  <2>5. QED
    BY <2>3, <2>4
<1>4. DOMAIN at = listed
  OBVIOUS
<1> HIDE DEF listed, at
<1>5. QED
  BY <1>1, <1>2, <1>3, <1>4

(* A block with two successors has two.                                    *)
LEMMA TwoSuccessors ==
  ASSUME NEW g, IsCfg(g), NEW b \in g.blocks, NEW d \in g.out[b], NEW e \in g.out[b], d # e
  PROVE  Cardinality(g.out[b]) = 2
<1>1. IsFiniteSet(g.out[b]) /\ Cardinality(g.out[b]) <= 2
  BY CfgIsGraph DEF IsCfg
<1>2. IsFiniteSet({d}) /\ Cardinality({d}) = 1
  BY FS_Singleton
<1>3. Cardinality({d} \cup {e}) = 2
  <2> DEFINE one == {d}
  <2>1. IsFiniteSet(one) /\ Cardinality(one) = 1 /\ e \notin one
    BY <1>2
  <2> HIDE DEF one
  <2>2. Cardinality(one \cup {e}) = IF e \in one THEN Cardinality(one) ELSE Cardinality(one) + 1
    BY <2>1, FS_AddElement
  <2>3. Cardinality(one \cup {e}) = 2
    BY <2>1, <2>2
  <2>4. QED
    BY <2>3 DEF one
<1>4. {d} \cup {e} \in SUBSET g.out[b]
  OBVIOUS
<1>5. Cardinality({d} \cup {e}) <= Cardinality(g.out[b])
  BY <1>1, <1>4, FS_Subset
<1>6. Cardinality(g.out[b]) \in Nat
  BY <1>1, FS_CardinalityType
<1>7. QED
  BY <1>1, <1>3, <1>5, <1>6

(* The list the sort leaves behind is one the masked code can run. *)
LEMMA ListLinear ==
  ASSUME SortInv, SortDone, CompileAssertions
  PROVE  MP!IsLinear(List)
<1> DEFINE n == Len(sorted)
           p == List
<1>1. /\ IsCfg(cfg) /\ IsGraph(cfg) /\ "terminator" \notin cfg.blocks
      /\ \A b \in cfg.blocks : cfg.out[b] \subseteq cfg.blocks
  BY CfgIsGraph DEF SortInv, TypeOK
<1>2. sorted \in Seq(cfg.blocks) /\ n \in Nat
  BY DEF SortInv, TypeOK
<1>3. /\ Sorted \subseteq cfg.blocks
      /\ \A b \in Sorted : \E i \in 1..n : sorted[i] = b
      /\ \A i \in 1..n : sorted[i] \in Sorted
  <2>1. \A y : y \in Sorted <=> \E i \in 1..n : sorted[i] = y
    BY <1>2, InToSet DEF Sorted
  <2>2. \A i \in 1..n : sorted[i] \in cfg.blocks
    BY <1>2
  <2>3. QED
    BY <2>1, <2>2
<1>4. Queued = {}
  BY DEF SortDone, Queued, ToSet
<1>5. cfg.entry \in Sorted /\ \A b \in Sorted : cfg.out[b] \subseteq Sorted
  BY <1>4 DEF SortInv, NoneForgotten
<1>6. /\ p.blocks = Sorted /\ p.entry = cfg.entry
      /\ p.out = [b \in Sorted |-> cfg.out[b]]
      /\ p.back = {e \in back_edges : e[1] \in Sorted}
      /\ DOMAIN p.id = Sorted
      /\ \A i \in 1..n : p.id[sorted[i]] = i
      /\ p.next = [b \in Sorted |-> IF p.id[b] = n THEN "terminator" ELSE sorted[p.id[b] + 1]]
  BY ListFields
<1> HIDE DEF p, n
<1>7. \A b \in Sorted : p.id[b] \in 1..n /\ sorted[p.id[b]] = b
  <2>1. TAKE b \in Sorted
  <2>2. PICK i \in 1..n : sorted[i] = b
    BY <1>3
  <2>3. QED
    BY <1>6, <2>2
<1>8. IsFiniteSet(p.blocks) /\ "terminator" \notin p.blocks /\ p.entry \in p.blocks
  <2>1. IsFiniteSet(Sorted)
    BY <1>1, <1>3, FS_Subset DEF IsGraph
  <2>2. QED
    BY <1>1, <1>3, <1>5, <1>6, <2>1
<1>9. p.out \in [p.blocks -> SUBSET p.blocks]
  BY <1>5, <1>6
<1>10. p.id \in [p.blocks -> Nat]
  <2>1. p.id = [b \in Sorted |-> p.id[b]]
    BY ListFields DEF p, List, Threaded
  <2>2. \A b \in Sorted : p.id[b] \in Nat
    BY <1>2, <1>7
  <2>3. QED
    BY <1>6, <2>1, <2>2
<1>11. \A b, c \in p.blocks : p.id[b] = p.id[c] => b = c
  BY <1>6, <1>7
<1>12. \A b \in Sorted : p.id[b] # n => p.id[b] + 1 \in 1..n
  BY <1>2, <1>7
<1>13. p.next \in [p.blocks -> p.blocks \cup {"terminator"}]
  BY <1>3, <1>6, <1>12
<1>14. ASSUME NEW b \in p.blocks, p.next[b] # "terminator" PROVE p.id[p.next[b]] = p.id[b] + 1
  <2>1. b \in Sorted /\ p.id[b] # n /\ p.next[b] = sorted[p.id[b] + 1]
    BY <1>6, <1>14
  <2>2. QED
    BY <1>6, <1>12, <2>1
<1>15. ASSUME NEW b \in p.blocks, p.next[b] = "terminator", NEW c \in p.blocks PROVE p.id[c] <= p.id[b]
  <2>1. b \in Sorted /\ c \in Sorted
    BY <1>6
  <2>2. p.id[b] = n
    <3>1. p.id[b] # n => p.next[b] \in Sorted
      BY <1>3, <1>6, <1>12, <2>1
    <3>2. "terminator" \notin Sorted
      BY <1>1, <1>3
    <3>3. QED
      BY <1>15, <3>1, <3>2
  <2>3. QED
    BY <1>2, <1>7, <2>1, <2>2
<1>16. ASSUME NEW b \in p.blocks, NEW d \in p.out[b]
       PROVE  IF <<b, d>> \in p.back
                THEN p.id[d] < p.id[b] /\ p.out[b] = {d}
                ELSE p.id[b] < p.id[d]
  <2>1. b \in Sorted /\ d \in cfg.out[b] /\ p.out[b] = cfg.out[b] /\ d \in Sorted /\ b \in cfg.blocks
    BY <1>3, <1>5, <1>6
  <2>2. <<b, d>> \in p.back <=> <<b, d>> \in back_edges
    BY <1>6, <2>1
  <2>3. p.id[b] \in 1..n /\ p.id[d] \in 1..n /\ sorted[p.id[b]] = b /\ sorted[p.id[d]] = d
    BY <1>7, <2>1
  <2>4. IF <<b, d>> \in back_edges THEN p.id[d] <= p.id[b] ELSE p.id[b] < p.id[d]
    BY <2>1, <2>3 DEF SortInv, TopologicalOrder, n
  <2>5. CASE <<b, d>> \in back_edges
    <3>1. b # d
      BY <2>1, ShadersAssumption DEF SortInv, FromShader, IsShaderCfg
    <3>2. p.id[d] # p.id[b] /\ p.id[d] \in Nat /\ p.id[b] \in Nat
      BY <1>2, <2>3, <3>1
    <3>3. p.id[d] < p.id[b]
      BY <2>4, <2>5, <3>2
    <3>4. Cardinality(cfg.out[b]) # 2
      BY <2>1, <2>5 DEF CompileAssertions
    <3>5. \A e \in cfg.out[b] : e = d
      BY <1>1, <2>1, <3>4, TwoSuccessors
    <3>6. QED
      BY <2>1, <2>2, <2>5, <3>3, <3>5
  <2>6. QED
    BY <2>2, <2>4, <2>5
<1>17. MP!IsLinear(p)
  <2>1. \A b \in p.blocks :
          /\ p.next[b] # "terminator" => p.id[p.next[b]] = p.id[b] + 1
          /\ p.next[b] = "terminator" => \A c \in p.blocks : p.id[c] <= p.id[b]
          /\ \A d \in p.out[b] : IF <<b, d>> \in p.back
                                THEN p.id[d] < p.id[b] /\ p.out[b] = {d}
                                ELSE p.id[b] < p.id[d]
    BY <1>14, <1>15, <1>16
  <2>2. MP!IsFiniteSet(p.blocks)
    BY <1>8 DEF IsFiniteSet, MP!IsFiniteSet
  <2>3. QED
    BY <1>8, <1>9, <1>10, <1>11, <1>13, <2>1, <2>2, Zenon DEF MP!IsLinear
<1>18. QED
  BY <1>17 DEF p


(***************************************************************************)
(* The invariant of the vectorizer: the sort's until the blocks are        *)
(* listed; then the machine's, on that list.                               *)
(***************************************************************************)
MachineInv ==
  /\ phase \in {"sort", "run", "aborted"}
  /\ phase # "run" => enabled \in SUBSET Lanes /\ mode = "run" /\ cur = cfg.entry
  /\ phase = "run" => SortDone /\ prog = List /\ MP!IndInv

(* The machine starts on a list that it can run. *)
LEMMA LowerStarts ==
  ASSUME SortInv, MachineInv, Lower
  PROVE  MP!Started'
<1>1. /\ phase = "sort" /\ SortDone /\ CompileAssertions
      /\ prog' = List /\ mask' = Machine!EntryMasks(prog', enabled)
      /\ UNCHANGED <<cfg, back_edges, to_visit, sorted, enabled, mode, cur>>
  BY DEF Lower
<1>2. MP!IsLinear(List)
  BY <1>1, ListLinear
<1>3. List.entry = cfg.entry
  BY ListFields
<1>4. MP!IsLinear(prog)'
  BY <1>1, <1>2
<1>5. (mask = MP!EntryMasks(prog, enabled))'
  BY <1>1 DEF Machine!EntryMasks, MP!EntryMasks
<1>6. (enabled \in SUBSET Lanes /\ mode = "run" /\ cur = prog.entry)'
  BY <1>1, <1>3 DEF MachineInv
<1>7. QED
  BY <1>4, <1>5, <1>6 DEF MP!Started

(* A machine that starts has the machine's invariant, at any moment. *)
LEMMA StartedMachine == MP!Started => MP!IndInv
BY MP!StartedInv

(* The same of the next state. *)
LEMMA StartedMachineNext == MP!Started' => MP!IndInv'
BY StartedMachine, PTL

(* The invariant holds at first, ... *)
LEMMA InitVInv == VInit => SortInv /\ MachineInv
BY InitSortInv DEF VInit, MachineInv

(* ... and every step keeps it.                                            *)
LEMMA NextVInv == SortInv /\ MachineInv /\ [VNext]_allVars => SortInv' /\ MachineInv'
<1>1. SUFFICES ASSUME SortInv, MachineInv, [VNext]_allVars PROVE SortInv' /\ MachineInv'
  OBVIOUS
<1>2. CASE Sort
  <2>1. SortInv'
    BY <1>1, <1>2, NextSortInv DEF Sort
  <2>2. cfg' = cfg
    BY <1>2 DEF Sort, Next, SkipPlaced, Defer, Place
  <2>3. MachineInv'
    BY <1>1, <1>2, <2>2 DEF Sort, MachineInv
  <2>4. QED
    BY <2>1, <2>3
<1>3. ASSUME UNCHANGED <<cfg, back_edges, to_visit, sorted>>
      PROVE  SortInv' /\ List' = List /\ (SortDone' <=> SortDone)
  <2>1. SortInv'
    BY <1>1, <1>3, NextSortInv DEF sortVars
  <2>2. List' = List /\ (SortDone' <=> SortDone)
    BY <1>3 DEF List, SortDone
  <2>3. QED
    BY <2>1, <2>2
<1>4. CASE Lower
  <2>1. UNCHANGED <<cfg, back_edges, to_visit, sorted>> /\ phase' = "run" /\ SortDone /\ prog' = List
    BY <1>4 DEF Lower
  <2>2. MP!Started'
    BY <1>1, <1>4, LowerStarts
  <2>3. MP!IndInv'
    BY <2>2, StartedMachineNext
  <2>4. QED
    BY <1>3, <2>1, <2>3 DEF MachineInv
<1>5. CASE Abort
  BY <1>1, <1>3, <1>5 DEF Abort, MachineInv
<1>6. CASE Run
  <2>1. /\ UNCHANGED <<cfg, back_edges, to_visit, sorted>> /\ phase = "run" /\ phase' = "run"
        /\ Machine!Next
    BY <1>6 DEF Run
  <2>2. prog' = prog
    BY <2>1 DEF Machine!Next, Machine!Dispatch, Machine!BranchConditional, Machine!Branch, Machine!Return
  <2>3. MP!IndInv'
    <3>1. [MP!Next]_MP!vars
      BY <2>1, SameNext
    <3>2. MP!IndInv
      BY <1>1, <2>1 DEF MachineInv
    <3>3. QED
      BY <3>1, <3>2, MP!NextInv
  <2>4. QED
    BY <1>1, <1>3, <2>1, <2>2, <2>3 DEF MachineInv
<1>7. CASE UNCHANGED allVars
  <2>1. /\ UNCHANGED <<cfg, back_edges, to_visit, sorted>> /\ UNCHANGED machineVars /\ phase' = phase
        /\ prog' = prog /\ enabled' = enabled /\ mode' = mode /\ cur' = cur
    BY <1>7 DEF allVars, machineVars
  <2>2. MP!IndInv => MP!IndInv'
    <3>1. [MP!Next]_MP!vars
      BY <2>1, SameNext
    <3>2. QED
      BY <3>1, MP!NextInv
  <2>3. QED
    BY <1>1, <1>3, <2>1, <2>2 DEF MachineInv
<1>8. QED
  BY <1>1, <1>2, <1>4, <1>5, <1>6, <1>7 DEF VNext

(* So it holds throughout. *)
LEMMA VInvHolds == VSpec => [](SortInv /\ MachineInv)
BY InitVInv, NextVInv, PTL DEF VSpec

(* The list that runs is linear and the machine's state is one it can be   *)
(* in: whatever MaskMachineProofs shows of linear lists holds of what the  *)
(* sort has made.                                                          *)
THEOREM SortedListIsLinear == VSpec => []ListIsLinear
<1>1. SortInv /\ MachineInv => ListIsLinear
  <2>1. SUFFICES ASSUME MP!IndInv PROVE Machine!TypeOK
    BY DEF MachineInv, ListIsLinear
  <2>2. MP!TypeOK
    BY <2>1 DEF MP!IndInv
  <2>3. Machine!IsFiniteSet(prog.blocks) <=> MP!IsFiniteSet(prog.blocks)
    BY DEF Machine!IsFiniteSet, MP!IsFiniteSet
  <2>4. Machine!IsLinear(prog) <=> MP!IsLinear(prog)
    BY <2>3 DEF Machine!IsLinear, MP!IsLinear
  <2>5. QED
    BY <2>2, <2>4 DEF Machine!TypeOK, MP!TypeOK
<1>2. QED
  BY <1>1, VInvHolds, PTL


-----------------------------------------------------------------------------
(* The compiled function implements LaneSemantics of the source graph.     *)

(* Where a lane is, seen from the source. *)
LaneOfSource(l) ==
  IF phase = "run" THEN Machine!LaneAt(l) ELSE IF l \in enabled THEN cfg.entry ELSE "off"

(* Both names of the machine find a lane in the same place. *)
LEMMA SameLaneAt == \A l : Machine!LaneAt(l) = MP!LaneAt(l)
BY DEF Machine!LaneAt, MP!LaneAt, Machine!Done, MP!Done

(* The same of the next state. *)
LEMMA SameLaneAtNext == \A l : Machine!LaneAt(l)' = MP!LaneAt(l)'
<1>1. (\A l : Machine!LaneAt(l) = MP!LaneAt(l))'
  BY SameLaneAt, PTL
<1>2. QED
  BY <1>1

(* The lanes are launched at the entry block of the source. *)
LEMMA SourceStarts == VInit => Source!Init
<1>1. SUFFICES ASSUME VInit PROVE Source!Init
  OBVIOUS
<1>2. IsCfg(cfg)
  BY <1>1, InitVInv DEF SortInv, TypeOK
<1>3. cfg.entry \in cfg.blocks /\ cfg.out \in [cfg.blocks -> SUBSET cfg.blocks]
  BY <1>2 DEF IsCfg
<1>4. phase = "sort" /\ enabled \in SUBSET Lanes
  BY <1>1 DEF VInit
<1>5. QED
  BY <1>3, <1>4 DEF Source!Init

(* If no lane is elsewhere, the source has not moved. *)
LEMMA SourceStays ==
  ASSUME cfg' = cfg, \A l \in Lanes : LaneOfSource(l)' = LaneOfSource(l)
  PROVE  UNCHANGED Source!laneVars
BY DEF Source!laneVars, LaneOfSource

(* Where the machine has its lanes when it starts. *)
LEMMA Launched ==
  MP!Started => \A l \in Lanes : MP!LaneAt(l) = IF l \in enabled THEN prog.entry ELSE "off"
BY MP!StartedLanes

(* The same of the next state. *)
LEMMA LaunchedNext ==
  MP!Started' =>
    \A l \in Lanes : MP!LaneAt(l)' = IF l \in enabled' THEN prog'.entry ELSE "off"
<1>1. (MP!Started =>
        \A l \in Lanes : MP!LaneAt(l) = IF l \in enabled THEN prog.entry ELSE "off")'
  BY Launched, PTL
<1>2. QED
  BY <1>1

(* Lowering leaves each lane where it was launched. *)
LEMMA LowerLaunches ==
  ASSUME SortInv, MachineInv, Lower
  PROVE  \A l \in Lanes : LaneOfSource(l)' = LaneOfSource(l)
<1>1. MP!Started'
  BY LowerStarts
<1>2. \A l \in Lanes : MP!LaneAt(l)' = IF l \in enabled' THEN prog'.entry ELSE "off"
  BY <1>1, LaunchedNext
<1>3. phase = "sort" /\ phase' = "run" /\ enabled' = enabled /\ prog'.entry = cfg.entry
  BY ListFields DEF Lower
<1>4. QED
  BY <1>2, <1>3, SameLaneAtNext DEF LaneOfSource

(* What a lane does on the list is what it may do in the source. *)
LEMMA RunMoves ==
  ASSUME SortInv, MachineInv, MachineInv', Run
  PROVE  Source!Next
<1>1. /\ phase = "run" /\ phase' = "run" /\ cfg' = cfg /\ prog = List
      /\ MP!IndInv /\ MP!IndInv' /\ [MP!Next]_MP!vars
  BY SameNext DEF Run, MachineInv
<1>2. PICK S \in SUBSET Lanes :
        /\ \A l \in S : /\ MP!LaneAt(l) \in prog.blocks
                        /\ MP!LaneAt(l)' \in IF prog.out[MP!LaneAt(l)] = {} THEN {"off"}
                                             ELSE prog.out[MP!LaneAt(l)]
        /\ \A l \in Lanes \ S : MP!LaneAt(l)' = MP!LaneAt(l)
  BY <1>1, MP!LanesMove
<1>3. \A l : LaneOfSource(l) = MP!LaneAt(l) /\ LaneOfSource(l)' = MP!LaneAt(l)'
  BY <1>1, SameLaneAt, SameLaneAtNext DEF LaneOfSource
<1>4. prog.blocks = Sorted /\ \A b \in Sorted : prog.out[b] = cfg.out[b]
  BY <1>1, ListFields
<1>5. Sorted \subseteq cfg.blocks
  <2>1. \A y \in Sorted : \E i \in 1..Len(sorted) : sorted[i] = y
    BY InToSet DEF Sorted, SortInv, TypeOK
  <2>2. QED
    BY <2>1 DEF SortInv, TypeOK
<1> DEFINE at == [l \in Lanes |-> LaneOfSource(l)]
<1>6. Source!Move(S)
  <2>1. \A l \in S : LaneOfSource(l) \in cfg.blocks
                     /\ LaneOfSource(l)' \in Source!After(LaneOfSource(l))
    BY <1>2, <1>3, <1>4, <1>5 DEF Source!After
  <2>2. \A l \in Lanes \ S : LaneOfSource(l)' = LaneOfSource(l)
    BY <1>2, <1>3
  <2>3. QED
    BY <1>1, <2>1, <2>2 DEF Source!Move, LaneOfSource
<1>7. QED
  BY <1>6 DEF Source!Next

(* Each step, of the compiler or of the compiled code, is one of the       *)
(* source's lanes, or none.                                                *)
LEMMA SourceStep ==
  ASSUME SortInv, MachineInv, MachineInv', [VNext]_allVars
  PROVE  [Source!Next]_(Source!laneVars)
<1>1. CASE Sort
  <2>1. cfg' = cfg /\ phase = "sort" /\ phase' = "sort" /\ enabled' = enabled
    BY <1>1 DEF Sort, Next, SkipPlaced, Defer, Place
  <2>2. QED
    BY <2>1, SourceStays DEF LaneOfSource
<1>2. CASE Lower
  BY <1>2, LowerLaunches, SourceStays DEF Lower
<1>3. CASE Abort
  BY <1>3, SourceStays DEF Abort, LaneOfSource
<1>4. CASE Run
  BY <1>4, RunMoves
<1>5. CASE UNCHANGED allVars
  <2>1. cfg' = cfg /\ phase' = phase /\ enabled' = enabled /\ \A l : Machine!LaneAt(l)' = Machine!LaneAt(l)
    BY <1>5 DEF allVars, Machine!LaneAt, Machine!Done
  <2>2. QED
    BY <2>1, SourceStays DEF LaneOfSource
<1>6. QED
  BY <1>1, <1>2, <1>3, <1>4, <1>5 DEF VNext

(***************************************************************************)
(* The compiled function does to each lane what the function's own graph   *)
(* says, for every shader the compiler accepts, every order the sort may   *)
(* visit the successors in and every number of lanes: linearizing a graph  *)
(* and masking its blocks together implement the scalar program.           *)
(***************************************************************************)
THEOREM CompiledCodeIsSource == VSpec => CompiledCodeFollowsSource
<1>1. VInit => Source!Init
  BY SourceStarts
<1>2. /\ SortInv /\ MachineInv
      /\ (SortInv /\ MachineInv)'
      /\ [VNext]_allVars
      => [Source!Next]_(Source!laneVars)
  BY SourceStep
<1>3. QED
  BY <1>1, <1>2, VInvHolds, PTL DEF VSpec, CompiledCodeFollowsSource, Source!Spec

-----------------------------------------------------------------------------
(* After a loop.                                                           *)

(* The header of a loop is the first of its blocks in the list: any other  *)
(* block of the loop has a forward edge from one before it.                *)
LEMMA HeaderIsFirst ==
  ASSUME SortInv, NEW c \in Sorted, NEW h, Heads(cfg, h, c), h \in Sorted,
         NEW b \in Sorted, SameComponent(cfg, c, b)
  PROVE  List.id[h] <= List.id[b]
<1> DEFINE id == List.id
           C == {x \in Sorted : SameComponent(cfg, c, x)}
           T == {id[x] : x \in C}
<1>1. IsShaderCfg(cfg) /\ IsCfg(cfg) /\ Sorted \subseteq Live(cfg) /\ Sorted \subseteq cfg.blocks
  BY SortGraph
<1>2. \A x \in Sorted : id[x] \in 1..Len(sorted) /\ sorted[id[x]] = x
  <2>1. TAKE x \in Sorted
  <2>2. PICK i \in 1..Len(sorted) : sorted[i] = x
    BY InToSet DEF Sorted, SortInv, TypeOK
  <2>3. QED
    BY <2>2, ListFields
<1> HIDE DEF id
<1>3. Len(sorted) \in Nat
  BY DEF SortInv, TypeOK
<1>4. T # {} /\ T \subseteq Nat
  BY <1>2, <1>3
<1>5. PICK m \in C : \A x \in C : id[m] <= id[x]
  <2>1. \E t \in T : \A k \in T : t <= k
    BY <1>4, LeastNat
  <2>2. QED
    BY <2>1
<1>6. CASE m = h
  BY <1>5, <1>6 DEF id
<1>7. CASE m # h
  <2>1. m \in Live(cfg) /\ m \in cfg.blocks /\ SameComponent(cfg, c, m) /\ c \in cfg.blocks /\ c \in Live(cfg)
    BY <1>1
  <2>2. SameComponent(cfg, m, h)
    BY <1>1, <2>1, ComponentsDivide DEF Heads
  <2>3. m # cfg.entry
    BY <1>1, <1>7, <2>1, <2>2, EntryInNoLoop
  <2>4. PICK a \in InBlocks(cfg, m) : a \in Live(cfg) /\ <<a, m>> \notin BackEdges(cfg)
    BY <1>1, <2>1, <2>3, EnteredForward
  <2>5. SameComponent(cfg, c, a)
    BY <1>1, <1>7, <2>1, <2>4, EnteredAtHeader
  <2>6. a \in Sorted /\ m \in cfg.out[a]
    BY <2>4 DEF SortInv, PredecessorsListed, FromShader, InBlocks
  <2>7. id[a] < id[m]
    BY <1>2, <2>4, <2>6 DEF SortInv, TopologicalOrder, FromShader
  <2>8. id[m] <= id[a]
    BY <1>5, <2>5, <2>6
  <2>9. QED
    BY <1>2, <1>3, <2>6, <2>7, <2>8
<1>8. QED
  BY <1>6, <1>7

(* The blocks listed behind c that are of no loop with c only lead to such *)
(* blocks: back edges stay behind c, as c is not in the stretch of their   *)
(* loop, and the only way into the loop of c is its header, listed before. *)
LEMMA BehindStaysBehind ==
  ASSUME SortInv, LoopsContiguous, SortDone, NEW c \in Sorted
  PROVE  LET behind == {x \in Sorted : List.id[c] < List.id[x] /\ ~SameComponent(cfg, c, x)}
         IN  \A x \in behind : cfg.out[x] \subseteq behind
<1> DEFINE id == List.id
           behind == {x \in Sorted : id[c] < id[x] /\ ~SameComponent(cfg, c, x)}
<1>1. /\ IsShaderCfg(cfg) /\ IsCfg(cfg) /\ Sorted = Live(cfg) /\ Sorted \subseteq cfg.blocks
      /\ back_edges = BackEdges(cfg)
  BY SortGraph, LiveIsListed DEF SortInv, FromShader
<1>2. \A x \in Sorted : id[x] \in 1..Len(sorted) /\ sorted[id[x]] = x
  <2>1. TAKE x \in Sorted
  <2>2. PICK i \in 1..Len(sorted) : sorted[i] = x
    BY InToSet DEF Sorted, SortInv, TypeOK
  <2>3. QED
    BY <2>2, ListFields
<1>3. Len(sorted) \in Nat
  BY DEF SortInv, TypeOK
<1>4. Queued = {}
  BY DEF SortDone, Queued, ToSet
<1>5. \A x \in Sorted : cfg.out[x] \subseteq Sorted
  BY <1>4 DEF SortInv, NoneForgotten
<1>6. \A a \in cfg.blocks : \A x : SameComponent(cfg, a, x) =>
         /\ SameComponent(cfg, x, a)
         /\ \A y : SameComponent(cfg, x, y) => SameComponent(cfg, a, y)
  BY <1>1, ComponentsDivide
<1> HIDE DEF id
<1>7. SUFFICES ASSUME NEW x \in Sorted, id[c] < id[x], ~SameComponent(cfg, c, x), NEW y \in cfg.out[x]
               PROVE  id[c] < id[y] /\ ~SameComponent(cfg, c, y)
  BY <1>5 DEF id
<1>8. y \in Sorted /\ x \in InBlocks(cfg, y) /\ x \in Live(cfg)
  BY <1>1, <1>5, <1>7 DEF InBlocks
<1>9. CASE <<x, y>> \notin back_edges
  <2>1. id[x] < id[y]
    BY <1>2, <1>7, <1>8, <1>9 DEF SortInv, TopologicalOrder
  <2>2. id[c] < id[y]
    BY <1>2, <1>3, <1>7, <1>8, <2>1
  <2>3. ASSUME SameComponent(cfg, c, y) PROVE FALSE
    <3>1. y # c
      BY <1>2, <1>3, <1>8, <2>2
    <3>2. PICK h : Heads(cfg, h, c)
      BY <1>1, <2>3, <3>1, LoopsHaveHeaders
    <3>3. SameComponent(cfg, c, h) /\ h \in Sorted
      BY <1>1, <3>2, ComponentsDivide DEF Heads
    <3>4. SameComponent(cfg, c, c)
      BY <1>1, ComponentsDivide
    <3>5. id[h] <= id[c]
      BY <3>2, <3>3, <3>4, HeaderIsFirst DEF id
    <3>6. y # h
      BY <1>2, <1>3, <1>8, <2>2, <3>3, <3>5
    <3>7. SameComponent(cfg, c, x)
      BY <1>1, <1>8, <2>3, <3>2, <3>6, EnteredAtHeader
    <3>8. QED
      BY <1>7, <3>7
  <2>4. QED
    BY <2>2, <2>3
<1>10. CASE <<x, y>> \in back_edges
  <2>1. y # cfg.entry /\ x \notin Visited(cfg, cfg.entry, y)
    BY <1>1, <1>8, <1>10, BackEdgeIs
  <2>2. Reachable(cfg, y, x)
    BY <1>1, <1>8, <2>1, CutByLeadsTo
  <2>3. Reachable(cfg, x, y)
    BY <1>1, <1>7, Reaching
  <2>4. SameComponent(cfg, y, x)
    BY <2>2, <2>3 DEF SameComponent
  <2>5. ~SameComponent(cfg, c, y)
    BY <1>1, <1>6, <1>7, <2>4
  <2>6. ASSUME ~(id[c] < id[y]) PROVE FALSE
    <3>1. y # c
      BY <1>1, <1>6, <1>8, <2>5, ComponentsDivide
    <3>2. id[y] # id[c]
      BY <1>2, <1>8, <3>1
    <3>3. id[y] < id[c]
      BY <1>2, <1>3, <1>8, <2>6, <3>2
    <3>4. SameComponent(cfg, y, c)
      BY <1>2, <1>7, <1>8, <2>4, <3>3 DEF LoopsContiguous
    <3>5. QED
      BY <1>1, <1>6, <1>8, <2>5, <3>4
  <2>7. QED
    BY <2>5, <2>6
<1>11. QED
  BY <1>9, <1>10

(***************************************************************************)
(* A block runs once all lanes that may still come to it have, but those   *)
(* in a loop with it: behind a loop the lanes that left it on different    *)
(* turns are together again. A lane elsewhere is further on in the list,   *)
(* and from there no way leads back out of its own loop.                   *)
(***************************************************************************)
THEOREM LanesLeaveLoopsTogether == VSpec => []LoopReconvergence
<1>1. SortInv /\ LoopInv /\ MachineInv => LoopReconvergence
  <2>1. SUFFICES ASSUME SortInv, LoopInv, MachineInv, Running,
                        NEW b \in prog.blocks \ {cur}, Machine!Waiting(b) # {}, Reachable(cfg, b, cur)
                 PROVE  SameComponent(cfg, b, cur)
    BY DEF LoopReconvergence
  <2>2. /\ phase = "run" /\ ~Machine!Done /\ SortDone /\ prog = List
        /\ MP!TypeOK /\ MP!NothingBehind
    BY <2>1 DEF MachineInv, Running, MP!IndInv
  <2>3. cur \in prog.blocks /\ MP!IsLinear(prog)
    BY <2>2 DEF MP!TypeOK, Machine!Done
  <2>4. prog.blocks = Sorted
    BY <2>1, <2>2, ListFields
  <2>5. ~(prog.id[b] < prog.id[cur])
    BY <2>1, <2>2 DEF MP!NothingBehind, MP!Done, Machine!Done, MP!Waiting, Machine!Waiting
  <2>6. prog.id[b] \in Nat /\ prog.id[cur] \in Nat /\ prog.id[b] # prog.id[cur]
    BY <2>1, <2>3 DEF MP!IsLinear
  <2>7. List.id[cur] < List.id[b]
    BY <2>2, <2>5, <2>6
  <2> DEFINE behind == {x \in Sorted : List.id[cur] < List.id[x] /\ ~SameComponent(cfg, cur, x)}
  <2>8. \A x \in behind : cfg.out[x] \subseteq behind
    BY <2>1, <2>2, <2>3, <2>4, BehindStaysBehind DEF LoopInv
  <2>9. IsCfg(cfg) /\ Sorted \subseteq cfg.blocks
    BY <2>1, SortGraph
  <2>10. b \in behind \/ SameComponent(cfg, cur, b)
    BY <2>1, <2>4, <2>7
  <2>11. cur \notin behind
    BY <2>3, <2>4, <2>9, ComponentsDivide
  <2> HIDE DEF behind
  <2>12. b \notin behind
    BY <2>1, <2>8, <2>9, <2>11, ReachesWithin
  <2>13. QED
    BY <2>3, <2>4, <2>9, <2>10, <2>12, ComponentsDivide
<1>2. VInit => LoopInv
  BY InitLoopInv DEF VInit
<1>3. LoopInv /\ SortInv /\ [VNext]_allVars => LoopInv'
  <2>1. [VNext]_allVars => [Next]_sortVars
    BY DEF VNext, Sort, Lower, Abort, Run, allVars, sortVars
  <2>2. QED
    BY <2>1, NextLoopInv
<1>4. QED
  BY <1>1, <1>2, <1>3, VInvHolds, PTL DEF VSpec
=============================================================================
