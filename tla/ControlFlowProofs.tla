------------------------- MODULE ControlFlowProofs --------------------------
(***************************************************************************)
(* What the walks along the edges of a control-flow graph visit, for       *)
(* graphs of any size: the blocks that can be reached, and no others.      *)
(***************************************************************************)
EXTENDS ControlFlow, FiniteSetTheorems, NaturalsInduction, WellFoundedInduction, TLAPS

(* A graph whose walks end. *)
IsGraph(g) == IsFiniteSet(g.blocks) /\ \A b \in g.blocks : g.out[b] \subseteq g.blocks

(* One turn of the walk. *)
Extended(g, avoid, seen) == seen \cup UNION {g.out[b] \ {avoid} : b \in seen}

(* A set of blocks that no edge leaves but to avoid. *)
Closed(g, avoid, S) == \A b \in S : \A d \in g.out[b] : d = avoid \/ d \in S

IsWalk(g, from, avoid, n, w) ==
  w = [i \in 0..n |-> IF i = 0 THEN {from} ELSE Extended(g, avoid, w[i - 1])]

-----------------------------------------------------------------------------
(* Walks.                                                                  *)

(* Induction: what fails for a number fails for a first one. *)
LEMMA LeastNat ==
  ASSUME NEW T, T \subseteq Nat, T # {}
  PROVE  \E m \in T : \A k \in T : m <= k
<1> DEFINE R == {ss \in Nat \X Nat : ss[1] < ss[2]}
<1>1. IsWellFoundedOn(R, Nat)
  BY NatLessThanWellFounded DEF OpToRel
<1>2. \A k, m \in Nat : k < m => <<k, m>> \in R
  OBVIOUS
<1> HIDE DEF R
<1>3. PICK m \in T : \A k \in T : ~(<<k, m>> \in R)
  BY <1>1, WFMin
<1>4. \A k \in T : m <= k
  <2>1. TAKE k \in T
  <2>2. k \in Nat /\ m \in Nat /\ ~(k < m)
    BY <1>2, <1>3
  <2>3. QED
    BY <2>2
<1>5. QED
  BY <1>4

(* A walk of any length exists. *)
LEMMA WalkExists ==
  ASSUME NEW g, NEW from, NEW avoid, NEW n \in Nat
  PROVE  \E w : IsWalk(g, from, avoid, n, w)
<1> DEFINE T == {m \in Nat : ~\E w : IsWalk(g, from, avoid, m, w)}
<1>1. SUFFICES ASSUME T # {} PROVE FALSE
  OBVIOUS
<1>2. PICK m \in T : \A k \in T : m <= k
  <2>1. T \subseteq Nat
    OBVIOUS
  <2> HIDE DEF T
  <2>2. QED
    BY <1>1, <2>1, LeastNat
<1>3. CASE m = 0
  <2> DEFINE w == [i \in 0..0 |-> {from}]
  <2>1. IsWalk(g, from, avoid, 0, w)
    BY DEF IsWalk
  <2>2. QED
    BY <1>3, <2>1
<1>4. CASE m # 0
  <2>1. m - 1 \in Nat /\ m - 1 \notin T
    BY <1>2, <1>4
  <2>2. PICK v : IsWalk(g, from, avoid, m - 1, v)
    BY <2>1
  <2> DEFINE w == [i \in 0..m |-> IF i = m THEN Extended(g, avoid, v[m - 1]) ELSE v[i]]
  <2>3. IsWalk(g, from, avoid, m, w)
    <3>1. \A i \in 0..m : w[i] = IF i = 0 THEN {from} ELSE Extended(g, avoid, w[i - 1])
      <4>1. TAKE i \in 0..m
      <4>2. m \in Nat
        OBVIOUS
      <4>3. CASE i = m
        <5>1. m - 1 \in 0..m /\ m - 1 # m
          BY <1>4, <4>2
        <5>2. w[m] = Extended(g, avoid, v[m - 1]) /\ w[m - 1] = v[m - 1]
          BY <4>2, <5>1
        <5>3. QED
          BY <1>4, <4>3, <5>2
      <4>4. CASE i # m
        <5>1. i \in 0..(m - 1)
          BY <4>2, <4>4
        <5>2. v[i] = IF i = 0 THEN {from} ELSE Extended(g, avoid, v[i - 1])
          BY <2>2, <5>1 DEF IsWalk
        <5>3. w[i] = v[i] /\ (i # 0 => w[i - 1] = v[i - 1])
          BY <4>2, <4>4
        <5>4. QED
          BY <5>2, <5>3
      <4>5. QED
        BY <4>3, <4>4
    <3>2. QED
      BY <3>1 DEF IsWalk
  <2>4. QED
    BY <2>3
<1>5. QED
  BY <1>3, <1>4

(* What is visited is the end of such a walk. *)
LEMMA VisitedIsWalk ==
  ASSUME NEW g, NEW from, NEW avoid, IsFiniteSet(g.blocks)
  PROVE  \E w : /\ IsWalk(g, from, avoid, Cardinality(g.blocks), w)
                /\ Visited(g, from, avoid) = w[Cardinality(g.blocks)]
<1> DEFINE n == Cardinality(g.blocks)
           w == CHOOSE w : IsWalk(g, from, avoid, n, w)
<1>1. n \in Nat
  BY FS_CardinalityType
<1>2. IsWalk(g, from, avoid, n, w)
  BY <1>1, WalkExists
<1>3. Visited(g, from, avoid) = w[n]
  BY DEF Visited, IsWalk, Extended
<1>4. QED
  BY <1>2, <1>3

(* The turns of a walk, each of which starts from what the one before saw. *)
LEMMA WalkTurns ==
  ASSUME NEW g, NEW from, NEW avoid, NEW n \in Nat, NEW w, IsWalk(g, from, avoid, n, w)
  PROVE  /\ w[0] = {from}
         /\ \A i \in 0..(n - 1) : w[i + 1] = Extended(g, avoid, w[i])
<1>1. w[0] = {from}
  BY DEF IsWalk
<1>2. ASSUME NEW i \in 0..(n - 1) PROVE w[i + 1] = Extended(g, avoid, w[i])
  <2>1. i + 1 \in 0..n /\ i + 1 # 0 /\ (i + 1) - 1 = i
    OBVIOUS
  <2>2. w[i + 1] = Extended(g, avoid, w[(i + 1) - 1])
    BY <2>1 DEF IsWalk
  <2>3. QED
    BY <2>1, <2>2
<1>3. QED
  BY <1>1, <1>2

(* A walk stays in a closed set that it starts in. *)
LEMMA WalkInClosed ==
  ASSUME NEW g, NEW from, NEW avoid, NEW n \in Nat, NEW w, IsWalk(g, from, avoid, n, w),
         NEW S, from \in S, Closed(g, avoid, S)
  PROVE  \A i \in 0..n : w[i] \subseteq S
<1>0. w[0] = {from} /\ \A i \in 0..(n - 1) : w[i + 1] = Extended(g, avoid, w[i])
  BY WalkTurns
<1> DEFINE T == {i \in 0..n : ~(w[i] \subseteq S)}
<1>1. SUFFICES ASSUME T # {} PROVE FALSE
  OBVIOUS
<1>2. PICK m \in T : \A k \in T : m <= k
  <2>1. T \subseteq Nat
    OBVIOUS
  <2> HIDE DEF T
  <2>2. QED
    BY <1>1, <2>1, LeastNat
<1>3. m # 0
  BY <1>0
<1>4. m - 1 \in 0..(n - 1) /\ (m - 1) + 1 = m /\ m - 1 \notin T /\ m - 1 \in 0..n
  BY <1>2, <1>3
<1>5. w[m - 1] \subseteq S
  BY <1>4
<1>6. w[m] = Extended(g, avoid, w[m - 1])
  BY <1>0, <1>4
<1>7. QED
  BY <1>5, <1>6 DEF Extended, Closed

(* After i turns a walk has ended or has seen more than i blocks. *)
LEMMA WalkGrows ==
  ASSUME NEW g, IsGraph(g), NEW from \in g.blocks, NEW avoid, NEW n \in Nat, NEW w,
         IsWalk(g, from, avoid, n, w)
  PROVE  \A i \in 0..n : /\ from \in w[i] /\ w[i] \subseteq g.blocks
                         /\ Closed(g, avoid, w[i]) \/ Cardinality(w[i]) > i
<1>0. w[0] = {from} /\ \A i \in 0..(n - 1) : w[i + 1] = Extended(g, avoid, w[i])
  BY WalkTurns
<1>1. Closed(g, avoid, g.blocks)
  BY DEF IsGraph, Closed
<1>2. \A i \in 0..n : w[i] \subseteq g.blocks
  BY <1>1, WalkInClosed
<1> DEFINE T == {i \in 0..n : ~(from \in w[i] /\ (Closed(g, avoid, w[i]) \/ Cardinality(w[i]) > i))}
<1>3. SUFFICES ASSUME T # {} PROVE FALSE
  BY <1>2
<1>4. PICK m \in T : \A k \in T : m <= k
  <2>1. T \subseteq Nat
    OBVIOUS
  <2> HIDE DEF T
  <2>2. QED
    BY <1>3, <2>1, LeastNat
<1>5. CASE m = 0
  <2>1. w[0] = {from} /\ Cardinality({from}) = 1
    BY <1>0, FS_Singleton
  <2>2. QED
    BY <1>5, <2>1
<1>6. CASE m # 0
  <2>1. m - 1 \in 0..(n - 1) /\ (m - 1) + 1 = m /\ m - 1 \notin T /\ m - 1 \in 0..n
    BY <1>4, <1>6
  <2> DEFINE old == w[m - 1]
             new == w[m]
  <2>2. from \in old /\ (Closed(g, avoid, old) \/ Cardinality(old) > m - 1)
    BY <2>1
  <2>3. new = Extended(g, avoid, old)
    BY <1>0, <2>1
  <2>4. IsFiniteSet(old) /\ IsFiniteSet(new)
    BY <1>2, <2>1, FS_Subset DEF IsGraph
  <2>5. m \in 0..n /\ ~(from \in new /\ (Closed(g, avoid, new) \/ Cardinality(new) > m))
    OBVIOUS
  <2> HIDE DEF old, new, T
  <2>6. from \in new /\ old \subseteq new
    BY <2>2, <2>3 DEF Extended
  <2>7. CASE Closed(g, avoid, old)
    <3>1. new = old
      BY <2>3, <2>7 DEF Extended, Closed
    <3>2. QED
      BY <2>5, <2>6, <2>7, <3>1
  <2>8. CASE ~Closed(g, avoid, old)
    <3>1. new # old
      BY <2>3, <2>8 DEF Extended, Closed
    <3>2. Cardinality(old) \in Nat /\ Cardinality(new) \in Nat
      BY <2>4, FS_CardinalityType
    <3>3. Cardinality(old) <= Cardinality(new) /\ Cardinality(old) # Cardinality(new)
      BY <2>4, <2>6, <3>1, FS_Subset
    <3>4. Cardinality(new) > m
      BY <2>1, <2>2, <2>8, <3>2, <3>3
    <3>5. QED
      BY <2>5, <2>6, <3>4
  <2>9. QED
    BY <2>7, <2>8
<1>7. QED
  BY <1>5, <1>6

-----------------------------------------------------------------------------
(* What is visited.                                                        *)

(* A walk that starts at a block visits it, and what its edges lead to.    *)
LEMMA VisitedClosed ==
  ASSUME NEW g, IsGraph(g), NEW from \in g.blocks, NEW avoid
  PROVE  /\ from \in Visited(g, from, avoid)
         /\ Visited(g, from, avoid) \subseteq g.blocks
         /\ Closed(g, avoid, Visited(g, from, avoid))
<1> DEFINE n == Cardinality(g.blocks)
<1>1. n \in Nat /\ n \in 0..n
  BY FS_CardinalityType DEF IsGraph
<1>2. PICK w : IsWalk(g, from, avoid, n, w) /\ Visited(g, from, avoid) = w[n]
  BY VisitedIsWalk DEF IsGraph
<1> HIDE DEF n
<1>3. from \in w[n] /\ w[n] \subseteq g.blocks /\ (Closed(g, avoid, w[n]) \/ Cardinality(w[n]) > n)
  BY <1>1, <1>2, WalkGrows
<1>4. Cardinality(w[n]) <= n /\ Cardinality(w[n]) \in Nat
  BY <1>3, FS_Subset, FS_CardinalityType DEF IsGraph, n
<1>5. Closed(g, avoid, w[n])
  BY <1>1, <1>3, <1>4
<1>6. QED
  BY <1>2, <1>3, <1>5

(* It visits nothing else: any closed set it starts in holds it.           *)
LEMMA VisitedLeast ==
  ASSUME NEW g, IsGraph(g), NEW from, NEW avoid, NEW S, from \in S, Closed(g, avoid, S)
  PROVE  Visited(g, from, avoid) \subseteq S
<1> DEFINE n == Cardinality(g.blocks)
<1>1. n \in Nat /\ n \in 0..n
  BY FS_CardinalityType DEF IsGraph
<1>2. PICK w : IsWalk(g, from, avoid, n, w) /\ Visited(g, from, avoid) = w[n]
  BY VisitedIsWalk DEF IsGraph
<1> HIDE DEF n
<1>3. QED
  BY <1>1, <1>2, WalkInClosed

(* Where a walk comes from a second walk may come from. *)
LEMMA VisitedTransitive ==
  ASSUME NEW g, IsGraph(g), NEW a \in g.blocks, NEW avoid, NEW b \in Visited(g, a, avoid)
  PROVE  Visited(g, b, avoid) \subseteq Visited(g, a, avoid)
BY VisitedClosed, VisitedLeast
-----------------------------------------------------------------------------
(* Control-flow graphs.                                                    *)

(* A control-flow graph is a graph, and "none" and "terminator" are no   *)
(* blocks of it.                                                           *)
LEMMA CfgIsGraph ==
  ASSUME NEW g, IsCfg(g)
  PROVE  /\ IsGraph(g) /\ g.entry \in g.blocks
         /\ "none" \notin g.blocks /\ "terminator" \notin g.blocks
         /\ \A b \in g.blocks : g.out[b] \subseteq g.blocks /\ IsFiniteSet(g.out[b])
<1>1. \A b \in g.blocks : g.out[b] \subseteq g.blocks
  BY DEF IsCfg
<1>2. IsFiniteSet(g.blocks)
  BY DEF IsCfg
<1>3. \A b \in g.blocks : IsFiniteSet(g.out[b])
  BY <1>1, <1>2, FS_Subset
<1>4. QED
  BY <1>1, <1>2, <1>3 DEF IsCfg, IsGraph

(* A block dominates another if walks cannot avoid it; the entry is not    *)
(* tried.                                                                  *)
LEMMA DominatorsAre ==
  ASSUME NEW g, NEW b \in g.blocks, NEW d
  PROVE  d \in Dominators(g)[b] <=>
           d = b \/ (d \in g.blocks \ {g.entry} /\ b \notin Visited(g, g.entry, d))
BY DEF Dominators

(* So an edge is a back edge if no walk from the entry gets to its source  *)
(* but through its target.                                                 *)
LEMMA BackEdgesAre ==
  ASSUME NEW g, NEW a \in g.blocks, NEW b \in g.out[a], b \in g.blocks
  PROVE  <<a, b>> \in BackEdges(g) <=>
           b = a \/ (b # g.entry /\ a \notin Visited(g, g.entry, b))
<1>1. <<a, b>> \in Edges(g)
  BY DEF Edges
<1>2. <<a, b>> \in BackEdges(g) <=> b \in Dominators(g)[a]
  BY <1>1 DEF BackEdges
<1>3. QED
  BY <1>2, DominatorsAre


-----------------------------------------------------------------------------
(* Loops: the blocks that lie on common cycles.                            *)

(* A walk never enters what it avoids. *)
LEMMA VisitedAvoids ==
  ASSUME NEW g, IsGraph(g), NEW from \in g.blocks, NEW avoid, from # avoid
  PROVE  avoid \notin Visited(g, from, avoid)
<1> DEFINE V == Visited(g, from, avoid)
<1>1. from \in V /\ Closed(g, avoid, V)
  BY VisitedClosed
<1> HIDE DEF V
<1>2. from \in V \ {avoid} /\ Closed(g, avoid, V \ {avoid})
  BY <1>1 DEF Closed
<1>3. Visited(g, from, avoid) \subseteq V \ {avoid}
  BY <1>2, VisitedLeast
<1>4. QED
  BY <1>3

(* What can be reached is a block, and leads to what can be reached. *)
LEMMA Reaching ==
  ASSUME NEW g, IsCfg(g), NEW a \in g.blocks
  PROVE  /\ Reachable(g, a, a)
         /\ \A b : Reachable(g, a, b) =>
              /\ b \in g.blocks
              /\ \A d \in g.out[b] : Reachable(g, a, d)
              /\ \A c : Reachable(g, b, c) => Reachable(g, a, c)
<1>1. IsGraph(g) /\ "none" \notin g.blocks /\ \A b \in g.blocks : g.out[b] \subseteq g.blocks
  BY CfgIsGraph
<1>2. /\ a \in Visited(g, a, "none") /\ Visited(g, a, "none") \subseteq g.blocks
      /\ Closed(g, "none", Visited(g, a, "none"))
  BY <1>1, VisitedClosed
<1>3. ASSUME NEW b \in Visited(g, a, "none")
      PROVE  /\ b \in g.blocks
             /\ \A d \in g.out[b] : d \in Visited(g, a, "none")
             /\ Visited(g, b, "none") \subseteq Visited(g, a, "none")
  <2>1. b \in g.blocks /\ Visited(g, b, "none") \subseteq Visited(g, a, "none")
    BY <1>1, <1>2, <1>3, VisitedTransitive
  <2>2. \A d \in g.out[b] : d # "none"
    BY <1>1, <2>1
  <2>3. QED
    BY <1>2, <1>3, <2>1, <2>2 DEF Closed
<1>4. QED
  BY <1>2, <1>3 DEF Reachable

(* A set of blocks no edge leaves has all that can be reached from it. *)
LEMMA ReachesWithin ==
  ASSUME NEW g, IsCfg(g), NEW S, NEW a \in S, \A b \in S : g.out[b] \subseteq S
  PROVE  \A b : Reachable(g, a, b) => b \in S
<1>1. Closed(g, "none", S)
  BY DEF Closed
<1>2. QED
  BY <1>1, CfgIsGraph, VisitedLeast DEF Reachable

(* The loops, with the blocks in none of them, divide the graph. *)
LEMMA ComponentsDivide ==
  ASSUME NEW g, IsCfg(g), NEW a \in g.blocks
  PROVE  /\ SameComponent(g, a, a)
         /\ \A b : SameComponent(g, a, b) =>
              /\ b \in g.blocks /\ SameComponent(g, b, a)
              /\ a \in Live(g) => b \in Live(g)
              /\ \A c : SameComponent(g, b, c) => SameComponent(g, a, c)
<1>1. SameComponent(g, a, a)
  BY Reaching DEF SameComponent
<1>2. ASSUME NEW b, SameComponent(g, a, b)
      PROVE  /\ b \in g.blocks /\ SameComponent(g, b, a)
             /\ a \in Live(g) => b \in Live(g)
             /\ \A c : SameComponent(g, b, c) => SameComponent(g, a, c)
  <2>1. b \in g.blocks /\ SameComponent(g, b, a)
    BY <1>2, Reaching DEF SameComponent
  <2>2. ASSUME NEW c, SameComponent(g, b, c) PROVE SameComponent(g, a, c)
    <3>1. Reachable(g, a, c)
      BY <1>2, <2>2, Reaching DEF SameComponent
    <3>2. Reachable(g, b, c) /\ Reachable(g, c, b) /\ Reachable(g, b, a)
      BY <1>2, <2>2 DEF SameComponent
    <3>3. c \in g.blocks
      BY <2>1, <3>2, Reaching
    <3>4. Reachable(g, c, a)
      BY <3>2, <3>3, Reaching
    <3>5. QED
      BY <3>1, <3>4 DEF SameComponent
  <2>3. a \in Live(g) => b \in Live(g)
    <3>1. g.entry \in g.blocks
      BY DEF IsCfg
    <3>2. Reachable(g, g.entry, a) => Reachable(g, g.entry, b)
      BY <1>2, <3>1, Reaching DEF SameComponent
    <3>3. QED
      BY <3>2 DEF Live, Reachable
  <2>4. QED
    BY <2>1, <2>2, <2>3
<1>3. QED
  BY <1>1, <1>2

(* From a block of a loop an edge leads on in the loop ... *)
LEMMA LoopGoesOn ==
  ASSUME NEW g, IsCfg(g), NEW a \in g.blocks, NEW b, b # a, SameComponent(g, a, b)
  PROVE  \E d \in g.out[a] : SameComponent(g, a, d)
<1> DEFINE S == {a} \cup {x \in g.blocks : \E d \in g.out[a] : Reachable(g, d, x)}
<1>1. \A d \in g.out[a] : d \in g.blocks
  BY CfgIsGraph
<1>2. ASSUME NEW x \in S PROVE g.out[x] \subseteq S
  <2>1. CASE x = a
    BY <1>1, <2>1, Reaching
  <2>2. CASE x # a
    <3>1. PICK d \in g.out[a] : x \in g.blocks /\ Reachable(g, d, x)
      BY <1>2, <2>2
    <3>2. \A y \in g.out[x] : y \in g.blocks /\ Reachable(g, d, y)
      BY <1>1, <3>1, Reaching
    <3>3. QED
      BY <3>2
  <2>3. QED
    BY <2>1, <2>2
<1>3. a \in S
  OBVIOUS
<1> HIDE DEF S
<1>4. b \in S
  BY <1>2, <1>3, ReachesWithin DEF SameComponent
<1> USE DEF S
<1>5. PICK d \in g.out[a] : Reachable(g, d, b)
  BY <1>4
<1>6. Reachable(g, d, a) /\ Reachable(g, a, d)
  BY <1>1, <1>5, Reaching DEF SameComponent
<1>7. QED
  BY <1>6 DEF SameComponent

(* ... and one leads to it from the loop. *)
LEMMA LoopComesBack ==
  ASSUME NEW g, IsCfg(g), NEW a \in g.blocks, NEW b, b # a, SameComponent(g, a, b)
  PROVE  \E p \in g.blocks : a \in g.out[p] /\ SameComponent(g, a, p)
<1> DEFINE S == {x \in g.blocks : x # a /\ Reachable(g, b, x)}
<1>1. b \in g.blocks /\ Reachable(g, b, a) /\ Reachable(g, a, b)
  BY ComponentsDivide DEF SameComponent
<1>2. SUFFICES ASSUME ~\E p \in g.blocks : a \in g.out[p] /\ SameComponent(g, a, p) PROVE FALSE
  OBVIOUS
<1>3. ASSUME NEW x \in S PROVE g.out[x] \subseteq S
  <2>1. Reachable(g, a, x)
    BY <1>1, <1>3, Reaching
  <2>2. \A y \in g.out[x] : y \in g.blocks /\ Reachable(g, b, y)
    BY <1>1, <1>3, Reaching
  <2>3. a \notin g.out[x]
    <3>1. a \in g.out[x] => Reachable(g, x, a)
      BY <1>3, Reaching
    <3>2. QED
      BY <1>2, <1>3, <2>1, <3>1 DEF SameComponent
  <2>4. QED
    BY <2>2, <2>3
<1>4. b \in S
  BY <1>1, Reaching
<1> HIDE DEF S
<1>5. a \in S
  BY <1>1, <1>3, <1>4, ReachesWithin
<1> USE DEF S
<1>6. QED
  BY <1>5


(* Shader control-flow graphs: nothing leads to the entry, so that it is   *)
(* in no loop.                                                             *)
LEMMA EntryInNoLoop ==
  ASSUME NEW g, IsShaderCfg(g), NEW a \in g.blocks, NEW b, b # a, SameComponent(g, a, b)
  PROVE  a # g.entry
<1>1. PICK p \in g.blocks : a \in g.out[p]
  BY LoopComesBack DEF IsShaderCfg
<1>2. QED
  BY <1>1 DEF IsShaderCfg, InBlocks

(* An edge to a block that is not the entry's is a back edge when its      *)
(* source cannot be reached but through its target.                        *)
LEMMA BackEdgeIs ==
  ASSUME NEW g, IsShaderCfg(g), NEW b \in g.blocks, NEW a \in InBlocks(g, b)
  PROVE  /\ a \in g.blocks /\ a # b /\ b # g.entry
         /\ <<a, b>> \in BackEdges(g) <=> a \notin Visited(g, g.entry, b)
<1>1. a \in g.blocks /\ b \in g.out[a] /\ a # b /\ b # g.entry
  BY DEF InBlocks, IsShaderCfg
<1>2. <<a, b>> \in BackEdges(g) <=> b = a \/ (b # g.entry /\ a \notin Visited(g, g.entry, b))
  BY <1>1, BackEdgesAre
<1>3. QED
  BY <1>1, <1>2

(* Of any live blocks there is an earliest: no forward edge leads from one *)
(* of them to it. It is one from which the most blocks can be reached.     *)
LEMMA EarliestOf ==
  ASSUME NEW g, IsShaderCfg(g), NEW X, X \subseteq Live(g), X # {}
  PROVE  \E x \in X : \A a \in X : x \in g.out[a] => <<a, x>> \in BackEdges(g)
<1> DEFINE forward == [g EXCEPT !.out =
                         [b \in g.blocks |-> {d \in g.out[b] : <<b, d>> \notin BackEdges(g)}]]
           F(x) == Visited(forward, x, "none")
           n == Cardinality(g.blocks)
           T == {n - Cardinality(F(x)) : x \in X}
<1>1. IsCfg(g) /\ IsGraph(g) /\ g.entry \in g.blocks
  BY CfgIsGraph DEF IsShaderCfg
<1>2. forward.blocks = g.blocks
      /\ \A b \in g.blocks : forward.out[b] = {d \in g.out[b] : <<b, d>> \notin BackEdges(g)}
  <2>1. g = [blocks |-> g.blocks, entry |-> g.entry, out |-> g.out]
    BY <1>1 DEF IsCfg
  <2>2. QED
    BY <2>1
<1>3. \A b \in Live(g) : \A d \in forward.out[b] : b \notin F(d)
  BY DEF IsShaderCfg, IsReducible, Reachable
<1> HIDE DEF forward
<1>4. IsGraph(forward)
  BY <1>1, <1>2 DEF IsGraph
<1>5. Live(g) \subseteq g.blocks
  BY <1>1, VisitedClosed DEF Live
<1>6. n \in Nat /\ IsFiniteSet(g.blocks)
  BY <1>1, FS_CardinalityType DEF IsGraph
<1>7. ASSUME NEW x \in g.blocks
      PROVE  /\ x \in F(x) /\ F(x) \subseteq g.blocks /\ IsFiniteSet(F(x))
             /\ Cardinality(F(x)) \in Nat /\ n - Cardinality(F(x)) \in Nat
  <2>1. x \in F(x) /\ F(x) \subseteq g.blocks
    BY <1>2, <1>4, <1>7, VisitedClosed
  <2>2. IsFiniteSet(F(x)) /\ Cardinality(F(x)) <= n
    BY <1>6, <2>1, FS_Subset
  <2>3. Cardinality(F(x)) \in Nat
    BY <2>2, FS_CardinalityType
  <2>4. n - Cardinality(F(x)) \in Nat
    BY <1>6, <2>2, <2>3
  <2>5. QED
    BY <2>1, <2>2, <2>3, <2>4
<1>8. PICK m \in T : \A k \in T : m <= k
  <2>1. T \subseteq Nat /\ T # {}
    BY <1>5, <1>7
  <2> HIDE DEF T
  <2>2. QED
    BY <2>1, LeastNat
<1>9. PICK x \in X : m = n - Cardinality(F(x))
  BY <1>8
<1>10. ASSUME NEW a \in X, x \in g.out[a], <<a, x>> \notin BackEdges(g) PROVE FALSE
  <2>1. a \in g.blocks /\ x \in g.blocks /\ x \in forward.out[a]
    BY <1>2, <1>5, <1>9, <1>10
  <2>2. a \notin F(x)
    BY <1>3, <1>10, <2>1
  <2>3. a \in F(a) /\ F(x) \subseteq F(a)
    <3>1. a \in F(a) /\ Closed(forward, "none", F(a))
      BY <1>2, <1>4, <2>1, VisitedClosed
    <3>2. x # "none"
      BY <1>1, <2>1, CfgIsGraph
    <3>3. x \in F(a)
      BY <2>1, <3>1, <3>2 DEF Closed
    <3>4. F(x) \subseteq F(a)
      BY <1>2, <1>4, <2>1, <3>3, VisitedTransitive
    <3>5. QED
      BY <3>1, <3>4
  <2>4. Cardinality(F(x) \cup {a}) <= Cardinality(F(a))
    <3> DEFINE more == F(x) \cup {a}
    <3>1. more \subseteq F(a) /\ IsFiniteSet(F(a))
      BY <1>7, <2>1, <2>3
    <3> HIDE DEF more
    <3>2. Cardinality(more) <= Cardinality(F(a))
      BY <3>1, FS_Subset
    <3>3. QED
      BY <3>2 DEF more
  <2>5. Cardinality(F(x) \cup {a}) = Cardinality(F(x)) + 1
    <3> DEFINE S == F(x)
    <3>1. IsFiniteSet(S) /\ a \notin S
      BY <1>7, <2>1, <2>2
    <3> HIDE DEF S
    <3>2. Cardinality(S \cup {a}) = IF a \in S THEN Cardinality(S) ELSE Cardinality(S) + 1
      BY <3>1, FS_AddElement
    <3>3. Cardinality(S \cup {a}) = Cardinality(S) + 1
      BY <3>1, <3>2
    <3>4. QED
      BY <3>3 DEF S
  <2>6. Cardinality(F(x)) \in Nat /\ Cardinality(F(a)) \in Nat
    BY <1>7, <2>1
  <2>7. m <= n - Cardinality(F(a))
    BY <1>8, <1>10
  <2>8. QED
    BY <1>6, <1>9, <2>4, <2>5, <2>6, <2>7
<1>11. QED
  BY <1>10


(* h is the only way into c's loop. *)
Heads(g, h, c) ==
  /\ h \in g.blocks \ {g.entry} /\ SameComponent(g, c, h)
  /\ \A x : SameComponent(g, c, x) => x \notin Visited(g, g.entry, h)

(* Every loop of a reducible graph has a header: the earliest of its       *)
(* blocks. What leads to it from the loop are back edges, whose sources it *)
(* dominates; and from any other block of the loop one comes to those.     *)
LEMMA LoopsHaveHeaders ==
  ASSUME NEW g, IsShaderCfg(g), NEW c \in Live(g), NEW b, b # c, SameComponent(g, c, b)
  PROVE  \E h : Heads(g, h, c)
<1> DEFINE C == {x \in g.blocks : SameComponent(g, c, x)}
<1>1. IsCfg(g) /\ IsGraph(g) /\ g.entry \in g.blocks /\ c \in g.blocks /\ b \in g.blocks
  <2>1. IsCfg(g) /\ IsGraph(g) /\ g.entry \in g.blocks
    BY CfgIsGraph DEF IsShaderCfg
  <2>2. c \in g.blocks
    BY <2>1, VisitedClosed DEF Live
  <2>3. QED
    BY <2>1, <2>2, ComponentsDivide
<1>2. c \in C /\ C \subseteq Live(g)
  BY <1>1, ComponentsDivide
<1>3. PICK h \in C : \A a \in C : h \in g.out[a] => <<a, h>> \in BackEdges(g)
  <2> HIDE DEF C
  <2>1. QED
    BY <1>2, EarliestOf
<1>4. h \in g.blocks /\ SameComponent(g, h, c) /\ SameComponent(g, c, h)
  BY <1>1, <1>3, ComponentsDivide
<1>5. h # g.entry
  <2>1. CASE h = c
    BY <1>1, <2>1, EntryInNoLoop
  <2>2. CASE h # c
    BY <1>4, <2>2, EntryInNoLoop
  <2>3. QED
    BY <2>1, <2>2
<1> DEFINE W == Visited(g, g.entry, h)
<1>6. h \notin W /\ Closed(g, h, W)
  BY <1>1, <1>5, VisitedAvoids, VisitedClosed
<1>7. \A a \in C : h \in g.out[a] => a \notin W
  BY <1>3, <1>4, BackEdgeIs DEF InBlocks
<1>8. ASSUME NEW x, SameComponent(g, c, x), x \in W PROVE FALSE
  <2> DEFINE S == {y \in g.blocks : Reachable(g, x, y) /\ (y \in W \/ y \notin C)}
  <2>1. x \in g.blocks /\ SameComponent(g, x, c)
    BY <1>1, <1>8, ComponentsDivide
  <2>2. ASSUME NEW y \in S PROVE g.out[y] \subseteq S
    <3>1. SUFFICES ASSUME NEW z \in g.out[y], z \in C PROVE z \in W
      BY <1>1, <2>1, Reaching
    <3>2. SameComponent(g, x, z) /\ Reachable(g, y, z)
      <4>1. SameComponent(g, x, z)
        BY <1>1, <1>8, <2>1, <3>1, ComponentsDivide
      <4>2. Reachable(g, y, z)
        BY <1>1, <3>1, Reaching
      <4>3. QED
        BY <4>1, <4>2
    <3>3. Reachable(g, x, y) /\ Reachable(g, y, x)
      <4>1. Reachable(g, z, x)
        BY <3>2 DEF SameComponent
      <4>2. Reachable(g, y, x)
        BY <1>1, <3>1, <3>2, <4>1, Reaching
      <4>3. QED
        BY <4>2
    <3>4. y \in C
      BY <1>1, <1>8, <2>1, <3>3, ComponentsDivide DEF SameComponent
    <3>5. y \in W /\ z # h
      BY <1>7, <3>1, <3>4
    <3>6. QED
      BY <1>6, <3>1, <3>5 DEF Closed
  <2>3. x \in S
    BY <1>1, <1>8, <2>1, Reaching
  <2>4. SameComponent(g, x, h)
    BY <1>1, <1>4, <2>1, ComponentsDivide
  <2> HIDE DEF S, W
  <2>5. h \in S
    BY <1>1, <2>2, <2>3, <2>4, ReachesWithin DEF SameComponent
  <2> USE DEF S
  <2>6. QED
    BY <1>3, <1>6, <2>5
<1>9. QED
  BY <1>4, <1>5, <1>8 DEF Heads

(* A live block that walks do not come to without b is one b leads to.     *)
LEMMA CutByLeadsTo ==
  ASSUME NEW g, IsCfg(g), NEW b \in g.blocks, NEW a \in Live(g), a \notin Visited(g, g.entry, b)
  PROVE  Reachable(g, b, a)
<1> DEFINE W == Visited(g, g.entry, b)
           S == W \cup {y \in g.blocks : Reachable(g, b, y)}
<1>1. IsGraph(g) /\ g.entry \in g.blocks
  BY CfgIsGraph
<1>2. g.entry \in W /\ Closed(g, b, W) /\ W \subseteq g.blocks
  BY <1>1, VisitedClosed
<1>3. ASSUME NEW y \in S PROVE g.out[y] \subseteq S
  BY <1>1, <1>2, Reaching DEF Closed
<1>4. g.entry \in S
  BY <1>2
<1>5. Reachable(g, g.entry, a)
  BY DEF Live, Reachable
<1> HIDE DEF S
<1>6. a \in S
  BY <1>3, <1>4, <1>5, ReachesWithin
<1> USE DEF S
<1>7. QED
  BY <1>6

(* What leads to another block of a loop than its header is of the loop.   *)
LEMMA EnteredAtHeader ==
  ASSUME NEW g, IsShaderCfg(g), NEW c \in Live(g), NEW h, Heads(g, h, c),
         NEW x, SameComponent(g, c, x), x # h, NEW a \in InBlocks(g, x), a \in Live(g)
  PROVE  SameComponent(g, c, a)
<1>1. /\ IsCfg(g) /\ IsGraph(g) /\ g.entry \in g.blocks
      /\ a \in g.blocks /\ x \in g.out[a] /\ h \in g.blocks /\ h # g.entry /\ c \in g.blocks
      /\ SameComponent(g, c, h)
  <2>1. IsCfg(g) /\ IsGraph(g) /\ g.entry \in g.blocks
    BY CfgIsGraph DEF IsShaderCfg
  <2>2. c \in g.blocks
    BY <2>1, VisitedClosed DEF Live
  <2>3. QED
    BY <2>1, <2>2 DEF InBlocks, Heads
<1>2. Closed(g, h, Visited(g, g.entry, h))
  BY <1>1, VisitedClosed
<1>3. a \notin Visited(g, g.entry, h)
  BY <1>1, <1>2 DEF Heads, Closed
<1>4. Reachable(g, h, a)
  BY <1>1, <1>3, CutByLeadsTo
<1>5. Reachable(g, c, a)
  BY <1>1, <1>4, Reaching DEF SameComponent
<1>6. Reachable(g, a, x) /\ Reachable(g, x, c)
  BY <1>1, Reaching DEF SameComponent
<1>7. Reachable(g, a, c)
  BY <1>1, <1>6, Reaching
<1>8. QED
  BY <1>5, <1>7 DEF SameComponent

(* A live block that is not the entry is entered by an edge that is not a  *)
(* back edge, or walks could not come to it at all.                        *)
LEMMA EnteredForward ==
  ASSUME NEW g, IsShaderCfg(g), NEW c \in Live(g), c # g.entry
  PROVE  \E a \in InBlocks(g, c) : a \in Live(g) /\ <<a, c>> \notin BackEdges(g)
<1> DEFINE V == Visited(g, g.entry, c)
<1>1. /\ IsCfg(g) /\ IsGraph(g) /\ g.entry \in g.blocks /\ c \in g.blocks
      /\ g.entry \in Live(g) /\ \A b \in Live(g) : g.out[b] \subseteq Live(g)
  <2>1. IsCfg(g) /\ IsGraph(g) /\ g.entry \in g.blocks
    BY CfgIsGraph DEF IsShaderCfg
  <2>2. \A b : b \in Live(g) <=> Reachable(g, g.entry, b)
    BY DEF Live, Reachable
  <2>3. QED
    BY <2>1, <2>2, Reaching
<1>2. g.entry \in V /\ Closed(g, c, V) /\ V \subseteq g.blocks /\ c \notin V
  BY <1>1, VisitedClosed, VisitedAvoids
<1>3. V \subseteq Live(g)
  <2>1. Closed(g, c, Live(g))
    BY <1>1 DEF Closed
  <2>2. QED
    BY <1>1, <2>1, VisitedLeast
<1>4. SUFFICES ASSUME \A a \in InBlocks(g, c) : a \in Live(g) => <<a, c>> \in BackEdges(g)
               PROVE  FALSE
  OBVIOUS
<1>5. ASSUME NEW b \in V PROVE g.out[b] \subseteq V
  <2>1. c \notin g.out[b]
    BY <1>1, <1>2, <1>3, <1>4, <1>5, BackEdgeIs DEF InBlocks
  <2>2. QED
    BY <1>2, <2>1 DEF Closed
<1>6. Reachable(g, g.entry, c)
  BY DEF Live, Reachable
<1> HIDE DEF V
<1>7. c \in V
  BY <1>1, <1>2, <1>5, <1>6, ReachesWithin
<1>8. QED
  BY <1>2, <1>7


(* What walks from the entry visit is live, whatever they avoid. *)
LEMMA VisitedIsLive ==
  ASSUME NEW g, IsCfg(g), NEW d
  PROVE  Visited(g, g.entry, d) \subseteq Live(g)
<1>1. IsGraph(g) /\ g.entry \in g.blocks
  BY CfgIsGraph
<1>2. g.entry \in Live(g) /\ \A b \in Live(g) : g.out[b] \subseteq Live(g)
  <2>1. \A b : b \in Live(g) <=> Reachable(g, g.entry, b)
    BY DEF Live, Reachable
  <2>2. QED
    BY <1>1, <2>1, Reaching
<1>3. Closed(g, d, Live(g))
  BY <1>2 DEF Closed
<1>4. QED
  BY <1>1, <1>2, <1>3, VisitedLeast

(***************************************************************************)
(* A set of blocks that walks can come to without what is not in the set   *)
(* (as the blocks listed so far) has a loop's header before any other of   *)
(* the loop's blocks. The blocks that are ready have all their             *)
(* predecessors in the set, but for back edges.                            *)
(***************************************************************************)
ReachedWithin(g, S) ==
  \A d \in g.blocks \ {g.entry} : d \in S \/ S \subseteq Visited(g, g.entry, d)

ReadyAfter(g, S, b) == \A a \in InBlocks(g, b) : a \in S \/ <<a, b>> \in BackEdges(g)

(* While a loop is only partly in the set, one of its blocks is ready: the *)
(* earliest that is not in the set.                                        *)
LEMMA SomeBlockIsReady ==
  ASSUME NEW g, IsShaderCfg(g), NEW S, ReachedWithin(g, S), NEW b \in S, b \in Live(g),
         NEW c \in g.blocks \ S, SameComponent(g, b, c)
  PROVE  \E x \in g.blocks \ S : SameComponent(g, b, x) /\ ReadyAfter(g, S, x)
<1> DEFINE X == {x \in g.blocks \ S : SameComponent(g, b, x)}
<1>1. IsCfg(g) /\ b \in g.blocks
  <2>1. IsCfg(g)
    BY DEF IsShaderCfg
  <2>2. QED
    BY <2>1, CfgIsGraph, VisitedClosed DEF Live
<1>2. PICK h : Heads(g, h, b)
  BY LoopsHaveHeaders
<1>3. h \in S
  <2>1. h \in g.blocks \ {g.entry} /\ b \notin Visited(g, g.entry, h)
    BY <1>1, <1>2, ComponentsDivide DEF Heads
  <2>2. QED
    BY <2>1 DEF ReachedWithin
<1>4. X \subseteq Live(g) /\ c \in X
  BY <1>1, ComponentsDivide
<1>5. PICK x \in X : \A a \in X : x \in g.out[a] => <<a, x>> \in BackEdges(g)
  <2> HIDE DEF X
  <2>1. QED
    BY <1>4, EarliestOf
<1>6. ASSUME NEW a \in InBlocks(g, x), a \notin S PROVE <<a, x>> \in BackEdges(g)
  <2>1. a \in g.blocks /\ x \in g.out[a] /\ x \in g.blocks
    BY DEF InBlocks
  <2>2. CASE a \in Live(g)
    <3>1. x # h
      BY <1>3
    <3>2. SameComponent(g, b, a)
      BY <1>2, <2>2, <3>1, EnteredAtHeader
    <3>3. QED
      BY <1>5, <1>6, <2>1, <3>2
  <2>3. CASE a \notin Live(g)
    <3>1. a \notin Visited(g, g.entry, x)
      BY <1>1, <2>3, VisitedIsLive
    <3>2. QED
      BY <2>1, <3>1, BackEdgeIs
  <2>4. QED
    BY <2>2, <2>3
<1>7. QED
  BY <1>5, <1>6 DEF ReadyAfter

(* The first block of a loop in the set is its header, and the blocks of   *)
(* the loop that are ready then are ones the header leads to.              *)
LEMMA ReadyAfterHeader ==
  ASSUME NEW g, IsShaderCfg(g), NEW S, ReachedWithin(g, S), NEW b \in S, b \in Live(g),
         \A x \in S : SameComponent(g, b, x) => x = b,
         NEW c \in g.blocks \ S, SameComponent(g, b, c), ReadyAfter(g, S, c)
  PROVE  c \in g.out[b]
<1>1. IsCfg(g) /\ b \in g.blocks /\ SameComponent(g, c, b) /\ c \in Live(g) /\ c # b
  <2>1. IsCfg(g)
    BY DEF IsShaderCfg
  <2>2. b \in g.blocks
    BY <2>1, CfgIsGraph, VisitedClosed DEF Live
  <2>3. QED
    BY <2>1, <2>2, ComponentsDivide
<1>2. PICK h : Heads(g, h, b)
  BY <1>1, LoopsHaveHeaders
<1>3. h = b
  <2>1. h \in g.blocks \ {g.entry} /\ b \notin Visited(g, g.entry, h) /\ SameComponent(g, b, h)
    BY <1>1, <1>2, ComponentsDivide DEF Heads
  <2>2. h \in S
    BY <2>1 DEF ReachedWithin
  <2>3. QED
    BY <2>1, <2>2
<1>4. c # g.entry
  BY <1>1, EntryInNoLoop
<1>5. PICK a \in InBlocks(g, c) : a \in Live(g) /\ <<a, c>> \notin BackEdges(g)
  BY <1>1, <1>4, EnteredForward
<1>6. a \in S
  BY <1>5 DEF ReadyAfter
<1>7. SameComponent(g, b, a)
  BY <1>1, <1>2, <1>3, <1>5, EnteredAtHeader
<1>8. a = b
  BY <1>6, <1>7
<1>9. QED
  BY <1>5, <1>8 DEF InBlocks
=============================================================================
