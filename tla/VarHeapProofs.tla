---------------------------- MODULE VarHeapProofs ----------------------------
(***************************************************************************)
(* The heap of variables, for every number of variables: its two arrays    *)
(* stay inverse to each other, its order holds between operations, it fits *)
(* its vector, and it implements the queue of VarQueue.                    *)
(***************************************************************************)
EXTENDS VarHeap, FiniteSetTheorems, FunctionTheorems, WellFoundedInduction, TLAPS

Positions == 1 .. Len(heap) - 1
Falls(p, q) == act[At(p)] >= act[At(q)]

(* The position a loop has reached is in the heap; build() comes down from *)
(* the positions already done.                                             *)
LoopPart ==
  /\ doing # "none" => at < Len(heap)
  /\ doing = "up" => rest = 0
  /\ doing = "down" => rest <= at

(* While a variable moves up, the order may fail between it and the one    *)
(* above it; its children are under that one, too.                         *)
UpPart ==
  doing = "up" =>
    /\ \A q \in Positions : q # at => Falls(Parent(q), q)
    /\ at > 0 => \A q \in Positions : Parent(q) = at => Falls(Parent(at), q)

(* While a variable moves down, the order may fail between it and its      *)
(* children; in build() the positions before rest are not in order yet.    *)
DownPart ==
  doing = "down" =>
    /\ \A q \in Positions : Parent(q) >= rest /\ Parent(q) # at => Falls(Parent(q), q)
    /\ at > 0 /\ Parent(at) >= rest =>
         \A q \in Positions : Parent(q) = at => Falls(Parent(at), q)

(* Only variables that have been set up are in the heap.                   *)
KnownPart == \A i \in 1 .. Len(heap) : heap[i] <= made

HeapInv ==
  HeapTypeOK /\ KnownPart /\ HeapIsInverse /\ HeapOrdered /\ LoopPart /\ UpPart /\ DownPart
-----------------------------------------------------------------------------
(***************************************************************************)
(* Positions.                                                              *)
(***************************************************************************)
LEMMA SmallestOf ==
  ASSUME NEW T \in SUBSET Nat, T # {}
  PROVE  \E n \in T : \A m \in T : n <= m
<1>1. PICK n \in T : \A m \in T : ~(<<m, n>> \in OpToRel(<, Nat))
  BY NatLessThanWellFounded, WFMin
<1>2. \A m \in T : ~(m < n)
  BY <1>1 DEF OpToRel
<1> QED BY <1>2

LEMMA ParentFacts ==
  ASSUME NEW q \in Nat, q > 0
  PROVE  Parent(q) \in Nat /\ Parent(q) < q /\ q \in {Left(Parent(q)), Left(Parent(q)) + 1}
BY DEF Parent, Left

LEMMA ChildFacts ==
  ASSUME NEW p \in Nat, NEW q \in {Left(p), Left(p) + 1}
  PROVE  q \in Nat /\ q > 0 /\ Parent(q) = p
BY DEF Parent, Left

LEMMA AtFacts ==
  ASSUME HeapTypeOK, NEW p \in Nat, p < Len(heap)
  PROVE  At(p) \in Var /\ act[At(p)] \in Nat /\ hpos[At(p)] \in Nat \cup {-1} /\ Len(heap) \in Nat
BY DEF HeapTypeOK, At

(* No two positions hold the same variable.                                *)
LEMMA AtIsInjective ==
  ASSUME HeapTypeOK, HeapIsInverse, NEW p \in Nat, NEW q \in Nat,
         p < Len(heap), q < Len(heap), At(p) = At(q)
  PROVE  p = q
<1>1. p + 1 \in 1 .. Len(heap) /\ q + 1 \in 1 .. Len(heap)
  BY DEF HeapTypeOK
<1>2. hpos[At(p)] = p /\ hpos[At(q)] = q
  BY <1>1 DEF HeapIsInverse, At
<1> QED BY <1>2

(* The variable at the top has the largest activity: of the positions with *)
(* a larger one the smallest would have a parent of the same kind.         *)
LEMMA TopIsMax ==
  ASSUME HeapTypeOK, HeapOrdered, doing = "none", NEW q \in Nat, q < Len(heap)
  PROVE  Falls(0, q)
<1> DEFINE T == {r \in Nat : r < Len(heap) /\ ~Falls(0, r)}
<1>1. SUFFICES ASSUME T # {} PROVE FALSE
  OBVIOUS
<1>2. PICK r \in T : \A s \in T : r <= s
  BY <1>1, SmallestOf
<1>3. r \in Nat /\ r < Len(heap) /\ Len(heap) \in Nat /\ ~Falls(0, r)
  BY <1>2, AtFacts
<1>4. act[At(0)] \in Nat /\ act[At(r)] \in Nat
  BY <1>3, AtFacts
<1>5. r # 0
  BY <1>3, <1>4 DEF Falls
<1>6. Parent(r) \in Nat /\ Parent(r) < r /\ Parent(r) < Len(heap)
  BY <1>3, <1>5, ParentFacts
<1>7. Parent(r) \notin T
  BY <1>2, <1>3, <1>6
<1>8. Falls(0, Parent(r))
  BY <1>6, <1>7
<1>9. Falls(Parent(r), r)
  BY <1>3, <1>5 DEF HeapOrdered, Falls
<1> QED BY <1>3, <1>4, <1>6, <1>8, <1>9, AtFacts DEF Falls
-----------------------------------------------------------------------------
(***************************************************************************)
(* The parts of the operations.                                            *)
(***************************************************************************)

(* An exchange keeps the arrays inverse and the set of the variables.      *)
LEMMA ExchangeKeeps ==
  ASSUME HeapTypeOK, HeapIsInverse, NEW p \in Nat, NEW q \in Nat,
         p < Len(heap), q < Len(heap), p # q, Exchange(p, q), made' = made
  PROVE  /\ heap' \in Seq(Var) /\ Len(heap') = Len(heap)
         /\ hpos' \in [Var -> Nat \cup {-1}]
         /\ At(p)' = At(q) /\ At(q)' = At(p)
         /\ \A r \in Nat : r < Len(heap) /\ r # p /\ r # q => At(r)' = At(r)
         /\ HeapIsInverse'
         /\ Elems(heap') = Elems(heap)
<1> DEFINE a == At(p)
           b == At(q)
<1>1. /\ heap \in Seq(Var) /\ Len(heap) \in Nat /\ hpos \in [Var -> Nat \cup {-1}]
      /\ p + 1 \in 1 .. Len(heap) /\ q + 1 \in 1 .. Len(heap) /\ p + 1 # q + 1
  BY DEF HeapTypeOK
<1>2. a \in Var /\ b \in Var /\ a # b
  BY AtFacts, AtIsInjective
<1>3. /\ heap' = [heap EXCEPT ![p + 1] = b, ![q + 1] = a]
      /\ hpos' = [hpos EXCEPT ![a] = q, ![b] = p]
  BY DEF Exchange
<1>4. a = heap[p + 1] /\ b = heap[q + 1]
  BY DEF At
<1> HIDE DEF a, b
<1>5. heap' \in Seq(Var) /\ Len(heap') = Len(heap) /\ DOMAIN heap' = 1 .. Len(heap)
  BY <1>1, <1>2, <1>3
<1>6. heap'[p + 1] = b /\ heap'[q + 1] = a
      /\ \A i \in 1 .. Len(heap) : i # p + 1 /\ i # q + 1 => heap'[i] = heap[i]
  BY <1>1, <1>2, <1>3
<1>7. hpos' \in [Var -> Nat \cup {-1}] /\ hpos'[a] = q /\ hpos'[b] = p
      /\ \A v \in Var : v # a /\ v # b => hpos'[v] = hpos[v]
  BY <1>1, <1>2, <1>3
<1>8. \A r \in Nat : r < Len(heap) /\ r # p /\ r # q => heap'[r + 1] = heap[r + 1]
  BY <1>1, <1>6
<1>9. ASSUME NEW i \in 1 .. Len(heap')
      PROVE  hpos'[heap'[i]] = i - 1
  <2>1. CASE i = p + 1
    BY <1>6, <1>7, <2>1
  <2>2. CASE i = q + 1
    BY <1>6, <1>7, <2>2
  <2>3. CASE i # p + 1 /\ i # q + 1
    <3>1. i \in 1 .. Len(heap) /\ heap'[i] = heap[i] /\ heap[i] \in Var
      BY <1>1, <1>5, <1>6, <2>3
    <3>2. hpos[heap[i]] = i - 1 /\ hpos[a] = p /\ hpos[b] = q
      BY <1>1, <1>4, <3>1 DEF HeapIsInverse
    <3>3. heap[i] # a /\ heap[i] # b
      BY <2>3, <3>1, <3>2
    <3> QED BY <1>7, <3>1, <3>2, <3>3
  <2> QED BY <2>1, <2>2, <2>3
<1>10. ASSUME NEW v \in Var, hpos'[v] # -1
       PROVE  \/ hpos'[v] < Len(heap') /\ heap'[hpos'[v] + 1] = v
              \/ hpos'[v] = 0 /\ v <= Prepared /\ (v \in DecVar => v > made')
  <2>1. CASE v = a
    BY <1>5, <1>6, <1>7, <2>1
  <2>2. CASE v = b
    BY <1>5, <1>6, <1>7, <2>2
  <2>3. CASE v # a /\ v # b
    <3>1. hpos'[v] = hpos[v] /\ hpos[v] \in Nat
      BY <1>1, <1>7, <1>10, <2>3
    <3>2. CASE hpos[v] < Len(heap) /\ heap[hpos[v] + 1] = v
      <4>1. hpos[v] # p /\ hpos[v] # q
        BY <1>4, <2>3, <3>2
      <4> QED BY <1>5, <1>8, <3>1, <3>2, <4>1
    <3>3. CASE hpos[v] = 0 /\ v <= Prepared /\ (v \in DecVar => v > made)
      BY <3>1, <3>3
    <3> QED BY <1>10, <3>1, <3>2, <3>3 DEF HeapIsInverse, At
  <2> QED BY <2>1, <2>2, <2>3
<1>11. HeapIsInverse'
  BY <1>9, <1>10 DEF HeapIsInverse, At
<1>12. Elems(heap') = Elems(heap)
  <2>1. ASSUME NEW i \in 1 .. Len(heap)
        PROVE  heap'[i] \in Elems(heap) /\ heap[i] \in Elems(heap')
    <3>1. DOMAIN heap = 1 .. Len(heap)
      BY <1>1
    <3>2. CASE i = p + 1
      BY <1>1, <1>4, <1>5, <1>6, <3>1, <3>2 DEF Elems
    <3>3. CASE i = q + 1
      BY <1>1, <1>4, <1>5, <1>6, <3>1, <3>3 DEF Elems
    <3>4. CASE i # p + 1 /\ i # q + 1
      BY <1>5, <1>6, <3>1, <3>4 DEF Elems
    <3> QED BY <3>2, <3>3, <3>4
  <2>2. Elems(heap) = {heap[i] : i \in 1 .. Len(heap)}
        /\ Elems(heap') = {heap'[i] : i \in 1 .. Len(heap)}
    BY <1>1, <1>5 DEF Elems
  <2> QED BY <2>1, <2>2
<1> QED BY <1>3, <1>4, <1>5, <1>6, <1>7, <1>8, <1>11, <1>12 DEF At

(* A variable that is not in the heap is appended.                         *)
LEMMA AddLastKeeps ==
  ASSUME HeapTypeOK, HeapIsInverse, NEW v \in Var, v \notin Elems(heap), AddLast(v),
         made' = made \/ (made' = made + 1 /\ v = made + 1)
  PROVE  /\ heap' \in Seq(Var) /\ Len(heap') = Len(heap) + 1
         /\ hpos' \in [Var -> Nat \cup {-1}]
         /\ heap'[Len(heap) + 1] = v
         /\ \A i \in 1 .. Len(heap) : heap'[i] = heap[i]
         /\ \A r \in Nat : r < Len(heap) => At(r)' = At(r)
         /\ HeapIsInverse'
         /\ Elems(heap') = Elems(heap) \cup {v}
<1> DEFINE n == Len(heap)
<1>1. /\ heap \in Seq(Var) /\ n \in Nat /\ hpos \in [Var -> Nat \cup {-1}] /\ made \in Nat
      /\ DOMAIN heap = 1 .. n
  BY SizeAssumption DEF HeapTypeOK
<1>2. heap' \in Seq(Var) /\ Len(heap') = n + 1 /\ heap'[n + 1] = v
      /\ \A i \in 1 .. n : heap'[i] = heap[i]
  BY <1>1 DEF AddLast
<1>3. hpos' \in [Var -> Nat \cup {-1}] /\ hpos'[v] = n /\ \A u \in Var : u # v => hpos'[u] = hpos[u]
  BY <1>1 DEF AddLast
<1>4. \A i \in 1 .. n : heap[i] \in Var /\ heap[i] # v
  BY <1>1 DEF Elems
<1> HIDE DEF n
<1>5. \A r \in Nat : r < n => heap'[r + 1] = heap[r + 1]
  BY <1>1, <1>2
<1>6. ASSUME NEW i \in 1 .. Len(heap')
      PROVE  hpos'[heap'[i]] = i - 1
  <2>1. CASE i = n + 1
    BY <1>1, <1>2, <1>3, <2>1
  <2>2. CASE i \in 1 .. n
    BY <1>2, <1>3, <1>4, <2>2 DEF HeapIsInverse, n
  <2> QED BY <1>1, <1>2, <2>1, <2>2
<1>7. ASSUME NEW u \in Var, hpos'[u] # -1
      PROVE  \/ hpos'[u] < Len(heap') /\ heap'[hpos'[u] + 1] = u
             \/ hpos'[u] = 0 /\ u <= Prepared /\ (u \in DecVar => u > made')
  <2>1. CASE u = v
    BY <1>1, <1>2, <1>3, <2>1
  <2>2. CASE u # v
    <3>1. hpos'[u] = hpos[u] /\ hpos[u] \in Nat
      BY <1>1, <1>3, <1>7, <2>2
    <3>2. CASE hpos[u] < n /\ heap[hpos[u] + 1] = u
      BY <1>1, <1>2, <1>5, <3>1, <3>2
    <3>3. CASE hpos[u] = 0 /\ u <= Prepared /\ (u \in DecVar => u > made)
      <4>1. u \in Nat
        BY SizeAssumption DEF Var
      <4> QED BY <1>1, <2>2, <3>1, <3>3, <4>1
    <3> QED BY <1>7, <3>1, <3>2, <3>3 DEF HeapIsInverse, At, n
  <2> QED BY <2>1, <2>2
<1>8. HeapIsInverse'
  BY <1>6, <1>7 DEF HeapIsInverse, At
<1>9. Elems(heap') = Elems(heap) \cup {v}
  <2>1. Elems(heap) = {heap[i] : i \in 1 .. n} /\ Elems(heap') = {heap'[i] : i \in 1 .. n + 1}
    <3>1. DOMAIN heap' = 1 .. n + 1
      BY <1>1, <1>2
    <3> QED BY <1>1, <3>1, Zenon DEF Elems
  <2>2. \A i \in 1 .. n + 1 : i = n + 1 \/ i \in 1 .. n
    BY <1>1
  <2>3. n + 1 \in 1 .. n + 1 /\ \A i \in 1 .. n : i \in 1 .. n + 1
    BY <1>1
  <2> QED BY <1>2, <2>1, <2>2, <2>3
<1> QED BY <1>2, <1>3, <1>5, <1>8, <1>9 DEF At, n

(* Unless it is the only one, the last variable takes the place of the     *)
(* first.                                                                  *)
LEMMA PopTopFacts ==
  ASSUME HeapTypeOK, HeapIsInverse, PopTop
  PROVE  /\ heap' \in Seq(Var) /\ Len(heap) \in Nat \ {0} /\ Len(heap') = Len(heap) - 1
         /\ hpos' \in [Var -> Nat \cup {-1}]
         /\ \A r \in Nat : r > 0 /\ r < Len(heap) - 1 => At(r)' = At(r)
         /\ \A i \in 1 .. Len(heap') : heap'[i] \in Elems(heap)
         /\ HeapIsInverse'
         /\ Elems(heap') = Elems(heap) \ {At(0)}
         /\ At(0) \in Var /\ At(0) \in Elems(heap)
<1> DEFINE n == Len(heap) - 1
           a == heap[1]
           b == heap[n + 1]
<1>1. /\ heap \in Seq(Var) /\ Len(heap) \in Nat \ {0} /\ hpos \in [Var -> Nat \cup {-1}]
      /\ DOMAIN heap = 1 .. n + 1 /\ n \in Nat /\ Len(heap) = n + 1
  BY DEF HeapTypeOK, PopTop
<1>8. heap' = IF n = 0 THEN <<>> ELSE [i \in 1 .. n |-> IF i = 1 THEN b ELSE heap[i]]
  BY DEF PopTop, At
<1>9. hpos' = IF n = 0 THEN [hpos EXCEPT ![a] = -1]
                        ELSE [[hpos EXCEPT ![a] = -1] EXCEPT ![b] = 0]
  BY DEF PopTop, At
<1> HIDE DEF n
<1>2. 1 \in 1 .. n + 1 /\ n + 1 \in 1 .. n + 1 /\ \A i \in 1 .. n : i \in 1 .. n + 1
  BY <1>1
<1>3. a \in Var /\ b \in Var /\ hpos[a] = 0 /\ hpos[b] = n
      /\ \A i \in 1 .. n + 1 : heap[i] \in Var /\ hpos[heap[i]] = i - 1
  BY <1>1, <1>2 DEF HeapIsInverse
<1>4. made' = made /\ At(0) = a
  BY DEF PopTop, At
<1>5. Elems(heap) = {heap[i] : i \in 1 .. n + 1}
  BY <1>1 DEF Elems
<1>6. CASE n = 0
  <2>1. heap' = <<>> /\ hpos' = [hpos EXCEPT ![a] = -1]
    BY <1>8, <1>6, <1>9
  <2>2. heap' \in Seq(Var) /\ Len(heap') = n /\ Elems(heap') = {}
    BY <1>6, <2>1 DEF Elems
  <2>3. hpos' \in [Var -> Nat \cup {-1}] /\ hpos'[a] = -1 /\ \A u \in Var : u # a => hpos'[u] = hpos[u]
    BY <1>1, <1>3, <2>1
  <2>4. \A i \in 1 .. n + 1 : heap[i] = a
    BY <1>1, <1>6
  <2>5. Elems(heap) = {a}
    BY <1>2, <1>5, <2>4
  <2>6. ASSUME NEW u \in Var, hpos'[u] # -1
        PROVE  hpos'[u] = 0 /\ u <= Prepared /\ (u \in DecVar => u > made')
    <3>1. u # a /\ hpos'[u] = hpos[u] /\ hpos[u] \in Nat
      BY <1>1, <2>3, <2>6
    <3>2. CASE hpos[u] < Len(heap) /\ heap[hpos[u] + 1] = u
      BY <1>1, <1>6, <3>1, <3>2
    <3> QED BY <1>4, <2>6, <3>1, <3>2 DEF HeapIsInverse, At
  <2>7. HeapIsInverse'
    BY <1>6, <2>2, <2>6 DEF HeapIsInverse, At
  <2>8. \A r \in Nat : r > 0 /\ r < Len(heap) - 1 => At(r)' = At(r)
    BY <1>1, <1>6
  <2> QED BY <1>1, <1>3, <1>4, <1>6, <2>2, <2>3, <2>5, <2>7, <2>8
<1>7. CASE n # 0
  <2>1. /\ heap' = [i \in 1 .. n |-> IF i = 1 THEN b ELSE heap[i]]
        /\ hpos' = [[hpos EXCEPT ![a] = -1] EXCEPT ![b] = 0]
    BY <1>8, <1>7, <1>9
  <2>2. a # b
    BY <1>1, <1>3, <1>7
  <2> HIDE DEF a, b
  <2>3. heap' \in Seq(Var) /\ Len(heap') = n /\ heap'[1] = b
        /\ \A i \in 1 .. n : i # 1 => heap'[i] = heap[i]
    BY <1>1, <1>3, <1>7, <2>1
  <2>4. /\ hpos' \in [Var -> Nat \cup {-1}] /\ hpos'[a] = -1 /\ hpos'[b] = 0
        /\ \A u \in Var : u # a /\ u # b => hpos'[u] = hpos[u]
    BY <1>1, <1>3, <2>1, <2>2
  <2>5. \A i \in 1 .. n : i # 1 => heap[i] # a /\ heap[i] # b
    BY <1>1, <1>3
  <2>6. \A i \in 1 .. n : hpos'[heap'[i]] = i - 1
    BY <1>2, <1>3, <2>3, <2>4, <2>5
  <2>7. ASSUME NEW u \in Var, hpos'[u] # -1
        PROVE  \/ hpos'[u] < n /\ heap'[hpos'[u] + 1] = u
               \/ hpos'[u] = 0 /\ u <= Prepared /\ (u \in DecVar => u > made')
    <3>1. u # a
      BY <2>4, <2>7
    <3>2. CASE u = b
      BY <1>1, <1>7, <2>3, <2>4, <3>2
    <3>3. CASE u # b
      <4>1. hpos'[u] = hpos[u] /\ hpos[u] \in Nat
        BY <1>1, <2>4, <2>7, <3>1, <3>3
      <4>2. CASE hpos[u] < n + 1 /\ heap[hpos[u] + 1] = u
        <5>1. hpos[u] # n /\ hpos[u] # 0
          BY <1>1, <3>1, <3>3, <4>2 DEF a, b
        <5>2. hpos[u] < n /\ hpos[u] + 1 \in 1 .. n /\ hpos[u] + 1 # 1
          BY <1>1, <4>1, <4>2, <5>1
        <5> QED BY <2>3, <4>1, <4>2, <5>2
      <4> QED BY <1>1, <1>4, <2>7, <4>1, <4>2 DEF HeapIsInverse, At
    <3> QED BY <3>2, <3>3
  <2>8. HeapIsInverse'
    BY <2>3, <2>6, <2>7 DEF HeapIsInverse, At
  <2>9. Elems(heap') = {heap'[i] : i \in 1 .. n}
    BY <1>1, <2>3 DEF Elems
  <2>10. Elems(heap') = Elems(heap) \ {a}
    <3>1. ASSUME NEW i \in 1 .. n
          PROVE  heap'[i] \in Elems(heap) /\ heap'[i] # a
      <4>1. CASE i = 1
        BY <1>2, <1>5, <2>2, <2>3, <4>1 DEF b
      <4>2. CASE i # 1
        BY <1>2, <1>5, <2>3, <2>5, <4>2
      <4> QED BY <4>1, <4>2
    <3>2. ASSUME NEW i \in 1 .. n + 1, heap[i] # a
          PROVE  heap[i] \in Elems(heap')
      <4>1. i # 1
        BY <3>2 DEF a
      <4>2. CASE i = n + 1
        <5>1. 1 \in 1 .. n
          BY <1>1, <1>7
        <5> QED BY <2>3, <2>9, <4>2, <5>1 DEF b
      <4>3. CASE i # n + 1
        <5>1. i \in 1 .. n
          BY <1>1, <4>3
        <5> QED BY <2>3, <2>9, <4>1, <5>1
      <4> QED BY <4>2, <4>3
    <3> QED BY <1>5, <2>9, <3>1, <3>2
  <2>11. ASSUME NEW r \in Nat, r > 0, r < Len(heap) - 1
         PROVE  At(r)' = At(r)
    <3>1. r + 1 \in 1 .. n /\ r + 1 # 1
      BY <1>1, <2>11
    <3> QED BY <2>3, <3>1 DEF At
  <2>12. \A i \in 1 .. n : heap'[i] \in Elems(heap)
    BY <2>9, <2>10
  <2>13. a \in Elems(heap)
    BY <1>2, <1>5 DEF a
  <2> QED BY <1>1, <1>3, <1>4, <2>3, <2>4, <2>8, <2>10, <2>11, <2>12, <2>13
<1> QED BY <1>6, <1>7
-----------------------------------------------------------------------------
(***************************************************************************)
(* The actions.                                                            *)
(***************************************************************************)
LEMMA InitInv == HeapInit => HeapInv
<1> SUFFICES ASSUME HeapInit PROVE HeapInv
  OBVIOUS
<1>1. HeapTypeOK
  BY SizeAssumption DEF HeapInit, HeapTypeOK
<1>2. KnownPart /\ HeapOrdered /\ LoopPart /\ UpPart /\ DownPart
  BY DEF HeapInit, KnownPart, HeapOrdered, LoopPart, UpPart, DownPart
<1>3. HeapIsInverse
  BY SizeAssumption DEF HeapInit, HeapIsInverse, Var
<1> QED BY <1>1, <1>2, <1>3 DEF HeapInv

(* A new variable has activity 0 and goes to the end: the order holds.     *)
LEMMA NewVarKeeps == ASSUME HeapInv, NewVar PROVE HeapInv'
<1>1. /\ doing = "none" /\ doing' = "none" /\ at' = at /\ rest' = rest /\ fixed' = fixed
      /\ made' = made + 1 /\ made \in Nat /\ made + 1 \in Var /\ made + 1 \in 0 .. NVar
      /\ got' = 0
  BY SizeAssumption DEF HeapInv, HeapTypeOK, NewVar, loopVars, Var
<1> DEFINE v == made + 1
<1>2. CASE v \in DecVar
  <2>1. AddLast(v) /\ act' = [act EXCEPT ![v] = 0]
    BY <1>2 DEF NewVar
  <2>2. v \notin Elems(heap)
    BY <1>1 DEF HeapInv, HeapTypeOK, KnownPart, Elems
  <2>3. /\ heap' \in Seq(Var) /\ Len(heap') = Len(heap) + 1 /\ Len(heap) \in Nat
        /\ hpos' \in [Var -> Nat \cup {-1}]
        /\ heap'[Len(heap) + 1] = v
        /\ \A i \in 1 .. Len(heap) : heap'[i] = heap[i] /\ heap[i] # v /\ heap[i] \in Var
        /\ \A r \in Nat : r < Len(heap) => At(r)' = At(r)
        /\ HeapIsInverse'
    <3>1. HeapTypeOK /\ HeapIsInverse /\ Len(heap) \in Nat
      BY DEF HeapInv, HeapTypeOK
    <3>2. \A i \in 1 .. Len(heap) : heap[i] # v /\ heap[i] \in Var
      BY <2>2, <3>1 DEF HeapTypeOK, Elems
    <3>3. v \in Var
      BY <1>1
    <3> HIDE DEF v
    <3> QED BY <1>1, <2>1, <2>2, <3>1, <3>2, <3>3, AddLastKeeps DEF v
  <2>4. act' \in [Var -> Nat] /\ act'[v] = 0 /\ \A u \in Var : u # v => act'[u] = act[u]
    BY <1>1, <2>1 DEF HeapInv, HeapTypeOK
  <2>5. fixed' \subseteq 1 .. made'
    BY <1>1 DEF HeapInv, HeapTypeOK
  <2>6. HeapTypeOK'
    BY <1>1, <2>3, <2>4, <2>5 DEF HeapTypeOK, HeapInv
  <2>7. KnownPart'
    <3>1. ASSUME NEW i \in 1 .. Len(heap')
          PROVE  heap'[i] <= made'
      <4>1. CASE i = Len(heap) + 1
        BY <1>1, <2>3, <4>1
      <4>2. CASE i \in 1 .. Len(heap)
        <5>1. heap[i] <= made /\ heap[i] \in Int /\ heap'[i] = heap[i]
          BY <2>3, <4>2 DEF HeapInv, KnownPart, Var
        <5> QED BY <1>1, <5>1
      <4> QED BY <2>3, <4>1, <4>2
    <3> QED BY <3>1 DEF KnownPart
  <2>8. ASSUME NEW p \in Positions'
        PROVE  (act[At(Parent(p))] >= act[At(p)])'
    <3>1. p \in Nat /\ p > 0 /\ p <= Len(heap)
      BY <2>3 DEF Positions
    <3>2. Parent(p) \in Nat /\ Parent(p) < Len(heap)
      BY <2>3, <3>1, ParentFacts
    <3>3. /\ At(Parent(p))' = At(Parent(p)) /\ At(Parent(p)) \in Var /\ At(Parent(p)) # v
      <4>1. Parent(p) + 1 \in 1 .. Len(heap)
        BY <2>3, <3>2
      <4> QED BY <2>3, <3>2, <4>1 DEF At
    <3>4. act'[At(Parent(p))'] \in Nat /\ act'[At(Parent(p))'] = act[At(Parent(p))]
      BY <2>4, <3>3
    <3>5. CASE p = Len(heap)
      <4>1. At(p)' = v
        BY <2>3, <3>5 DEF At
      <4> QED BY <2>4, <3>4, <4>1
    <3>6. CASE p < Len(heap)
      <4>1. At(p)' = At(p) /\ At(p) \in Var /\ At(p) # v
        <5>1. p + 1 \in 1 .. Len(heap)
          BY <2>3, <3>1, <3>6
        <5> QED BY <2>3, <3>1, <3>6, <5>1 DEF At
      <4>2. act[At(Parent(p))] >= act[At(p)]
        BY <1>1, <2>3, <3>1, <3>6 DEF HeapInv, HeapOrdered
      <4> QED BY <2>4, <3>3, <3>4, <4>1, <4>2
    <3> QED BY <2>3, <3>1, <3>5, <3>6
  <2>9. HeapOrdered'
    BY <2>8 DEF HeapOrdered, Positions
  <2> QED BY <1>1, <2>3, <2>6, <2>7, <2>9 DEF HeapInv, LoopPart, UpPart, DownPart
<1>3. CASE v \notin DecVar
  <2>1. heap' = heap /\ hpos' = hpos /\ act' = act
    BY <1>3 DEF NewVar
  <2>2. HeapTypeOK'
    BY <1>1, <2>1 DEF HeapInv, HeapTypeOK
  <2>3. \A u \in Var : u \in Nat
    BY DEF Var
  <2>4. HeapIsInverse'
    BY <1>1, <1>3, <2>1, <2>3 DEF HeapInv, HeapTypeOK, HeapIsInverse, At
  <2>5. KnownPart'
    <3>1. ASSUME NEW i \in 1 .. Len(heap)
          PROVE  heap[i] <= made'
      <4>1. heap[i] \in Nat /\ heap[i] <= made
        BY <2>3 DEF HeapInv, HeapTypeOK, KnownPart
      <4> QED BY <1>1, <4>1
    <3> QED BY <2>1, <3>1 DEF KnownPart
  <2>6. HeapOrdered'
    BY <1>1, <2>1 DEF HeapInv, HeapOrdered, At
  <2> QED BY <1>1, <2>2, <2>4, <2>5, <2>6 DEF HeapInv, LoopPart, UpPart, DownPart
<1> QED BY <1>2, <1>3

LEMMA PushKeeps == ASSUME HeapInv, NEW v \in Var, Push(v) PROVE HeapInv'
<1>1. /\ doing = "none" /\ doing' = "up" /\ at' = Len(heap) /\ rest' = 0
      /\ fixed' = fixed /\ made' = made /\ act' = act /\ got' = 0
      /\ v \in 1 .. made /\ hpos[v] = -1 /\ AddLast(v) /\ made \in 0 .. NVar
      /\ act \in [Var -> Nat]
  BY DEF HeapInv, HeapTypeOK, Push, Start
<1>2. v \notin Elems(heap)
  BY <1>1 DEF HeapInv, HeapTypeOK, HeapIsInverse, Elems
<1>3. /\ heap' \in Seq(Var) /\ Len(heap') = Len(heap) + 1 /\ Len(heap) \in Nat
      /\ hpos' \in [Var -> Nat \cup {-1}]
      /\ heap'[Len(heap) + 1] = v
      /\ \A i \in 1 .. Len(heap) : heap'[i] = heap[i]
      /\ \A r \in Nat : r < Len(heap) => At(r)' = At(r)
      /\ HeapIsInverse'
  BY <1>1, <1>2, AddLastKeeps DEF HeapInv, HeapTypeOK
<1>4. HeapTypeOK'
  BY <1>1, <1>3 DEF HeapTypeOK, HeapInv
<1>5. KnownPart'
  <2>1. ASSUME NEW i \in 1 .. Len(heap')
        PROVE  heap'[i] <= made'
    <3>1. CASE i = Len(heap) + 1
      BY <1>1, <1>3, <3>1
    <3>2. CASE i \in 1 .. Len(heap)
      BY <1>1, <1>3, <3>2 DEF HeapInv, KnownPart
    <3> QED BY <1>3, <3>1, <3>2
  <2> QED BY <2>1 DEF KnownPart
<1>6. ASSUME NEW q \in Positions', q # Len(heap)
      PROVE  (Falls(Parent(q), q))'
  <2>1. q \in Nat /\ q > 0 /\ q < Len(heap) /\ q \in 1 .. Len(heap) - 1
    BY <1>3, <1>6 DEF Positions
  <2>2. Parent(q) \in Nat /\ Parent(q) < Len(heap)
    BY <1>3, <2>1, ParentFacts
  <2>3. At(q)' = At(q) /\ At(Parent(q))' = At(Parent(q))
    BY <1>3, <2>1, <2>2
  <2>4. act[At(Parent(q))] >= act[At(q)]
    BY <1>1, <2>1 DEF HeapInv, HeapOrdered
  <2> QED BY <1>1, <2>3, <2>4 DEF Falls
<1>7. ASSUME NEW q \in Positions'
      PROVE  Parent(q) # Len(heap)
  <2>1. q \in Nat /\ q > 0 /\ q <= Len(heap)
    BY <1>3 DEF Positions
  <2> QED BY <1>3, <2>1, ParentFacts
<1>8. UpPart'
  BY <1>1, <1>6, <1>7 DEF UpPart
<1> QED BY <1>1, <1>3, <1>4, <1>5, <1>8 DEF HeapInv, HeapOrdered, LoopPart, DownPart

LEMMA PopTopKeeps == ASSUME HeapInv, PopTop PROVE HeapInv'
<1>1. /\ doing = "none" /\ act' = act /\ fixed' = fixed /\ made' = made /\ got' = At(0)
  BY DEF PopTop
<1>2. /\ heap' \in Seq(Var) /\ Len(heap) \in Nat \ {0} /\ Len(heap') = Len(heap) - 1
      /\ hpos' \in [Var -> Nat \cup {-1}]
      /\ \A r \in Nat : r > 0 /\ r < Len(heap) - 1 => At(r)' = At(r)
      /\ \A i \in 1 .. Len(heap') : heap'[i] \in Elems(heap)
      /\ HeapIsInverse' /\ At(0) \in Var
  BY PopTopFacts DEF HeapInv
<1>3. \/ Len(heap') = 0 /\ doing' = "none" /\ at' = 0 /\ rest' = 0
      \/ Len(heap') > 0 /\ doing' = "down" /\ at' = 0 /\ rest' = 0
  <2>1. Len(heap) - 1 = 0 \/ Len(heap) - 1 > 0
    BY <1>2
  <2> QED BY <1>2, <2>1 DEF PopTop, Start, Stay
<1>4. HeapTypeOK'
  BY <1>1, <1>2, <1>3, SMTT(30) DEF HeapInv, HeapTypeOK
<1>5. KnownPart'
  <2>1. \A u \in Elems(heap) : u <= made
    BY DEF HeapInv, HeapTypeOK, KnownPart, Elems
  <2> QED BY <1>1, <1>2, <2>1 DEF KnownPart
<1>6. ASSUME NEW q \in Positions', Parent(q) # 0
      PROVE  (Falls(Parent(q), q))'
  <2>1. q \in Nat /\ q > 0 /\ q < Len(heap) - 1 /\ q \in 1 .. Len(heap) - 1
    BY <1>2 DEF Positions
  <2>2. Parent(q) \in Nat /\ Parent(q) < Len(heap) - 1 /\ Parent(q) > 0
    BY <1>2, <1>6, <2>1, ParentFacts
  <2>3. At(q)' = At(q) /\ At(Parent(q))' = At(Parent(q))
    BY <1>2, <2>1, <2>2
  <2>4. act[At(Parent(q))] >= act[At(q)]
    BY <1>1, <2>1 DEF HeapInv, HeapOrdered
  <2> QED BY <1>1, <2>3, <2>4 DEF Falls
<1>7. DownPart'
  BY <1>3, <1>6 DEF DownPart
<1>8. HeapOrdered'
  <2>1. CASE Len(heap') = 0
    BY <2>1 DEF HeapOrdered
  <2>2. CASE Len(heap') > 0
    <3>1. doing' = "down"
      BY <1>3, <2>2
    <3> QED BY <3>1 DEF HeapOrdered
  <2> QED BY <1>3, <2>1, <2>2
<1>9. LoopPart' /\ UpPart'
  BY <1>3 DEF LoopPart, UpPart
<1> QED BY <1>2, <1>4, <1>5, <1>7, <1>8, <1>9 DEF HeapInv

(* Scaling keeps the order.                                                *)
LEMMA RaisedFacts ==
  ASSUME HeapTypeOK, NEW v \in Var, NEW d \in Bumps
  PROVE  /\ Raised(v, d) \in [Var -> Nat]
         /\ \A u, w \in Var : w = v \/ u # v =>
              (act[u] <= act[w] => Raised(v, d)[u] <= Raised(v, d)[w])
<1> DEFINE grown == [act EXCEPT ![v] = @ + d]
<1>1. act \in [Var -> Nat] /\ d \in Nat /\ ActLimit \in Nat
  BY HeapAssumption DEF HeapTypeOK
<1>2. /\ grown \in [Var -> Nat] /\ grown[v] = act[v] + d
      /\ \A u \in Var : u # v => grown[u] = act[u]
  BY <1>1
<1>3. \A u, w \in Var : w = v \/ u # v => (act[u] <= act[w] => grown[u] <= grown[w])
  BY <1>1, <1>2
<1> HIDE DEF grown
<1>4. Raised(v, d) = IF grown[v] > ActLimit THEN [u \in Var |-> grown[u] \div 2] ELSE grown
  BY DEF Raised, grown
<1>5. \A a, b \in Nat : a \div 2 \in Nat /\ (a <= b => a \div 2 <= b \div 2)
  OBVIOUS
<1>6. CASE grown[v] > ActLimit
  <2>1. Raised(v, d) = [u \in Var |-> grown[u] \div 2]
    BY <1>4, <1>6
  <2>2. Raised(v, d) \in [Var -> Nat] /\ \A u \in Var : Raised(v, d)[u] = grown[u] \div 2
    BY <1>2, <1>5, <2>1
  <2>3. ASSUME NEW u \in Var, NEW w \in Var, w = v \/ u # v, act[u] <= act[w]
        PROVE  Raised(v, d)[u] <= Raised(v, d)[w]
    <3>1. grown[u] \in Nat /\ grown[w] \in Nat /\ grown[u] <= grown[w]
      BY <1>2, <1>3, <2>3
    <3> QED BY <1>5, <2>2, <3>1
  <2> QED BY <2>2, <2>3
<1>7. CASE ~(grown[v] > ActLimit)
  BY <1>2, <1>3, <1>4, <1>7
<1> QED BY <1>6, <1>7

LEMMA BumpKeeps == ASSUME HeapInv, NEW v \in Var, NEW d \in Bumps, Bump(v, d) PROVE HeapInv'
<1>1. /\ doing = "none" /\ act' = Raised(v, d) /\ heap' = heap /\ hpos' = hpos /\ got' = 0
      /\ fixed' = fixed /\ made' = made /\ rest' = 0
      /\ heap \in Seq(Var) /\ Len(heap) \in Nat /\ hpos \in [Var -> Nat \cup {-1}]
      /\ act \in [Var -> Nat]
  BY DEF HeapInv, HeapTypeOK, Bump, Start, Stay
<1>2. /\ act' \in [Var -> Nat]
      /\ \A u, w \in Var : w = v \/ u # v => (act[u] <= act[w] => act'[u] <= act'[w])
  BY <1>1, RaisedFacts DEF HeapInv
<1>3. \/ hpos[v] > 0 /\ doing' = "up" /\ at' = hpos[v]
      \/ ~(hpos[v] > 0) /\ doing' = "none" /\ at' = 0
  BY DEF Bump, Start, Stay
<1>4. HeapTypeOK'
  BY <1>1, <1>2, <1>3 DEF HeapInv, HeapTypeOK
<1>5. KnownPart' /\ HeapIsInverse' /\ DownPart'
  BY <1>1, <1>3 DEF HeapInv, KnownPart, HeapIsInverse, DownPart, At
<1>6. ASSUME NEW q \in Nat, q > 0, q < Len(heap)
      PROVE  /\ Parent(q) \in Nat /\ Parent(q) < q
             /\ At(q) \in Var /\ At(Parent(q)) \in Var /\ hpos[At(q)] = q
             /\ act[At(Parent(q))] >= act[At(q)]
             /\ At(q) # v => act'[At(Parent(q))] >= act'[At(q)]
  <2>1. Parent(q) \in Nat /\ Parent(q) < q
    BY <1>6, ParentFacts
  <2>2. At(q) \in Var /\ At(Parent(q)) \in Var
    BY <1>1, <1>6, <2>1, AtFacts DEF HeapInv
  <2>3. hpos[At(q)] = q
    <3>1. q + 1 \in 1 .. Len(heap)
      BY <1>1, <1>6
    <3> QED BY <3>1 DEF HeapInv, HeapIsInverse, At
  <2>4. act[At(Parent(q))] >= act[At(q)]
    BY <1>1, <1>6 DEF HeapInv, HeapOrdered
  <2>5. At(q) # v => act'[At(Parent(q))] >= act'[At(q)]
    BY <1>1, <1>2, <2>2, <2>4
  <2> QED BY <2>1, <2>2, <2>3, <2>4, <2>5
<1>7. CASE hpos[v] > 0
  <2>1. hpos[v] \in Nat /\ hpos[v] < Len(heap) /\ At(hpos[v]) = v
    BY <1>1, <1>7 DEF HeapInv, HeapIsInverse
  <2>2. ASSUME NEW q \in Positions', q # at'
        PROVE  (Falls(Parent(q), q))'
    <3>1. q \in Nat /\ q > 0 /\ q < Len(heap)
      BY <1>1 DEF Positions
    <3>2. At(q) # v
      BY <1>3, <1>6, <1>7, <2>2, <3>1
    <3> QED BY <1>1, <1>6, <3>1, <3>2 DEF Falls, At
  <2>3. ASSUME NEW q \in Positions', Parent(q) = at'
        PROVE  (Falls(Parent(at), q))'
    <3>1. q \in Nat /\ q > 0 /\ q < Len(heap)
      BY <1>1 DEF Positions
    <3>2. at' = hpos[v] /\ at' \in Nat /\ at' > 0 /\ at' < Len(heap) /\ At(at') = v
      BY <1>3, <1>7, <2>1
    <3>3. At(q) # v /\ act[v] >= act[At(q)] /\ At(q) \in Var
      BY <1>6, <2>3, <3>1, <3>2
    <3>4. act[At(Parent(at'))] >= act[v] /\ At(Parent(at')) \in Var
      BY <1>6, <3>2
    <3>5. act[At(Parent(at'))] >= act[At(q)]
      BY <1>1, <3>3, <3>4
    <3>6. act'[At(Parent(at'))] >= act'[At(q)]
      BY <1>1, <1>2, <3>3, <3>4, <3>5
    <3> QED BY <1>1, <3>6 DEF Falls, At, Parent
  <2>4. UpPart'
    BY <2>2, <2>3 DEF UpPart
  <2> QED BY <1>1, <1>3, <1>4, <1>5, <1>7, <2>1, <2>4 DEF HeapInv, HeapOrdered, LoopPart
<1>8. CASE ~(hpos[v] > 0)
  <2>1. ASSUME NEW q \in Positions'
        PROVE  (act[At(Parent(q))] >= act[At(q)])'
    <3>1. q \in Nat /\ q > 0 /\ q < Len(heap)
      BY <1>1 DEF Positions
    <3>2. At(q) # v
      BY <1>6, <1>8, <3>1
    <3> QED BY <1>1, <1>6, <3>1, <3>2 DEF At
  <2>2. HeapOrdered'
    BY <2>1 DEF HeapOrdered, Positions
  <2> QED BY <1>1, <1>3, <1>4, <1>5, <1>8, <2>2 DEF HeapInv, LoopPart, UpPart
<1> QED BY <1>7, <1>8

(* The order in which build() starts: nothing but positions from rest on,  *)
(* which have no children yet.                                             *)
LEMMA BuildKeeps == ASSUME HeapInv, NEW F \in SUBSET Var, Build(F) PROVE HeapInv'
<1> DEFINE S == (DecVar \cap 1 .. made) \ F
           half == Len(heap') \div 2
<1>1. /\ doing = "none" /\ act' = act /\ made' = made /\ got' = 0 /\ fixed' = F
      /\ F \subseteq 1 .. made
      /\ heap' \in Listed(S)
      /\ hpos' = [v \in Var |-> PositionIn(heap', v)]
      /\ IF half > 0 THEN doing' = "down" /\ at' = half - 1 /\ rest' = half - 1 ELSE Stay
  BY DEF Build
<1>2. S \in SUBSET Var /\ made \in 0 .. NVar /\ \A v \in S : v <= made
  BY HeapAssumption DEF HeapInv, HeapTypeOK
<1>3. Cardinality(S) \in Nat
  <2>1. IsFiniteSet(Var)
    BY SizeAssumption, FS_Interval DEF Var
  <2> QED BY <1>2, <2>1, FS_Subset, FS_CardinalityType
<1> DEFINE n == Cardinality(S)
<1>4. heap' \in [1 .. n -> S] /\ \A i, j \in 1 .. n : i < j => heap'[i] < heap'[j]
  BY <1>1 DEF Listed
<1> HIDE DEF S, n, half
<1>5. heap' \in Seq(Var) /\ Len(heap') = n /\ n \in Nat /\ DOMAIN heap' = 1 .. n
  BY <1>2, <1>3, <1>4 DEF n
<1>6. \A i \in 1 .. n : heap'[i] \in S /\ heap'[i] \in Var /\ heap'[i] \in Int
  <2>1. \A i \in 1 .. n : heap'[i] \in S
    BY <1>4
  <2>2. \A v \in Var : v \in Int
    BY DEF Var
  <2> QED BY <1>2, <2>1, <2>2
<1>7. \A i, j \in 1 .. n : heap'[i] = heap'[j] => i = j
  <2>1. SUFFICES ASSUME NEW i \in 1 .. n, NEW j \in 1 .. n, heap'[i] = heap'[j], i # j
                 PROVE  FALSE
    OBVIOUS
  <2>2. CASE i < j
    BY <1>4, <1>6, <2>1, <2>2
  <2>3. CASE j < i
    BY <1>4, <1>6, <2>1, <2>3
  <2> QED BY <1>5, <2>1, <2>2, <2>3
<1>8. ASSUME NEW i \in 1 .. n
      PROVE  PositionIn(heap', heap'[i]) = i - 1
  <2>1. heap'[i] \in Elems(heap')
    BY <1>5 DEF Elems
  <2>2. (CHOOSE j \in DOMAIN heap' : heap'[j] = heap'[i]) = i
    BY <1>5, <1>7
  <2> QED BY <2>1, <2>2 DEF PositionIn
<1>9. ASSUME NEW v \in Var
      PROVE  \/ PositionIn(heap', v) = -1
             \/ \E i \in 1 .. n : heap'[i] = v /\ PositionIn(heap', v) = i - 1
  <2>1. CASE v \notin Elems(heap')
    BY <2>1 DEF PositionIn
  <2>2. CASE v \in Elems(heap')
    BY <1>5, <1>8, <2>2 DEF Elems
  <2> QED BY <2>1, <2>2
<1>10. hpos' \in [Var -> Nat \cup {-1}]
  <2>1. \A v \in Var : PositionIn(heap', v) \in Nat \cup {-1}
    BY <1>5, <1>9
  <2> QED BY <1>1, <2>1
<1>11. HeapIsInverse'
  <2>1. ASSUME NEW i \in 1 .. Len(heap')
        PROVE  hpos'[heap'[i]] = i - 1
    BY <1>1, <1>5, <1>6, <1>8
  <2>2. ASSUME NEW v \in Var, hpos'[v] # -1
        PROVE  hpos'[v] < Len(heap') /\ heap'[hpos'[v] + 1] = v
    <3>1. PICK i \in 1 .. n : heap'[i] = v /\ hpos'[v] = i - 1
      BY <1>1, <1>9, <2>2
    <3> QED BY <1>5, <3>1
  <2> QED BY <2>1, <2>2 DEF HeapIsInverse, At
<1>12. KnownPart'
  BY <1>1, <1>2, <1>5, <1>6 DEF KnownPart
<1>13. half \in Nat /\ 2 * half <= n /\ n <= 2 * half + 1
  BY <1>5 DEF half
<1>14. \/ half > 0 /\ doing' = "down" /\ at' = half - 1 /\ rest' = half - 1
       \/ half = 0 /\ doing' = "none" /\ at' = 0 /\ rest' = 0
  BY <1>1, <1>13 DEF Stay, Start
<1>15. HeapTypeOK'
  BY <1>1, <1>2, <1>5, <1>10, <1>13, <1>14 DEF HeapInv, HeapTypeOK
<1>16. ASSUME NEW q \in Positions'
       PROVE  q \in Nat /\ q > 0 /\ q < n /\ Parent(q) \in Nat /\ Parent(q) < half
  <2>1. q \in Nat /\ q > 0 /\ q < n
    BY <1>5 DEF Positions
  <2>2. Parent(q) \in Nat /\ 2 * Parent(q) + 1 <= q
    BY <2>1, ParentFacts DEF Left
  <2> QED BY <1>5, <1>13, <2>1, <2>2
<1>17. CASE half > 0
  <2>1. doing' = "down" /\ at' = half - 1 /\ rest' = half - 1 /\ at' \in Nat
    BY <1>13, <1>14, <1>17
  <2>2. ASSUME at' > 0
        PROVE  Parent(at') < rest'
    BY <2>1, <2>2, ParentFacts
  <2>3. \A q \in Positions' : ~(Parent(q) >= rest' /\ Parent(q) # at')
    BY <1>13, <1>16, <2>1
  <2>4. DownPart'
    <3>1. \A q \in Positions' : (Parent(q) >= rest /\ Parent(q) # at => Falls(Parent(q), q))'
      BY <2>3 DEF Parent
    <3>2. ~(at > 0 /\ Parent(at) >= rest)'
      <4>1. CASE at' > 0
        <5>1. Parent(at') \in Nat /\ Parent(at') < at'
          BY <2>1, <4>1, ParentFacts
        <5> QED BY <2>1, <5>1 DEF Parent
      <4> QED BY <4>1
    <3> QED BY <3>1, <3>2 DEF DownPart, Positions
  <2> QED BY <1>5, <1>11, <1>12, <1>13, <1>15, <2>1, <2>4
          DEF HeapInv, HeapOrdered, LoopPart, UpPart
<1>18. CASE half = 0
  <2>1. Positions' = {}
    BY <1>13, <1>16, <1>18
  <2>2. doing' = "none"
    BY <1>14, <1>18
  <2>3. HeapOrdered'
    BY <2>1 DEF HeapOrdered, Positions
  <2> QED BY <1>11, <1>12, <1>15, <2>2, <2>3 DEF HeapInv, LoopPart, UpPart, DownPart
<1> QED BY <1>13, <1>17, <1>18

(* What the exchanges do to the activities by position (f before, g after).*)
LEMMA RankUp ==
  ASSUME NEW n \in Nat, NEW f, NEW g, NEW a \in Nat, a > 0, a < n,
         \A r \in Nat : r < n => f[r] \in Nat,
         f[Parent(a)] < f[a], g[a] = f[Parent(a)], g[Parent(a)] = f[a],
         \A r \in Nat : r < n /\ r # a /\ r # Parent(a) => g[r] = f[r],
         \A q \in 1 .. n - 1 : q # a => f[Parent(q)] >= f[q],
         \A q \in 1 .. n - 1 : Parent(q) = a => f[Parent(a)] >= f[q]
  PROVE  /\ \A q \in 1 .. n - 1 : q # Parent(a) => g[Parent(q)] >= g[q]
         /\ Parent(a) > 0 =>
              \A q \in 1 .. n - 1 : Parent(q) = Parent(a) => g[Parent(Parent(a))] >= g[q]
<1> DEFINE p == Parent(a)
<1>1. p \in Nat /\ p < a /\ p < n
  BY ParentFacts
<1>2. \A q \in 1 .. n - 1 : q \in Nat /\ q > 0 /\ q < n /\ Parent(q) \in Nat /\ Parent(q) < q
  <2> TAKE q \in 1 .. n - 1
  <2>1. q \in Nat /\ q > 0 /\ q < n
    OBVIOUS
  <2> QED BY <2>1, ParentFacts
<1> HIDE DEF p
<1>3. f[p] < f[a] /\ g[a] = f[p] /\ g[p] = f[a] /\ f[a] \in Nat /\ f[p] \in Nat
      /\ \A r \in Nat : r < n /\ r # a /\ r # p => g[r] = f[r]
      /\ \A q \in 1 .. n - 1 : Parent(q) = a => f[p] >= f[q]
  BY <1>1 DEF p
<1>4. ASSUME NEW q \in 1 .. n - 1, q # p
      PROVE  g[Parent(q)] >= g[q]
  <2>1. f[q] \in Nat /\ f[Parent(q)] \in Nat /\ q < n /\ Parent(q) < n
    BY <1>2
  <2>2. CASE q = a
    BY <1>1, <1>3, <2>2 DEF p
  <2>3. CASE q # a /\ Parent(q) = a
    BY <1>2, <1>3, <1>4, <2>1, <2>3
  <2>4. CASE q # a /\ Parent(q) = p
    BY <1>2, <1>3, <1>4, <2>1, <2>4
  <2>5. CASE q # a /\ Parent(q) # a /\ Parent(q) # p
    BY <1>2, <1>3, <1>4, <2>1, <2>5
  <2> QED BY <2>2, <2>3, <2>4, <2>5
<1>5. ASSUME p > 0, NEW q \in 1 .. n - 1, Parent(q) = p
      PROVE  g[Parent(p)] >= g[q]
  <2>1. Parent(p) \in Nat /\ Parent(p) < p
    BY <1>1, <1>5, ParentFacts
  <2>2. p \in 1 .. n - 1
    BY <1>1, <1>5
  <2>3. f[Parent(p)] >= f[p] /\ f[Parent(p)] \in Nat /\ g[Parent(p)] = f[Parent(p)]
    BY <1>1, <1>3, <2>1, <2>2
  <2>4. CASE q = a
    BY <1>3, <2>3, <2>4
  <2>5. CASE q # a
    <3>1. f[p] >= f[q] /\ q # p /\ q < n /\ f[q] \in Nat /\ g[q] = f[q]
      BY <1>2, <1>3, <1>5, <2>5
    <3> QED BY <1>3, <2>3, <3>1
  <2> QED BY <2>4, <2>5
<1> QED BY <1>4, <1>5 DEF p

(* A variable of rank f[a] sinks from a to c, the order holding from r0 on.*)
SinksTo(n, f, g, a, r0, c) ==
  /\ \A r \in Nat : r < n => f[r] \in Nat
  /\ f[c] > f[a] /\ g[a] = f[c] /\ g[c] = f[a]
  /\ \A r \in Nat : r < n /\ r # a /\ r # c => g[r] = f[r]
  /\ \A q \in 1 .. n - 1 : Parent(q) = a => f[c] >= f[q]
  /\ \A q \in 1 .. n - 1 : Parent(q) >= r0 /\ Parent(q) # a => f[Parent(q)] >= f[q]
  /\ a > 0 /\ Parent(a) >= r0 =>
       \A q \in 1 .. n - 1 : Parent(q) = a => f[Parent(a)] >= f[q]

LEMMA RankDown ==
  ASSUME NEW n \in Nat, NEW f, NEW g, NEW a \in Nat, a < n, NEW r0 \in Nat, r0 <= a,
         NEW c \in Nat, c < n, c > 0, Parent(c) = a, SinksTo(n, f, g, a, r0, c)
  PROVE  /\ \A q \in 1 .. n - 1 : Parent(q) >= r0 /\ Parent(q) # c => g[Parent(q)] >= g[q]
         /\ \A q \in 1 .. n - 1 : Parent(q) = c => g[a] >= g[q]
<1> USE DEF SinksTo
<1>1. \A q \in 1 .. n - 1 : q \in Nat /\ q > 0 /\ q < n /\ Parent(q) \in Nat /\ Parent(q) < q
  <2> TAKE q \in 1 .. n - 1
  <2>1. q \in Nat /\ q > 0 /\ q < n
    OBVIOUS
  <2> QED BY <2>1, ParentFacts
<1>2. c \in 1 .. n - 1 /\ a < c /\ f[a] \in Nat /\ f[c] \in Nat
  BY <1>1
<1>3. ASSUME NEW q \in 1 .. n - 1, Parent(q) >= r0, Parent(q) # c
      PROVE  g[Parent(q)] >= g[q]
  <2>1. f[q] \in Nat /\ f[Parent(q)] \in Nat /\ q < n /\ Parent(q) < n /\ q \in Nat /\ Parent(q) \in Nat
    BY <1>1
  <2>2. CASE q = c
    BY <1>2, <2>2
  <2>3. CASE q # c /\ Parent(q) = a
    <3>1. q # a
      BY <1>1, <2>3
    <3> QED BY <1>2, <1>3, <2>1, <2>3, <3>1
  <2>4. CASE q = a
    <3>1. a > 0 /\ Parent(a) >= r0 /\ Parent(a) # a /\ Parent(a) # c /\ Parent(a) < n /\ Parent(a) \in Nat
      BY <1>1, <1>2, <1>3, <2>1, <2>4
    <3>2. f[Parent(a)] >= f[c] /\ g[Parent(a)] = f[Parent(a)]
      BY <1>2, <3>1
    <3> QED BY <2>4, <3>2
  <2>5. CASE q # c /\ q # a /\ Parent(q) # a
    <3>1. g[q] = f[q] /\ g[Parent(q)] = f[Parent(q)]
      BY <1>3, <2>1, <2>5
    <3> QED BY <1>3, <2>5, <3>1
  <2> QED BY <2>2, <2>3, <2>4, <2>5
<1>4. ASSUME NEW q \in 1 .. n - 1, Parent(q) = c
      PROVE  g[a] >= g[q]
  <2>1. q # c /\ q # a /\ q < n /\ q \in Nat /\ c # a
    BY <1>1, <1>2, <1>4
  <2>2. f[c] >= f[q]
    BY <1>2, <1>4
  <2> QED BY <2>1, <2>2
<1> QED BY <1>3, <1>4

(* The activities by position.                                             *)
Ranks == [r \in 0 .. Len(heap) - 1 |-> act[At(r)]]

LEMMA RanksFacts ==
  ASSUME HeapTypeOK
  PROVE  /\ Len(heap) \in Nat
         /\ \A r \in Nat : r < Len(heap) => Ranks[r] \in Nat /\ Ranks[r] = act[At(r)]
         /\ \A q \in Positions : /\ q \in Nat /\ q > 0 /\ q < Len(heap) /\ Parent(q) \in Nat
                                 /\ Falls(Parent(q), q) <=> Ranks[Parent(q)] >= Ranks[q]
<1>1. Len(heap) \in Nat
  BY DEF HeapTypeOK
<1>2. \A r \in Nat : r < Len(heap) => Ranks[r] \in Nat /\ Ranks[r] = act[At(r)]
  BY <1>1, AtFacts DEF Ranks
<1>3. ASSUME NEW q \in Positions
      PROVE  /\ q \in Nat /\ q > 0 /\ q < Len(heap) /\ Parent(q) \in Nat
             /\ Falls(Parent(q), q) <=> Ranks[Parent(q)] >= Ranks[q]
  <2>1. q \in Nat /\ q > 0 /\ q < Len(heap)
    BY <1>1 DEF Positions
  <2>2. Parent(q) \in Nat /\ Parent(q) < Len(heap)
    BY <1>1, <2>1, ParentFacts
  <2> QED BY <1>2, <2>1, <2>2 DEF Falls
<1> QED BY <1>1, <1>2, <1>3

(* An exchange swaps the activities of two positions and no others.        *)
LEMMA LoopExchange ==
  ASSUME HeapInv, NEW a \in Nat, NEW b \in Nat, a < Len(heap), b < Len(heap), a # b,
         Exchange(a, b), UNCHANGED <<act, got, made, fixed>>
  PROVE  /\ heap' \in Seq(Var) /\ Len(heap') = Len(heap)
         /\ hpos' \in [Var -> Nat \cup {-1}] /\ act' \in [Var -> Nat]
         /\ got' \in Var \cup {0} /\ made' \in 0 .. NVar /\ fixed' \subseteq 1 .. made'
         /\ KnownPart' /\ HeapIsInverse' /\ Elems(heap') = Elems(heap)
         /\ Ranks'[a] = Ranks[b] /\ Ranks'[b] = Ranks[a]
         /\ \A r \in Nat : r < Len(heap) /\ r # a /\ r # b => Ranks'[r] = Ranks[r]
         /\ \A r \in Nat : r < Len(heap) => Ranks[r] \in Nat /\ Ranks[r] = act[At(r)]
         /\ \A q \in Positions : Parent(q) \in Nat /\ Parent(q) < Len(heap) =>
              (Falls(Parent(q), q)' <=> Ranks'[Parent(q)] >= Ranks'[q])
<1>1. HeapTypeOK /\ HeapIsInverse /\ made' = made /\ act' = act /\ Len(heap) \in Nat
  BY DEF HeapInv, HeapTypeOK
<1>2. /\ heap' \in Seq(Var) /\ Len(heap') = Len(heap)
      /\ hpos' \in [Var -> Nat \cup {-1}]
      /\ At(a)' = At(b) /\ At(b)' = At(a)
      /\ \A r \in Nat : r < Len(heap) /\ r # a /\ r # b => At(r)' = At(r)
      /\ HeapIsInverse'
      /\ Elems(heap') = Elems(heap)
  BY <1>1, ExchangeKeeps
<1>3. act' \in [Var -> Nat] /\ got' \in Var \cup {0} /\ made' \in 0 .. NVar
      /\ fixed' \subseteq 1 .. made'
  BY <1>1 DEF HeapTypeOK
<1>4. KnownPart'
  <2>1. \A v \in Elems(heap) : v <= made
    BY <1>1 DEF HeapInv, HeapTypeOK, KnownPart, Elems
  <2>2. \A i \in 1 .. Len(heap') : heap'[i] \in Elems(heap')
    BY <1>2 DEF Elems
  <2> QED BY <1>1, <1>2, <2>1, <2>2 DEF KnownPart
<1>5. /\ \A r \in Nat : r < Len(heap) => Ranks[r] \in Nat /\ Ranks[r] = act[At(r)]
  BY <1>1, RanksFacts
<1>6. \A r \in Nat : r < Len(heap) => Ranks'[r] = act[At(r)']
  <2> TAKE r \in Nat
  <2> HAVE r < Len(heap)
  <2>1. r \in 0 .. Len(heap') - 1
    BY <1>1, <1>2
  <2> QED BY <1>1, <2>1 DEF Ranks, At
<1>7. Ranks'[a] = Ranks[b] /\ Ranks'[b] = Ranks[a]
  BY <1>2, <1>5, <1>6
<1>8. \A r \in Nat : r < Len(heap) /\ r # a /\ r # b => Ranks'[r] = Ranks[r]
  BY <1>2, <1>5, <1>6
<1>9. \A q \in Positions : Parent(q) \in Nat /\ Parent(q) < Len(heap) =>
        (Falls(Parent(q), q)' <=> Ranks'[Parent(q)] >= Ranks'[q])
  <2> TAKE q \in Positions
  <2> HAVE Parent(q) \in Nat /\ Parent(q) < Len(heap)
  <2>1. q \in Nat /\ q < Len(heap)
    BY <1>1 DEF Positions
  <2>2. Ranks'[q] = act'[heap'[q + 1]] /\ Ranks'[Parent(q)] = act'[heap'[Parent(q) + 1]]
    BY <1>1, <1>6, <2>1 DEF At
  <2> QED BY <2>2 DEF Falls, At, Parent
<1> QED BY <1>2, <1>3, <1>4, <1>5, <1>7, <1>8, <1>9

LEMMA MoveUpKeeps == ASSUME HeapInv, MoveUp PROVE HeapInv' /\ Elems(heap') = Elems(heap)
<1> DEFINE p == Parent(at)
<1>1. /\ doing = "up" /\ doing' = "up" /\ at' = p /\ rest' = rest /\ rest = 0
      /\ at \in Nat /\ at > 0 /\ at < Len(heap) /\ Len(heap) \in Nat
      /\ act[At(Parent(at))] < act[At(at)] /\ HeapTypeOK
  BY DEF HeapInv, HeapTypeOK, LoopPart, MoveUp, Rises
<1>2. p \in Nat /\ p < at /\ p < Len(heap)
  BY <1>1, ParentFacts
<1>3. Exchange(at, p) /\ UNCHANGED <<act, got, made, fixed>>
  BY DEF MoveUp
<1>4. /\ heap' \in Seq(Var) /\ Len(heap') = Len(heap)
      /\ hpos' \in [Var -> Nat \cup {-1}] /\ act' \in [Var -> Nat]
      /\ got' \in Var \cup {0} /\ made' \in 0 .. NVar /\ fixed' \subseteq 1 .. made'
      /\ KnownPart' /\ HeapIsInverse' /\ Elems(heap') = Elems(heap)
      /\ Ranks'[at] = Ranks[p] /\ Ranks'[p] = Ranks[at]
      /\ \A r \in Nat : r < Len(heap) /\ r # at /\ r # p => Ranks'[r] = Ranks[r]
      /\ \A r \in Nat : r < Len(heap) => Ranks[r] \in Nat /\ Ranks[r] = act[At(r)]
      /\ \A q \in Positions : Parent(q) \in Nat /\ Parent(q) < Len(heap) =>
           (Falls(Parent(q), q)' <=> Ranks'[Parent(q)] >= Ranks'[q])
  <2> HIDE DEF p
  <2>1. at # p
    BY <1>1, <1>2
  <2> QED BY <1>1, <1>2, <1>3, <2>1, LoopExchange
<1>5. \A q \in Positions : /\ q \in Nat /\ q > 0 /\ q < Len(heap) /\ Parent(q) \in Nat
                           /\ Parent(q) < Len(heap)
                           /\ Falls(Parent(q), q) <=> Ranks[Parent(q)] >= Ranks[q]
  <2> TAKE q \in Positions
  <2>1. /\ q \in Nat /\ q > 0 /\ q < Len(heap) /\ Parent(q) \in Nat
        /\ Falls(Parent(q), q) <=> Ranks[Parent(q)] >= Ranks[q]
    BY <1>1, RanksFacts
  <2>2. Parent(q) < Len(heap)
    BY <1>1, <2>1, ParentFacts
  <2> QED BY <2>1, <2>2
<1>6. \A q \in Positions : q # at => Ranks[Parent(q)] >= Ranks[q]
  BY <1>1, <1>5 DEF HeapInv, UpPart
<1>7. \A q \in Positions : Parent(q) = at => Ranks[p] >= Ranks[q]
  <2>1. \A q \in Positions : Parent(q) = at => Falls(p, q)
    BY <1>1 DEF HeapInv, UpPart
  <2> QED BY <1>2, <1>4, <1>5, <2>1 DEF Falls
<1>8. /\ \A q \in Positions : q # p => Ranks'[Parent(q)] >= Ranks'[q]
      /\ p > 0 => \A q \in Positions : Parent(q) = p => Ranks'[Parent(p)] >= Ranks'[q]
  <2>1. Ranks[p] < Ranks[at]
    BY <1>1, <1>2, <1>4
  <2>2. \A r \in Nat : r < Len(heap) => Ranks[r] \in Nat
    BY <1>4
  <2> DEFINE f == Ranks
             g == Ranks'
             n == Len(heap)
  <2>3. /\ f[Parent(at)] < f[at] /\ g[at] = f[Parent(at)] /\ g[Parent(at)] = f[at]
        /\ \A r \in Nat : r < n => f[r] \in Nat
        /\ \A r \in Nat : r < n /\ r # at /\ r # Parent(at) => g[r] = f[r]
        /\ \A q \in 1 .. n - 1 : q # at => f[Parent(q)] >= f[q]
        /\ \A q \in 1 .. n - 1 : Parent(q) = at => f[Parent(at)] >= f[q]
        /\ n \in Nat /\ at \in Nat /\ at > 0 /\ at < n
    BY <1>1, <1>4, <1>6, <1>7, <2>1, <2>2 DEF Positions
  <2> HIDE DEF f, g, n
  <2>4. /\ \A q \in 1 .. n - 1 : q # Parent(at) => g[Parent(q)] >= g[q]
        /\ Parent(at) > 0 =>
              \A q \in 1 .. n - 1 : Parent(q) = Parent(at) => g[Parent(Parent(at))] >= g[q]
    BY <2>3, RankUp
  <2> QED BY <2>4 DEF Positions, f, g, n
<1>9. Positions' = Positions
  BY <1>4 DEF Positions
<1>10. \A q \in Positions : q # at' => Falls(Parent(q), q)'
  BY <1>1, <1>4, <1>5, <1>8
<1>11. ASSUME p > 0, NEW q \in Positions, Parent(q) = p
       PROVE  act'[heap'[Parent(p) + 1]] >= act'[heap'[q + 1]]
  <2>1. p \in Positions
    BY <1>1, <1>2, <1>11 DEF Positions
  <2>2. Parent(p) \in Nat /\ Parent(p) < Len(heap)
    BY <1>5, <2>1
  <2>3. Ranks'[q] = act'[heap'[q + 1]] /\ Ranks'[Parent(p)] = act'[heap'[Parent(p) + 1]]
    <3>1. q \in 0 .. Len(heap') - 1 /\ Parent(p) \in 0 .. Len(heap') - 1
      BY <1>1, <1>4, <1>5, <2>2
    <3> QED BY <3>1 DEF Ranks, At
  <2> QED BY <1>8, <1>11, <2>3
<1>12. UpPart'
  <2>1. \A q \in Positions' : (q # at => Falls(Parent(q), q))'
    BY <1>9, <1>10 DEF Parent, Falls, At
  <2>2. (at > 0 => \A q \in Positions : Parent(q) = at => Falls(Parent(at), q))'
    BY <1>1, <1>9, <1>11 DEF Falls, At, Parent
  <2> QED BY <2>1, <2>2 DEF UpPart
<1>13. HeapTypeOK'
  BY <1>1, <1>2, <1>4 DEF HeapTypeOK
<1>14. HeapOrdered' /\ LoopPart' /\ DownPart'
  BY <1>1, <1>2, <1>4 DEF HeapOrdered, LoopPart, DownPart
<1> QED BY <1>4, <1>12, <1>13, <1>14 DEF HeapInv

(* move_up() ends where the last doubtful pair is in order.                *)
LEMMA MoveUpEndKeeps == ASSUME HeapInv, MoveUpEnd PROVE HeapInv'
<1>1. /\ doing = "up" /\ doing' = "none" /\ at' = 0 /\ rest' = 0 /\ ~Rises(at)
      /\ UNCHANGED <<heap, hpos, act, got, made, fixed>>
      /\ HeapTypeOK /\ at \in Nat
  BY DEF HeapInv, HeapTypeOK, MoveUpEnd, Stay, Start
<1>2. ASSUME NEW q \in Positions
      PROVE  Falls(Parent(q), q)
  <2>1. CASE q # at
    BY <1>1, <2>1 DEF HeapInv, UpPart
  <2>2. CASE q = at
    <3>1. /\ q \in Nat /\ q > 0 /\ q < Len(heap) /\ Parent(q) \in Nat
          /\ Falls(Parent(q), q) <=> Ranks[Parent(q)] >= Ranks[q]
      BY <1>1, RanksFacts
    <3>2. Parent(q) < Len(heap)
      <4>1. Len(heap) \in Nat /\ Parent(q) < q
        BY <1>1, <3>1, ParentFacts DEF HeapTypeOK
      <4> QED BY <3>1, <4>1
    <3>3. act[At(q)] \in Nat /\ act[At(Parent(q))] \in Nat
      BY <1>1, <3>1, <3>2, AtFacts
    <3> QED BY <1>1, <2>2, <3>1, <3>3 DEF Rises, Falls
  <2> QED BY <2>1, <2>2
<1>3. HeapOrdered'
  BY <1>1, <1>2 DEF HeapOrdered, Positions, Falls, At, Parent
<1>4. HeapTypeOK' /\ KnownPart' /\ HeapIsInverse'
  BY <1>1 DEF HeapInv, HeapTypeOK, KnownPart, HeapIsInverse, At
<1>5. LoopPart' /\ UpPart' /\ DownPart'
  BY <1>1 DEF LoopPart, UpPart, DownPart
<1> QED BY <1>3, <1>4, <1>5 DEF HeapInv

(* Of the children of a position none has a larger activity.               *)
LEMMA GreaterChildFacts ==
  ASSUME HeapTypeOK, NEW p \in Nat, Left(p) < Len(heap)
  PROVE  /\ GreaterChild(p) \in Nat /\ GreaterChild(p) > p /\ GreaterChild(p) < Len(heap)
         /\ Parent(GreaterChild(p)) = p
         /\ \A q \in Positions : Parent(q) = p => Falls(GreaterChild(p), q)
<1> DEFINE c == GreaterChild(p)
<1>1. Len(heap) \in Nat
  BY DEF HeapTypeOK
<1>2. c \in {Left(p), Left(p) + 1} /\ c < Len(heap)
  BY DEF GreaterChild
<1>3. c \in Nat /\ Parent(c) = p /\ c > p
  <2> HIDE DEF c
  <2>1. c \in Nat /\ c > 0 /\ Parent(c) = p
    BY <1>2, ChildFacts
  <2> QED BY <2>1, ParentFacts
<1>4. ASSUME NEW q \in Positions, Parent(q) = p
      PROVE  Falls(c, q)
  <2>1. q \in Nat /\ q > 0 /\ q < Len(heap)
    BY <1>1 DEF Positions
  <2>2. q \in {Left(p), Left(p) + 1}
    BY <1>4, <2>1, ParentFacts
  <2>3. act[At(q)] \in Nat /\ act[At(c)] \in Nat /\ act[At(Left(p))] \in Nat
    <3>1. Left(p) \in Nat
      BY DEF Left
    <3> HIDE DEF c
    <3> QED BY <1>2, <1>3, <2>1, <3>1, AtFacts
  <2>4. CASE q = Left(p)
    BY <2>1, <2>3, <2>4 DEF GreaterChild, Falls
  <2>5. CASE q = Left(p) + 1
    BY <2>1, <2>3, <2>5 DEF GreaterChild, Falls
  <2> QED BY <2>2, <2>4, <2>5
<1> QED BY <1>2, <1>3, <1>4

LEMMA MoveDownKeeps == ASSUME HeapInv, MoveDown PROVE HeapInv' /\ Elems(heap') = Elems(heap)
<1> DEFINE c == GreaterChild(at)
<1>1. /\ doing = "down" /\ doing' = "down" /\ at' = c /\ rest' = rest /\ rest \in Nat
      /\ at \in Nat /\ at < Len(heap) /\ Len(heap) \in Nat /\ rest <= at
      /\ Left(at) < Len(heap) /\ act[At(c)] > act[At(at)] /\ HeapTypeOK
  BY DEF HeapInv, HeapTypeOK, LoopPart, MoveDown, Sinks
<1>2. /\ c \in Nat /\ c > at /\ c < Len(heap) /\ Parent(c) = at
      /\ \A q \in Positions : Parent(q) = at => Falls(c, q)
  BY <1>1, GreaterChildFacts
<1>3. Exchange(at, c) /\ UNCHANGED <<act, got, made, fixed>>
  BY DEF MoveDown
<1> HIDE DEF c
<1>4. /\ heap' \in Seq(Var) /\ Len(heap') = Len(heap)
      /\ hpos' \in [Var -> Nat \cup {-1}] /\ act' \in [Var -> Nat]
      /\ got' \in Var \cup {0} /\ made' \in 0 .. NVar /\ fixed' \subseteq 1 .. made'
      /\ KnownPart' /\ HeapIsInverse' /\ Elems(heap') = Elems(heap)
      /\ Ranks'[at] = Ranks[c] /\ Ranks'[c] = Ranks[at]
      /\ \A r \in Nat : r < Len(heap) /\ r # at /\ r # c => Ranks'[r] = Ranks[r]
      /\ \A r \in Nat : r < Len(heap) => Ranks[r] \in Nat /\ Ranks[r] = act[At(r)]
      /\ \A q \in Positions : Parent(q) \in Nat /\ Parent(q) < Len(heap) =>
           (Falls(Parent(q), q)' <=> Ranks'[Parent(q)] >= Ranks'[q])
  <2>1. at # c
    BY <1>1, <1>2
  <2> QED BY <1>1, <1>2, <1>3, <2>1, LoopExchange
<1>5. \A q \in Positions : /\ q \in Nat /\ q > 0 /\ q < Len(heap) /\ Parent(q) \in Nat
                           /\ Parent(q) < Len(heap)
                           /\ Falls(Parent(q), q) <=> Ranks[Parent(q)] >= Ranks[q]
  <2> TAKE q \in Positions
  <2>1. /\ q \in Nat /\ q > 0 /\ q < Len(heap) /\ Parent(q) \in Nat
        /\ Falls(Parent(q), q) <=> Ranks[Parent(q)] >= Ranks[q]
    BY <1>1, RanksFacts
  <2>2. Parent(q) < Len(heap)
    BY <1>1, <2>1, ParentFacts
  <2> QED BY <2>1, <2>2
<1>6. \A q \in Positions : Parent(q) >= rest /\ Parent(q) # at => Ranks[Parent(q)] >= Ranks[q]
  BY <1>1, <1>5 DEF HeapInv, DownPart
<1>7. \A q \in Positions : Parent(q) = at => Ranks[c] >= Ranks[q]
  BY <1>2, <1>4, <1>5 DEF Falls
<1>8. at > 0 /\ Parent(at) >= rest =>
        \A q \in Positions : Parent(q) = at => Ranks[Parent(at)] >= Ranks[q]
  <2>1. SUFFICES ASSUME at > 0, Parent(at) >= rest, NEW q \in Positions, Parent(q) = at
                 PROVE  Ranks[Parent(at)] >= Ranks[q]
    OBVIOUS
  <2>2. Falls(Parent(at), q)
    BY <1>1, <2>1 DEF HeapInv, DownPart
  <2>3. Parent(at) \in Nat /\ Parent(at) < Len(heap)
    BY <1>1, <2>1, ParentFacts
  <2> QED BY <1>4, <1>5, <2>2, <2>3 DEF Falls
<1>9. /\ \A q \in Positions : Parent(q) >= rest /\ Parent(q) # c => Ranks'[Parent(q)] >= Ranks'[q]
      /\ \A q \in Positions : Parent(q) = c => Ranks'[at] >= Ranks'[q]
  <2> DEFINE f == Ranks
             g == Ranks'
             n == Len(heap)
  <2>1. Ranks[c] > Ranks[at]
    BY <1>1, <1>2, <1>4
  <2>2. c > 0
    BY <1>1, <1>2
  <2>3. /\ n \in Nat /\ at \in Nat /\ at < n /\ rest \in Nat /\ rest <= at
        /\ c \in Nat /\ c < n /\ c > 0 /\ Parent(c) = at /\ SinksTo(n, f, g, at, rest, c)
    BY <1>1, <1>2, <1>4, <1>6, <1>7, <1>8, <2>1, <2>2 DEF Positions, SinksTo
  <2> HIDE DEF f, g, n
  <2>4. /\ \A q \in 1 .. n - 1 : Parent(q) >= rest /\ Parent(q) # c => g[Parent(q)] >= g[q]
        /\ \A q \in 1 .. n - 1 : Parent(q) = c => g[at] >= g[q]
    BY <2>3, RankDown
  <2> QED BY <2>4 DEF Positions, f, g, n
<1>10. Positions' = Positions
  BY <1>4 DEF Positions
<1>11. \A q \in Positions : Parent(q) >= rest /\ Parent(q) # c => Falls(Parent(q), q)'
  BY <1>4, <1>5, <1>9
<1>12. ASSUME NEW q \in Positions, Parent(q) = c
       PROVE  act'[heap'[at + 1]] >= act'[heap'[q + 1]]
  <2>1. q \in 0 .. Len(heap') - 1 /\ at \in 0 .. Len(heap') - 1
    BY <1>1, <1>4, <1>5
  <2>2. Ranks'[q] = act'[heap'[q + 1]] /\ Ranks'[at] = act'[heap'[at + 1]]
    BY <2>1 DEF Ranks, At
  <2> QED BY <1>9, <1>12, <2>2
<1>13. DownPart'
  <2>1. \A q \in Positions' : (Parent(q) >= rest /\ Parent(q) # at => Falls(Parent(q), q))'
    BY <1>1, <1>10, <1>11 DEF Parent, Falls, At
  <2>2. \A q \in Positions' : Parent(q) = at' => act'[heap'[Parent(at') + 1]] >= act'[heap'[q + 1]]
    BY <1>1, <1>2, <1>10, <1>12
  <2>3. (\A q \in Positions : Parent(q) = at => Falls(Parent(at), q))'
    BY <2>2 DEF Falls, At, Parent
  <2> QED BY <2>1, <2>3 DEF DownPart
<1>14. HeapTypeOK'
  BY <1>1, <1>2, <1>4 DEF HeapTypeOK
<1>15. HeapOrdered' /\ LoopPart' /\ UpPart'
  BY <1>1, <1>2, <1>4 DEF HeapOrdered, LoopPart, UpPart
<1> QED BY <1>4, <1>13, <1>14, <1>15 DEF HeapInv

(* move_down() ends where the position's children are in order under it;   *)
(* build() then goes to the position before.                               *)
LEMMA MoveDownEndKeeps == ASSUME HeapInv, MoveDownEnd PROVE HeapInv'
<1>1. /\ doing = "down" /\ ~Sinks(at) /\ at \in Nat /\ rest \in Nat /\ rest <= at
      /\ at < Len(heap) /\ Len(heap) \in Nat
      /\ UNCHANGED <<heap, hpos, act, got, made, fixed>>
      /\ HeapTypeOK
  BY DEF HeapInv, HeapTypeOK, LoopPart, MoveDownEnd
<1>2. \A q \in Positions : q \in Nat /\ q > 0 /\ q < Len(heap) /\ Parent(q) \in Nat /\ Parent(q) < Len(heap)
  <2> TAKE q \in Positions
  <2>1. q \in Nat /\ q > 0 /\ q < Len(heap)
    BY <1>1 DEF Positions
  <2> QED BY <1>1, <2>1, ParentFacts
<1>3. ASSUME NEW q \in Positions, Parent(q) >= rest
      PROVE  Falls(Parent(q), q)
  <2>1. CASE Parent(q) # at
    BY <1>1, <1>3, <2>1 DEF HeapInv, DownPart
  <2>2. CASE Parent(q) = at
    <3>1. q \in {Left(at), Left(at) + 1}
      BY <1>2, <2>2, ParentFacts
    <3>2. Left(at) < Len(heap)
      BY <1>1, <1>2, <3>1 DEF Left
    <3>3. /\ GreaterChild(at) \in Nat /\ GreaterChild(at) < Len(heap)
          /\ Falls(GreaterChild(at), q)
      BY <1>1, <2>2, <3>2, GreaterChildFacts
    <3>4. act[At(q)] \in Nat /\ act[At(at)] \in Nat /\ act[At(GreaterChild(at))] \in Nat
      BY <1>1, <1>2, <3>3, AtFacts
    <3>5. ~(act[At(GreaterChild(at))] > act[At(at)])
      BY <1>1, <3>2 DEF Sinks
    <3> QED BY <2>2, <3>3, <3>4, <3>5 DEF Falls
  <2> QED BY <2>1, <2>2
<1>4. HeapIsInverse' /\ KnownPart'
  BY <1>1 DEF HeapInv, KnownPart, HeapIsInverse, At
<1>5. CASE rest > 0
  <2>1. at' = rest - 1 /\ rest' = rest - 1 /\ doing' = "down" /\ at' \in Nat /\ at' < Len(heap')
    BY <1>1, <1>5 DEF MoveDownEnd
  <2>2. HeapTypeOK' /\ LoopPart'
    BY <1>1, <2>1 DEF HeapTypeOK, LoopPart
  <2>3. HeapOrdered' /\ UpPart'
    BY <2>1 DEF HeapOrdered, UpPart
  <2>4. DownPart'
    <3>1. ASSUME NEW q \in Positions, Parent(q) >= rest - 1, Parent(q) # rest - 1
          PROVE  Falls(Parent(q), q)
      <4>1. Parent(q) >= rest
        BY <1>1, <1>2, <3>1
      <4> QED BY <1>3, <4>1
    <3>2. \A q \in Positions' : (Parent(q) >= rest /\ Parent(q) # at => Falls(Parent(q), q))'
      BY <1>1, <2>1, <3>1 DEF Positions, Parent, Falls, At
    <3>3. ~(at' > 0 /\ Parent(at') >= rest')
      <4>1. CASE at' > 0
        <5>1. Parent(at') \in Nat /\ Parent(at') < at'
          BY <2>1, <4>1, ParentFacts
        <5> QED BY <1>1, <2>1, <5>1
      <4> QED BY <4>1
    <3>4. ~(at > 0 /\ Parent(at) >= rest)'
      BY <3>3 DEF Parent
    <3> QED BY <3>2, <3>4 DEF DownPart
  <2> QED BY <1>4, <2>2, <2>3, <2>4 DEF HeapInv
<1>6. CASE rest = 0
  <2>1. doing' = "none" /\ at' = 0 /\ rest' = 0
    BY <1>6 DEF MoveDownEnd, Stay, Start
  <2>2. \A q \in Positions : Falls(Parent(q), q)
    BY <1>2, <1>3, <1>6
  <2>3. HeapOrdered'
    BY <1>1, <2>2 DEF HeapOrdered, Positions, Falls, At, Parent
  <2>4. HeapTypeOK' /\ LoopPart' /\ UpPart' /\ DownPart'
    BY <1>1, <2>1 DEF HeapTypeOK, LoopPart, UpPart, DownPart
  <2> QED BY <1>4, <2>3, <2>4 DEF HeapInv
<1> QED BY <1>1, <1>5, <1>6

LEMMA StutterKeeps == ASSUME HeapInv, UNCHANGED heapVars PROVE HeapInv'
BY DEF HeapInv, heapVars, loopVars, HeapTypeOK, KnownPart, HeapIsInverse, HeapOrdered, LoopPart,
       UpPart, DownPart, Positions, Falls, At, Parent

LEMMA NextKeepsInv == ASSUME HeapInv, [HeapNext]_heapVars PROVE HeapInv'
BY NewVarKeeps, PushKeeps, PopTopKeeps, BumpKeeps, BuildKeeps, MoveUpKeeps, MoveUpEndKeeps,
   MoveDownKeeps, MoveDownEndKeeps, StutterKeeps
   DEF HeapNext
-----------------------------------------------------------------------------
(***************************************************************************)
(* The theorems.                                                           *)
(***************************************************************************)

(* The inductive invariant holds in every state of the heap, in the middle *)
(* of the loops as well.                                                   *)
THEOREM HeapAlwaysInv == HeapSpec => []HeapInv
<1>1. HeapInit => HeapInv
  BY InitInv
<1>2. HeapInv /\ [HeapNext]_heapVars => HeapInv'
  BY NextKeepsInv
<1> QED BY <1>1, <1>2, PTL DEF HeapSpec

(* Every position, activity and loop variable stays in its range.          *)
THEOREM HeapAlwaysTypeOK == HeapSpec => []HeapTypeOK
<1>1. HeapInv => HeapTypeOK
  BY DEF HeapInv
<1> QED BY <1>1, HeapAlwaysInv, PTL

(* mHeapPos is the inverse of mHeap at every step of every operation.      *)
THEOREM HeapAlwaysInverse == HeapSpec => []HeapIsInverse
<1>1. HeapInv => HeapIsInverse
  BY DEF HeapInv
<1> QED BY <1>1, HeapAlwaysInv, PTL

(* Between operations no variable has a larger activity than the one above *)
(* it: every loop that is cut short leaves the order as it has to be.      *)
THEOREM HeapAlwaysOrdered == HeapSpec => []HeapOrdered
<1>1. HeapInv => HeapOrdered
  BY DEF HeapInv
<1> QED BY <1>1, HeapAlwaysInv, PTL

(* mHeap has a place for every variable that has been set up, and that is  *)
(* enough: _add_var() never writes behind its end.                         *)
LEMMA InvFits == HeapInv => Len(heap) <= made
<1> SUFFICES ASSUME HeapInv PROVE Len(heap) <= made
  OBVIOUS
<1> DEFINE n == Len(heap)
<1>1. /\ heap \in Seq(Var) /\ n \in Nat /\ DOMAIN heap = 1 .. n /\ made \in Nat
  BY SizeAssumption DEF HeapInv, HeapTypeOK
<1>2. \A i \in 1 .. n : heap[i] \in 1 .. made
  <2>1. \A i \in 1 .. n : heap[i] \in Var /\ heap[i] <= made
    BY <1>1 DEF HeapInv, KnownPart
  <2> QED BY <1>1, <2>1 DEF Var
<1>3. \A i, j \in 1 .. n : heap[i] = heap[j] => i = j
  <2> TAKE i, j \in 1 .. n
  <2> HAVE heap[i] = heap[j]
  <2>1. hpos[heap[i]] = i - 1 /\ hpos[heap[j]] = j - 1
    BY <1>1 DEF HeapInv, HeapIsInverse
  <2> QED BY <1>1, <2>1
<1> DEFINE f == [i \in 1 .. n |-> heap[i]]
<1>4. f \in [1 .. n -> 1 .. made] /\ \A i \in 1 .. n : f[i] = heap[i]
  BY <1>2
<1>5. f \in Injection(1 .. n, 1 .. made)
  <2> HIDE DEF f
  <2>1. IsInjective(f)
    BY <1>3, <1>4 DEF IsInjective
  <2> QED BY <1>4, <2>1 DEF Injection
<1> HIDE DEF f, n
<1>6. IsFiniteSet(1 .. made) /\ Cardinality(1 .. made) = made /\ Cardinality(1 .. n) = n
  BY <1>1, FS_Interval
<1>7. Cardinality(1 .. n) <= Cardinality(1 .. made)
  BY <1>5, <1>6, FS_Injection
<1> QED BY <1>6, <1>7 DEF n

THEOREM HeapAlwaysFits == HeapSpec => [](Len(heap) <= made)
BY InvFits, HeapAlwaysInv, PTL

(* The queue is over the same variables.                                   *)
LEMMA QueueVars == Queue!Var = Var
BY DEF Queue!Var, Var

(* An empty heap is an empty queue, a variable that enters, returns or is  *)
(* taken does so in the queue too, and the loops are invisible there.      *)
LEMMA StepIsQueueStep ==
  ASSUME HeapInv, [HeapNext]_heapVars
  PROVE  [Queue!QueueNext]_(Queue!queueVars)
<1> USE QueueVars DEF Queue!QueueNext, Queue!queueVars
<1>1. CASE NewVar
  <2>1. made + 1 \in Var /\ got' = 0 /\ act \in [Var -> Nat]
    BY <1>1, SizeAssumption DEF HeapInv, HeapTypeOK, NewVar, Var
  <2>2. CASE made + 1 \in DecVar
    <3>1. AddLast(made + 1) /\ act' = [act EXCEPT ![made + 1] = 0] /\ made' = made + 1
      BY <1>1, <2>2 DEF NewVar
    <3>2. made + 1 \notin Elems(heap)
      BY SizeAssumption DEF HeapInv, HeapTypeOK, KnownPart, Elems
    <3>3. Elems(heap') = Elems(heap) \cup {made + 1}
      BY <2>1, <3>1, <3>2, AddLastKeeps DEF HeapInv
    <3>4. Queue!Enter(made + 1)
      BY <2>1, <3>1, <3>2, <3>3 DEF Queue!Enter
    <3> QED BY <2>1, <3>4
  <2>3. CASE made + 1 \notin DecVar
    <3>1. heap' = heap /\ act' = act
      BY <1>1, <2>3 DEF NewVar
    <3>2. Queue!Raise(made + 1)
      BY <2>1, <3>1 DEF Queue!Raise
    <3> QED BY <2>1, <3>2
  <2> QED BY <2>2, <2>3
<1>2. ASSUME NEW v \in Var, Push(v)
      PROVE  Queue!QueueNext
  <2>1. v \notin Elems(heap)
    <3>1. hpos[v] = -1
      BY <1>2 DEF Push
    <3> QED BY <3>1 DEF HeapInv, HeapTypeOK, HeapIsInverse, Elems
  <2>2. Elems(heap') = Elems(heap) \cup {v}
    BY <1>2, <2>1, AddLastKeeps DEF HeapInv, Push
  <2>3. Queue!Return(v)
    BY <1>2, <2>1, <2>2 DEF Queue!Return, Push
  <2> QED BY <2>3
<1>3. CASE PopTop
  <2>1. Elems(heap') = Elems(heap) \ {At(0)} /\ At(0) \in Var /\ At(0) \in Elems(heap)
    BY <1>3, PopTopFacts DEF HeapInv
  <2>2. ASSUME NEW u \in Elems(heap)
        PROVE  act[u] <= act[At(0)]
    <3>1. PICK i \in DOMAIN heap : u = heap[i]
      BY DEF Elems
    <3>2. i - 1 \in Nat /\ i - 1 < Len(heap) /\ i - 1 + 1 = i /\ 0 < Len(heap)
      BY <3>1 DEF HeapInv, HeapTypeOK
    <3>3. Falls(0, i - 1)
      BY <1>3, <3>2, TopIsMax DEF HeapInv, PopTop
    <3>4. act[At(0)] \in Nat /\ act[At(i - 1)] \in Nat
      BY <3>2, AtFacts DEF HeapInv
    <3> QED BY <3>1, <3>2, <3>3, <3>4 DEF Falls, At
  <2>3. Queue!TakeMax(At(0))
    BY <1>3, <2>1, <2>2 DEF Queue!TakeMax, PopTop
  <2> QED BY <2>1, <2>3
<1>4. ASSUME NEW v \in Var, NEW d \in Bumps, Bump(v, d)
      PROVE  Queue!QueueNext
  <2>1. act' = Raised(v, d) /\ heap' = heap /\ got' = 0
    BY <1>4 DEF Bump
  <2>2. Queue!Raise(v)
    BY <2>1, RaisedFacts DEF HeapInv, Queue!Raise
  <2> QED BY <2>2
<1>5. ASSUME NEW F \in SUBSET Var, Build(F)
      PROVE  Queue!QueueNext
  <2>1. act' = act /\ got' = 0
    BY <1>5 DEF Build
  <2>2. Elems(heap') \in SUBSET Var
    <3>1. HeapTypeOK'
      BY <1>5, BuildKeeps DEF HeapInv
    <3> QED BY <3>1 DEF HeapTypeOK, Elems
  <2>3. Queue!Refill(Elems(heap'))
    BY <2>1 DEF Queue!Refill
  <2> QED BY <2>2, <2>3
<1>6. CASE MoveUp \/ MoveDown
  <2>1. Elems(heap') = Elems(heap)
    BY <1>6, MoveUpKeeps, MoveDownKeeps
  <2>2. act' = act /\ got' = got
    BY <1>6 DEF MoveUp, MoveDown
  <2> QED BY <2>1, <2>2
<1>7. CASE MoveUpEnd \/ MoveDownEnd \/ UNCHANGED heapVars
  BY <1>7 DEF MoveUpEnd, MoveDownEnd, heapVars
<1> QED BY <1>1, <1>2, <1>3, <1>4, <1>5, <1>6, <1>7 DEF HeapNext

(* The heap is the queue it promises to be.                                *)
THEOREM HeapImplementsQueue == HeapSpec => ImplementsQueue
<1>1. HeapInit => Queue!QueueInit
  BY QueueVars DEF HeapInit, Queue!QueueInit, Elems
<1>2. HeapInv /\ [HeapNext]_heapVars => [Queue!QueueNext]_(Queue!queueVars)
  BY StepIsQueueStep
<1> QED BY <1>1, <1>2, HeapAlwaysInv, PTL DEF HeapSpec, ImplementsQueue, Queue!QueueSpec
=============================================================================
