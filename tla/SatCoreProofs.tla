---------------------------- MODULE SatCoreProofs ----------------------------
(***************************************************************************)
(* Invariants of the engine for every number of variables and clauses,     *)
(* every client and every budget: types, the two lists of each clause, and *)
(* the heap that no undecided variable leaves.                             *)
(***************************************************************************)
EXTENDS SatCore, FiniteSetTheorems, TLAPS

-----------------------------------------------------------------------------
(***************************************************************************)
(* The trail: its invariant holds in every behaviour of its contract, for  *)
(* any number of variables, clauses and levels.                            *)
(***************************************************************************)

(* Literals and their variables.                                           *)
LEMMA LitFacts ==
  ASSUME NEW l \in Lit
  PROVE  /\ l \in Int /\ l # 0
         /\ VarOf(l) \in Var /\ VarOf(l) \in Nat
         /\ -l \in Lit /\ VarOf(-l) = VarOf(l)
         /\ l > 0 => VarOf(l) = l
         /\ ~(l > 0) => VarOf(l) = -l
BY SizeAssumption DEF Lit, Var, VarOf

(* The value of a literal is that of its variable, turned over if negative.*)
LEMMA ValueFacts ==
  ASSUME NEW l \in Lit, NEW v \in [Var -> Bool3]
  PROVE  /\ ValueOf(v, l) = IF l > 0 THEN v[VarOf(l)] ELSE -v[VarOf(l)]
         /\ ValueOf(v, l) \in Bool3
         /\ ValueOf(v, l) = 0 <=> v[VarOf(l)] = 0
         /\ ValueOf(v, -l) = -ValueOf(v, l)
<1>1. v[VarOf(l)] \in Bool3
  BY LitFacts
<1> QED BY <1>1, LitFacts DEF ValueOf, VarOf, Bool3

(* Giving l its value makes l true and changes the value of no literal of  *)
(* another variable.                                                       *)
LEMMA EvalAfterPut ==
  ASSUME NEW l \in Lit, NEW m \in Lit, NEW v \in [Var -> Bool3],
         NEW w, w = [v EXCEPT ![VarOf(l)] = IF l > 0 THEN 1 ELSE -1]
  PROVE  /\ w \in [Var -> Bool3]
         /\ m = l => ValueOf(w, m) = 1
         /\ VarOf(m) # VarOf(l) => ValueOf(w, m) = ValueOf(v, m)
<1>1. w \in [Var -> Bool3]
  BY DEF Bool3
<1>2. w[VarOf(l)] = IF l > 0 THEN 1 ELSE -1
  BY LitFacts
<1>3. VarOf(m) # VarOf(l) => w[VarOf(m)] = v[VarOf(m)]
  BY LitFacts
<1>4. ValueOf(w, l) = 1
  <2>1. CASE l > 0
    BY <2>1, <1>2, LitFacts DEF ValueOf
  <2>2. CASE ~(l > 0)
    <3>1. -l = VarOf(l)
      BY <2>2, LitFacts
    <3>2. w[-l] = -1
      BY <1>2, <2>2, <3>1
    <3>3. ValueOf(w, l) = -w[-l]
      BY <2>2 DEF ValueOf
    <3> QED BY <3>2, <3>3
  <2> QED BY <2>1, <2>2
<1>5. VarOf(m) # VarOf(l) => ValueOf(w, m) = ValueOf(v, m)
  BY <1>3, LitFacts DEF ValueOf
<1> QED BY <1>1, <1>4, <1>5

THEOREM TrailInitOK == TrailInit => TrailInv
BY SizeAssumption
   DEF TrailInit, TrailInv, TrailTypeOK, TrailIsAssignment, MarkersOrdered,
       LevelsMatchMarkers, Bool3, Reason, DecisionLevel

(* What Put() does, whatever the level: the list grows by l, and stays the *)
(* list of the true literals.                                              *)
LEMMA PutFacts ==
  ASSUME TrailTypeOK, TrailIsAssignment,
         NEW l \in Lit, NEW k \in Nat, NEW r \in Reason, Eval(l) = 0, Put(l, k, r)
  PROVE  /\ val' \in [Var -> Bool3] /\ level' \in [Var -> Nat]
         /\ reason' \in [Var -> Reason] /\ trail' \in Seq(Lit)
         /\ Len(trail') = Len(trail) + 1 /\ trail'[Len(trail) + 1] = l
         /\ \A i \in 1 .. Len(trail) : trail'[i] = trail[i]
         /\ level'[VarOf(l)] = k
         /\ \A i \in 1 .. Len(trail) : level'[VarOf(trail[i])] = level[VarOf(trail[i])]
         /\ TrailIsAssignment'
<1> USE DEF Put
<1>1. /\ val' \in [Var -> Bool3] /\ level' \in [Var -> Nat]
      /\ reason' \in [Var -> Reason] /\ trail' \in Seq(Lit)
  <2>1. val' \in [Var -> Bool3]
    BY EvalAfterPut DEF TrailTypeOK
  <2> QED BY <2>1, LitFacts DEF TrailTypeOK
<1>2. /\ Len(trail') = Len(trail) + 1 /\ trail'[Len(trail) + 1] = l
      /\ \A i \in 1 .. Len(trail) : trail'[i] = trail[i] /\ trail[i] \in Lit
      /\ Len(trail) \in Nat
  BY DEF TrailTypeOK
<1>3. ASSUME NEW i \in 1 .. Len(trail)
      PROVE  VarOf(trail[i]) # VarOf(l)
  <2> SUFFICES ASSUME VarOf(trail[i]) = VarOf(l)
               PROVE  FALSE
    OBVIOUS
  <2>1. trail[i] \in Lit /\ ValueOf(val, trail[i]) = 1
    BY DEF TrailIsAssignment, TrailTypeOK, Eval
  <2>2. val[VarOf(l)] = 0
    BY ValueFacts DEF TrailTypeOK, Eval
  <2> QED BY <2>1, <2>2, ValueFacts DEF TrailTypeOK
<1>4. /\ level'[VarOf(l)] = k
      /\ \A i \in 1 .. Len(trail) : level'[VarOf(trail[i])] = level[VarOf(trail[i])]
  BY <1>2, <1>3, LitFacts DEF TrailTypeOK
<1>5. ASSUME NEW i \in 1 .. Len(trail')
      PROVE  ValueOf(val', trail'[i]) = 1
  <2>1. CASE i = Len(trail) + 1
    <3>1. ValueOf(val', l) = 1
      BY EvalAfterPut, ZenonT(60) DEF TrailTypeOK
    <3> QED BY <2>1, <3>1, <1>2
  <2>2. CASE i # Len(trail) + 1
    <3> DEFINE m == trail[i]
    <3>1. i \in 1 .. Len(trail)
      BY <2>2, <1>2
    <3>2. m \in Lit /\ VarOf(m) # VarOf(l) /\ ValueOf(val, m) = 1 /\ trail'[i] = m
      BY <3>1, <1>2, <1>3 DEF TrailIsAssignment, Eval
    <3> HIDE DEF m
    <3>3. val'[VarOf(m)] = val[VarOf(m)]
      BY <3>2, LitFacts DEF TrailTypeOK
    <3> QED BY <3>2, <3>3, LitFacts DEF ValueOf
  <2> QED BY <2>1, <2>2
<1>6. ASSUME NEW i \in 1 .. Len(trail'), NEW j \in 1 .. Len(trail'),
             VarOf(trail'[i]) = VarOf(trail'[j])
      PROVE  i = j
  BY <1>2, <1>3, <1>6 DEF TrailIsAssignment
<1>7. ASSUME NEW v \in Var, val'[v] # 0
      PROVE  \E i \in 1 .. Len(trail') : VarOf(trail'[i]) = v
  <2>1. CASE v = VarOf(l)
    BY <2>1, <1>2, Len(trail) + 1 \in 1 .. Len(trail')
  <2>2. CASE v # VarOf(l)
    <3>1. PICK i \in 1 .. Len(trail) : VarOf(trail[i]) = v
      BY <1>7, <2>2, LitFacts DEF TrailIsAssignment, TrailTypeOK
    <3> QED BY <3>1, <1>2, i \in 1 .. Len(trail')
  <2> QED BY <2>1, <2>2
<1>8. TrailIsAssignment'
  BY <1>5, <1>6, <1>7 DEF TrailIsAssignment, Eval
<1> QED BY <1>1, <1>2, <1>4, <1>8

(* An assignment at the current level.                                     *)
LEMMA AssignKeepsInv ==
  ASSUME TrailInv, NEW l \in Lit, NEW r \in Reason, Eval(l) = 0, Assign(l, r)
  PROVE  TrailInv'
<1>1. Put(l, DecisionLevel, r) /\ marker' = marker /\ head' = head
  BY DEF Assign, Put
<1>2. DecisionLevel \in Nat /\ DecisionLevel = Len(marker) - 1
  BY DEF TrailInv, TrailTypeOK, DecisionLevel
<1>3. TrailTypeOK' /\ TrailIsAssignment'
  <2>1. /\ val' \in [Var -> Bool3] /\ level' \in [Var -> Nat]
        /\ reason' \in [Var -> Reason] /\ trail' \in Seq(Lit)
        /\ Len(trail') = Len(trail) + 1
        /\ TrailIsAssignment'
    BY <1>1, <1>2, PutFacts DEF TrailInv
  <2>2. head \in 0 .. Len(trail) /\ Len(trail) \in Nat /\ marker \in Seq(Nat) /\ Len(marker) > 0
    BY DEF TrailInv, TrailTypeOK
  <2>3. head' \in 0 .. Len(trail')
    BY <1>1, <2>1, <2>2
  <2> QED BY <1>1, <2>1, <2>2, <2>3 DEF TrailTypeOK
<1>4. MarkersOrdered'
  BY <1>1 DEF TrailInv, MarkersOrdered
<1>5. LevelsMatchMarkers'
  <2> SUFFICES ASSUME NEW i \in 1 .. Len(trail'),
                      NEW k, k = level'[VarOf(trail'[i])]
               PROVE  /\ k <= DecisionLevel
                      /\ marker[k + 1] < i
                      /\ k < DecisionLevel => i <= marker[k + 2]
    BY <1>1 DEF LevelsMatchMarkers, LevelOf, DecisionLevel
  <2>0. Len(trail) \in Nat /\ Len(trail') = Len(trail) + 1
    <3>1. trail \in Seq(Lit)
      BY DEF TrailInv, TrailTypeOK
    <3> QED BY <1>1, <3>1 DEF Put
  <2>1. CASE i = Len(trail) + 1
    <3>1. k = DecisionLevel
      BY <1>1, <1>2, <2>1, PutFacts DEF TrailInv
    <3>2. marker[Len(marker)] <= head /\ head <= Len(trail)
      BY Len(marker) \in 1 .. Len(marker) DEF TrailInv, MarkersOrdered, TrailTypeOK
    <3>3. marker[Len(marker)] \in Nat /\ head \in Nat
      BY DEF TrailInv, TrailTypeOK
    <3> QED BY <1>2, <2>0, <2>1, <3>1, <3>2, <3>3
  <2>2. CASE i # Len(trail) + 1
    <3>1. i \in 1 .. Len(trail)
      BY <2>0, <2>2
    <3>2. k = level[VarOf(trail[i])]
      BY <1>1, <1>2, <3>1, PutFacts DEF TrailInv
    <3> QED BY <3>1, <3>2 DEF TrailInv, LevelsMatchMarkers, LevelOf
  <2> QED BY <2>1, <2>2
<1> QED BY <1>3, <1>4, <1>5 DEF TrailInv

(* A level opened with the queue empty, by itself or with a decision.  A   *)
(* decision is the opening of a level followed by an assignment at it, so  *)
(* it is enough to look at the opening.                                    *)
LEMMA SetMarkerKeepsInv ==
  ASSUME TrailInv, ~HasElem, SetMarker
  PROVE  TrailInv'
<1> USE DEF TrailInv, SetMarker
<1>0. /\ Len(marker') = Len(marker) + 1
      /\ marker'[Len(marker) + 1] = Len(trail)
      /\ \A i \in 1 .. Len(marker) : marker'[i] = marker[i] /\ marker[i] \in Nat
      /\ Len(marker) \in Nat \ {0} /\ Len(trail) \in Nat
      /\ head = Len(trail)
  BY DEF TrailTypeOK, HasElem
<1>1. TrailTypeOK'
  BY DEF TrailTypeOK
<1>2. TrailIsAssignment'
  BY DEF TrailIsAssignment, Eval
<1>3. MarkersOrdered'
  BY <1>0 DEF MarkersOrdered
<1>4. LevelsMatchMarkers'
  <2>1. DecisionLevel' = DecisionLevel + 1 /\ DecisionLevel \in Nat
    BY <1>0 DEF DecisionLevel
  <2> SUFFICES ASSUME NEW i \in 1 .. Len(trail), NEW k, k = level[VarOf(trail[i])]
               PROVE  /\ k <= DecisionLevel + 1
                      /\ marker'[k + 1] < i
                      /\ k < DecisionLevel + 1 => i <= marker'[k + 2]
    BY <2>1 DEF LevelsMatchMarkers, LevelOf
  <2>2. k \in Nat
    BY LitFacts DEF TrailTypeOK
  <2>3. k <= DecisionLevel /\ marker[k + 1] < i /\ (k < DecisionLevel => i <= marker[k + 2])
    BY DEF LevelsMatchMarkers, LevelOf
  <2>4. CASE k < DecisionLevel
    BY <1>0, <2>1, <2>2, <2>3, <2>4, SMTT(30) DEF DecisionLevel
  <2>5. CASE k = DecisionLevel
    BY <1>0, <2>1, <2>2, <2>3, <2>5 DEF DecisionLevel
  <2>6. k < DecisionLevel \/ k = DecisionLevel
    BY <2>1, <2>2, <2>3
  <2> QED BY <2>4, <2>5, <2>6
<1> QED BY <1>1, <1>2, <1>3, <1>4

(* A decision: what SetMarker does, then what Put does at the new level.   *)
LEMMA DecideKeepsInv ==
  ASSUME TrailInv, ~HasElem, NEW l \in Lit, Eval(l) = 0, Decide(l)
  PROVE  TrailInv'
<1> DEFINE n == Len(trail)
           d == Len(marker)
<1>1. Put(l, d, None) /\ marker' = Append(marker, n) /\ head' = head
  BY DEF Decide, Put, DecisionLevel, TrailInv, TrailTypeOK
<1>2. n \in Nat /\ d \in Nat /\ d > 0 /\ head = n
  BY DEF TrailInv, TrailTypeOK, HasElem
<1>3. /\ Len(marker') = d + 1 /\ marker'[d + 1] = n
      /\ \A i \in 1 .. d : marker'[i] = marker[i] /\ marker[i] \in Nat /\ marker[i] <= n
      /\ marker' \in Seq(Nat)
  BY <1>1, <1>2 DEF TrailInv, TrailTypeOK, MarkersOrdered
<1>4. /\ val' \in [Var -> Bool3] /\ level' \in [Var -> Nat]
      /\ reason' \in [Var -> Reason] /\ trail' \in Seq(Lit)
      /\ Len(trail') = n + 1 /\ trail'[n + 1] = l
      /\ \A i \in 1 .. n : trail'[i] = trail[i]
      /\ level'[VarOf(l)] = d
      /\ \A i \in 1 .. n : level'[VarOf(trail[i])] = level[VarOf(trail[i])]
      /\ TrailIsAssignment'
  BY <1>1, <1>2, PutFacts DEF TrailInv, Reason
<1> HIDE DEF n, d
<1>5. TrailTypeOK'
  BY <1>1, <1>2, <1>3, <1>4 DEF TrailTypeOK
<1>6. MarkersOrdered'
  <2>1. marker'[1] = 0
    BY <1>2, <1>3 DEF TrailInv, MarkersOrdered
  <2>2. ASSUME NEW i \in 1 .. Len(marker'), NEW j \in 1 .. Len(marker'), i <= j
        PROVE  marker'[i] <= marker'[j]
    <3>1. CASE j = d + 1
      <4>1. CASE i = d + 1
        BY <3>1, <4>1, <1>2, <1>3
      <4>2. CASE i # d + 1
        BY <3>1, <4>2, <1>2, <1>3
      <4> QED BY <4>1, <4>2
    <3>2. CASE j # d + 1
      <4>1. i \in 1 .. d /\ j \in 1 .. d
        BY <1>2, <1>3, <2>2, <3>2
      <4>2. marker[i] <= marker[j]
        BY <2>2, <4>1 DEF TrailInv, MarkersOrdered, d
      <4> QED BY <1>3, <4>1, <4>2
    <3> QED BY <3>1, <3>2
  <2>3. ASSUME NEW i \in 1 .. Len(marker')
        PROVE  marker'[i] <= head'
    BY <1>1, <1>2, <1>3
  <2> QED BY <2>1, <2>2, <2>3 DEF MarkersOrdered
<1>7. LevelsMatchMarkers'
  <2>1. DecisionLevel' = d /\ DecisionLevel = d - 1
    BY <1>2, <1>3 DEF DecisionLevel, d
  <2> SUFFICES ASSUME NEW i \in 1 .. n + 1, NEW k, k = level'[VarOf(trail'[i])]
               PROVE  /\ k <= d
                      /\ marker'[k + 1] < i
                      /\ k < d => i <= marker'[k + 2]
    BY <1>4, <2>1 DEF LevelsMatchMarkers, LevelOf
  <2>2. CASE i = n + 1
    <3>1. k = d
      BY <1>4, <2>2
    <3> QED BY <1>2, <1>3, <2>2, <3>1
  <2>3. CASE i # n + 1
    <3>1. i \in 1 .. n
      BY <1>2, <2>3
    <3>2. k = level[VarOf(trail[i])] /\ trail[i] \in Lit
      BY <1>4, <3>1 DEF TrailInv, TrailTypeOK, n
    <3>3. k \in Nat
      BY <3>2, LitFacts DEF TrailInv, TrailTypeOK
    <3>4. k <= d - 1 /\ marker[k + 1] < i /\ (k < d - 1 => i <= marker[k + 2])
      BY <2>1, <3>1, <3>2 DEF TrailInv, LevelsMatchMarkers, LevelOf, n
    <3>5. k + 1 \in 1 .. d /\ marker'[k + 1] = marker[k + 1]
      BY <1>2, <1>3, <3>3, <3>4, SMTT(30)
    <3>6. CASE k < d - 1
      <4>1. k + 2 \in 1 .. d
        BY <1>2, <3>3, <3>6
      <4>2. marker'[k + 2] = marker[k + 2]
        BY <1>3, <4>1
      <4> QED BY <1>2, <3>3, <3>4, <3>5, <3>6, <4>2
    <3>7. CASE k = d - 1
      <4>1. k + 2 = d + 1
        BY <1>2, <3>7
      <4> QED BY <1>2, <1>3, <3>1, <3>4, <3>5, <3>7, <4>1
    <3>8. k < d - 1 \/ k = d - 1
      BY <1>2, <3>3, <3>4
    <3> QED BY <3>6, <3>7, <3>8
  <2> QED BY <1>2, <2>2, <2>3
<1> QED BY <1>4, <1>5, <1>6, <1>7 DEF TrailInv

(* Taking the next literal only moves the read position.                   *)
LEMMA GetNextKeepsInv ==
  ASSUME TrailInv, GetNext
  PROVE  TrailInv'
<1>1. /\ head' = head + 1 /\ head < Len(trail)
      /\ UNCHANGED <<val, level, reason, trail, marker>>
  BY DEF GetNext, HasElem
<1>2. TrailTypeOK'
  BY <1>1 DEF TrailInv, TrailTypeOK
<1>3. TrailIsAssignment' /\ LevelsMatchMarkers'
  BY <1>1 DEF TrailInv, TrailIsAssignment, LevelsMatchMarkers, Eval, LevelOf, DecisionLevel
<1>4. MarkersOrdered'
  <2>1. \A i \in 1 .. Len(marker) : marker[i] \in Nat /\ marker[i] <= head /\ head \in Nat
    BY DEF TrailInv, MarkersOrdered, TrailTypeOK
  <2> QED BY <1>1, <2>1 DEF TrailInv, MarkersOrdered
<1> QED BY <1>2, <1>3, <1>4 DEF TrailInv

(* Backtracking to level k cuts the list at the start of level k + 1; what *)
(* is left was assigned at level k or below and keeps its value.           *)
LEMMA BacktrackKeepsInv ==
  ASSUME TrailInv, NEW k \in Nat, k < DecisionLevel, Backtrack(k)
  PROVE  TrailInv'
<1> DEFINE n == Len(trail)
           d == Len(marker)
           cut == marker[k + 2]
<1>1. /\ val' = [v \in Var |-> IF v \in Undone(k) THEN 0 ELSE val[v]]
      /\ trail' = SubSeq(trail, 1, cut)
      /\ head' = cut
      /\ marker' = SubSeq(marker, 1, k + 1)
      /\ level' = level /\ reason' = reason
  BY DEF Backtrack
<1>2. n \in Nat /\ d \in Nat /\ k + 2 \in 1 .. d /\ cut \in Nat /\ cut <= n
  BY DEF TrailInv, TrailTypeOK, MarkersOrdered, DecisionLevel
<1>3. /\ trail' \in Seq(Lit) /\ Len(trail') = cut
      /\ \A i \in 1 .. cut : trail'[i] = trail[i] /\ trail[i] \in Lit /\ i \in 1 .. n
      /\ marker' \in Seq(Nat) /\ Len(marker') = k + 1
      /\ \A i \in 1 .. k + 1 : marker'[i] = marker[i] /\ marker[i] \in Nat /\ i \in 1 .. d
  <2> HIDE DEF cut
  <2>1. trail \in Seq(Lit) /\ marker \in Seq(Nat)
    BY DEF TrailInv, TrailTypeOK
  <2>2. \A i \in 1 .. cut : trail[i] \in Lit /\ i \in 1 .. n
    BY <1>2, <2>1
  <2>3. \A i \in 1 .. k + 1 : marker[i] \in Nat /\ i \in 1 .. d
    BY <1>2, <2>1
  <2>4. trail' \in Seq(Lit) /\ Len(trail') = cut /\ \A i \in 1 .. cut : trail'[i] = trail[i]
    BY <1>1, <1>2, <2>1, <2>2
  <2>5. marker' \in Seq(Nat) /\ Len(marker') = k + 1 /\ \A i \in 1 .. k + 1 : marker'[i] = marker[i]
    BY <1>1, <1>2, <2>1, <2>3
  <2> QED BY <2>2, <2>3, <2>4, <2>5
<1>4. ASSUME NEW i \in 1 .. cut
      PROVE  VarOf(trail[i]) \notin Undone(k)
  <2> SUFFICES ASSUME NEW j \in cut + 1 .. n, VarOf(trail[i]) = VarOf(trail[j])
               PROVE  FALSE
    BY DEF Undone
  <2>1. i \in 1 .. n /\ j \in 1 .. n /\ i # j
    BY <1>2
  <2> QED BY <2>1 DEF TrailInv, TrailIsAssignment
<1>5. TrailTypeOK'
  <2>1. val' \in [Var -> Bool3]
    BY <1>1 DEF TrailInv, TrailTypeOK, Bool3
  <2> QED BY <1>1, <1>2, <1>3, <2>1, SMTT(30) DEF TrailInv, TrailTypeOK
<1>6. TrailIsAssignment'
  <2>1. ASSUME NEW i \in 1 .. Len(trail')
        PROVE  ValueOf(val', trail'[i]) = 1
    <3> DEFINE m == trail[i]
    <3>1. /\ m \in Lit /\ trail'[i] = m /\ VarOf(m) \notin Undone(k)
          /\ ValueOf(val, m) = 1
      BY <1>3, <1>4 DEF TrailInv, TrailIsAssignment, Eval
    <3> HIDE DEF m
    <3>2. val'[VarOf(m)] = val[VarOf(m)]
      BY <1>1, <3>1, LitFacts
    <3> QED BY <3>1, <3>2, LitFacts DEF ValueOf
  <2>2. ASSUME NEW i \in 1 .. Len(trail'), NEW j \in 1 .. Len(trail'),
               VarOf(trail'[i]) = VarOf(trail'[j])
        PROVE  i = j
    BY <1>3, <2>2 DEF TrailInv, TrailIsAssignment
  <2>3. ASSUME NEW v \in Var, val'[v] # 0
        PROVE  \E i \in 1 .. Len(trail') : VarOf(trail'[i]) = v
    <3>1. v \notin Undone(k) /\ val[v] # 0
      BY <1>1, <2>3
    <3>2. PICK i \in 1 .. n : VarOf(trail[i]) = v
      BY <3>1 DEF TrailInv, TrailIsAssignment
    <3>3. i \notin cut + 1 .. n
      BY <3>1, <3>2 DEF Undone
    <3>4. i \in 1 .. cut
      BY <1>2, <3>3
    <3> QED BY <1>3, <3>2, <3>4
  <2> QED BY <2>1, <2>2, <2>3 DEF TrailIsAssignment, Eval
<1>7. MarkersOrdered'
  <2>1. marker'[1] = 0
    BY <1>3 DEF TrailInv, MarkersOrdered
  <2>2. ASSUME NEW i \in 1 .. Len(marker'), NEW j \in 1 .. Len(marker'), i <= j
        PROVE  marker'[i] <= marker'[j]
    BY <1>3, <2>2 DEF TrailInv, MarkersOrdered
  <2>3. ASSUME NEW i \in 1 .. Len(marker')
        PROVE  marker'[i] <= head'
    <3>1. marker[i] <= marker[k + 2]
      BY <1>2, <1>3 DEF TrailInv, MarkersOrdered
    <3> QED BY <1>1, <1>3, <3>1
  <2> QED BY <2>1, <2>2, <2>3 DEF MarkersOrdered
<1>8. LevelsMatchMarkers'
  <2>1. DecisionLevel' = k /\ DecisionLevel = d - 1 /\ k < d - 1
    BY <1>3 DEF DecisionLevel
  <2> SUFFICES ASSUME NEW i \in 1 .. cut, NEW j, j = level[VarOf(trail[i])]
               PROVE  /\ j <= k
                      /\ marker'[j + 1] < i
                      /\ j < k => i <= marker'[j + 2]
    BY <1>1, <1>3, <2>1 DEF LevelsMatchMarkers, LevelOf
  <2>2. j \in Nat
    BY <1>3, LitFacts DEF TrailInv, TrailTypeOK
  <2>3. j <= d - 1 /\ marker[j + 1] < i /\ (j < d - 1 => i <= marker[j + 2])
    BY <1>3, <2>1 DEF TrailInv, LevelsMatchMarkers, LevelOf
  <2> HIDE DEF n, d
  <2>7. j + 1 \in 1 .. d /\ (j < d - 1 => j + 2 \in 1 .. d)
    BY <1>2, <2>2, <2>3
  <2>4. j <= k
    <3> SUFFICES ASSUME j > k
                 PROVE  FALSE
      BY <2>2
    <3>1. k + 2 <= j + 1
      BY <2>2
    <3>2. marker[k + 2] <= marker[j + 1]
      BY <1>2, <2>7, <3>1 DEF TrailInv, MarkersOrdered, d
    <3>3. marker[j + 1] \in Nat
      <4>1. \A x \in 1 .. d : marker[x] \in Nat
        BY DEF TrailInv, TrailTypeOK, d
      <4> QED BY <2>7, <4>1
    <3> QED BY <1>2, <2>3, <3>2, <3>3
  <2>5. marker'[j + 1] < i
    <3>1. j + 1 \in 1 .. k + 1
      BY <2>2, <2>4
    <3>2. marker'[j + 1] = marker[j + 1]
      BY <1>3, <3>1
    <3> QED BY <2>3, <3>2
  <2>6. ASSUME j < k
        PROVE  i <= marker'[j + 2]
    <3>1. j + 2 \in 1 .. k + 1 /\ j < d - 1
      BY <2>1, <2>2, <2>6
    <3>2. marker'[j + 2] = marker[j + 2]
      BY <1>3, <3>1
    <3> QED BY <2>3, <3>1, <3>2
  <2> QED BY <2>4, <2>5, <2>6
<1> QED BY <1>5, <1>6, <1>7, <1>8 DEF TrailInv

LEMMA TrailNextKeepsInv == TrailInv /\ [TrailNext]_trailVars => TrailInv'
<1> SUFFICES ASSUME TrailInv, [TrailNext]_trailVars
             PROVE  TrailInv'
  OBVIOUS
<1>1. ASSUME NEW l \in Lit, NEW r \in Reason, Eval(l) = 0, Assign(l, r)
      PROVE  TrailInv'
  BY <1>1, AssignKeepsInv
<1>2. ASSUME NEW l \in Lit, Eval(l) = 0, ~HasElem, Decide(l)
      PROVE  TrailInv'
  BY <1>2, DecideKeepsInv
<1>3. CASE ~HasElem /\ SetMarker
  BY <1>3, SetMarkerKeepsInv
<1>4. CASE GetNext
  BY <1>4, GetNextKeepsInv
<1>5. ASSUME NEW k \in 0 .. DecisionLevel - 1, Backtrack(k)
      PROVE  TrailInv'
  <2>1. k \in Nat /\ k < DecisionLevel
    BY DEF TrailInv, TrailTypeOK, DecisionLevel
  <2> QED BY <1>5, <2>1, BacktrackKeepsInv
<1>6. CASE UNCHANGED trailVars
  BY <1>6 DEF trailVars, TrailInv, TrailTypeOK, TrailIsAssignment, MarkersOrdered,
              LevelsMatchMarkers, Eval, LevelOf, DecisionLevel
<1> QED BY <1>1, <1>2, <1>3, <1>4, <1>5, <1>6 DEF TrailNext

(* The trail, used as its contract allows, is always the list of the true  *)
(* literals cut into levels by its markers.                                *)
THEOREM TrailAlwaysInv == TrailSpec => []TrailInv
<1>1. TrailInit => TrailInv
  BY TrailInitOK
<1>2. TrailInv /\ [TrailNext]_trailVars => TrailInv'
  BY TrailNextKeepsInv
<1> QED BY <1>1, <1>2, PTL DEF TrailSpec

(* The list holds each assigned variable once, as its true literal.        *)
THEOREM TrailAlwaysAssignment == TrailSpec => [](TrailTypeOK /\ TrailIsAssignment)
<1>1. TrailInv => TrailTypeOK /\ TrailIsAssignment
  BY DEF TrailInv
<1> QED BY <1>1, TrailAlwaysInv, PTL

(* mDecisionLevel and mMarker agree after any mixture of steps.            *)
THEOREM TrailAlwaysLevels == TrailSpec => [](MarkersOrdered /\ LevelsMatchMarkers)
<1>1. TrailInv => MarkersOrdered /\ LevelsMatchMarkers
  BY DEF TrailInv
<1> QED BY <1>1, TrailAlwaysInv, PTL

-----------------------------------------------------------------------------
(***************************************************************************)
(* The engine.                                                             *)
(***************************************************************************)
(* The markers of the levels never decrease and stay within the list.      *)
MarkersSorted ==
  /\ \A i, j \in 1 .. Len(marker) : i <= j => marker[i] <= marker[j]
  /\ \A i \in 1 .. Len(marker) : marker[i] <= Len(trail)

(* What is left to read of a list is still in it.                          *)
ListPart ==
  /\ pl = 0 => todo = NoWatcher
  /\ pl # 0 => \A w \in Watcher : todo[w] <= watch[pl][w]

(* A list is being read only inside implication().                         *)
Reading == pl # 0 => pc = "imply"

(* Shorter clauses are no Clause objects.                                  *)
LongClauses == \A c \in Live : Len(lits[c]) >= 3

(* The position of capture() is within the list, and make_minimal() starts *)
(* from a literal.                                                         *)
Analysing ==
  /\ last <= Len(trail)
  /\ last # 0 => pc \in {"capture", "minimize", "error"}
  /\ pc = "minimize" => uip \in Lit

(* The invariant, by the part of the state it is about: WatchedTwice and   *)
(* HeapCovers, the types, and what their preservation rests on.            *)
TrailPart == TrailTypeOK /\ MarkersSorted
DbPart == ImplTypeOK /\ LongClauses /\ WatchedTwice
AnaPart == AnaTypeOK /\ Analysing
SelPart ==
  /\ varNum \in 0 .. NVar /\ oldVarNum \in 0 .. varNum
  /\ prev \in [Var -> Bool3] /\ heap \subseteq DecVar
  /\ HeapCovers
CtlPart ==
  /\ sane \in BOOLEAN /\ goOn \in BOOLEAN /\ sweepAssigns \in Int
  /\ conflictBudget \in Nat /\ propBudget \in Nat
  /\ conflictNum \in Nat /\ propNum \in Nat /\ quota \in Nat
  /\ pc \in Places /\ cont \in {"none", "add", "init", "top", "search"}
QueryPart ==
  /\ assumps \in Seq(Lit) /\ finals \subseteq Lit /\ conflicts \subseteq Lit
  /\ stat \in {"none", "sat", "unsat", "unknown"}
  /\ cnf \subseteq SUBSET Lit /\ menuPos \in 0 .. Len(Menu)
  /\ solves \in Nat /\ stopped \in BOOLEAN
CoreInv ==
  TrailPart /\ DbPart /\ ListPart /\ Reading /\ AnaPart /\ SelPart /\ CtlPart /\ QueryPart
-----------------------------------------------------------------------------
(***************************************************************************)
(* Sets and sequences.                                                     *)
(***************************************************************************)
LEMMA LitsFinite ==
  /\ IsFiniteSet(Lit) /\ IsFiniteSet(Var) /\ IsFiniteSet(ClauseId)
  /\ \A S \in SUBSET Lit : IsFiniteSet(S) /\ Cardinality(S) \in Nat
  /\ \A S \in SUBSET Var : IsFiniteSet(S) /\ Cardinality(S) \in Nat
<1>1. NVar \in Nat /\ MaxClause \in Nat /\ -NVar \in Int
  BY SizeAssumption
<1>2. IsFiniteSet(-NVar .. NVar) /\ IsFiniteSet(Var) /\ IsFiniteSet(ClauseId)
  BY <1>1, FS_Interval DEF Var, ClauseId
<1>3. Lit \subseteq -NVar .. NVar
  BY DEF Lit
<1> QED BY <1>2, <1>3, FS_Subset, FS_CardinalityType

LEMMA VarsOfLits ==
  ASSUME NEW S \in SUBSET Lit
  PROVE  Vars(S) \in SUBSET Var
BY LitFacts DEF Vars

(* The values of a sequence of literals are literals.                      *)
LEMMA ElemsOfSeq ==
  ASSUME NEW s \in Seq(Lit)
  PROVE  Elems(s) \in SUBSET Lit
BY DEF Elems

LEMMA ElementOfSeq ==
  ASSUME NEW s \in Seq(Lit), NEW i \in 1 .. Len(s)
  PROVE  s[i] \in Lit
OBVIOUS

LEMMA ThreeOrMore ==
  ASSUME NEW n \in Nat, n # 0, n # 1, n # 2
  PROVE  n >= 3
OBVIOUS

(* Exchanging two literals of a clause.                                    *)
LEMMA SwappedFacts ==
  ASSUME NEW s \in Seq(Lit), NEW i \in 1 .. Len(s), NEW j \in 1 .. Len(s)
  PROVE  /\ Swapped(s, i, j) \in Seq(Lit)
         /\ Len(Swapped(s, i, j)) = Len(s)
         /\ Swapped(s, i, j)[j] = s[i]
         /\ Swapped(s, i, j)[i] = s[j]
         /\ \A k \in 1 .. Len(s) : k # i /\ k # j => Swapped(s, i, j)[k] = s[k]
BY DEF Swapped
-----------------------------------------------------------------------------
(***************************************************************************)
(* The trail: what any of its operations keeps, whatever the reason for    *)
(* calling it.                                                             *)
(***************************************************************************)
LEMMA PutKeepsTypes ==
  ASSUME TrailPart, NEW l \in Lit, NEW k \in Nat, NEW r \in Reason, Put(l, k, r)
  PROVE  /\ val' \in [Var -> Bool3] /\ level' \in [Var -> Nat]
         /\ reason' \in [Var -> Reason] /\ trail' \in Seq(Lit)
         /\ Len(trail') = Len(trail) + 1
         /\ head' \in 0 .. Len(trail')
         /\ val'[VarOf(l)] \in {-1, 1}
         /\ \A v \in Var : v # VarOf(l) => val'[v] = val[v]
<1> USE DEF TrailPart, TrailTypeOK, Put
<1>1. VarOf(l) \in Var
  BY LitFacts
<1>2. val' \in [Var -> Bool3]
  BY DEF Bool3
<1>3. val'[VarOf(l)] \in {-1, 1} /\ \A v \in Var : v # VarOf(l) => val'[v] = val[v]
  BY <1>1
<1> QED BY <1>1, <1>2, <1>3

(* No variable loses its value in the step.                                *)
NoneUndone == \A v \in Var : val'[v] = 0 => val[v] = 0

LEMMA AssignKeepsPart ==
  ASSUME TrailPart, NEW l \in Lit, NEW r \in Reason, Assign(l, r)
  PROVE  TrailPart' /\ Len(trail') = Len(trail) + 1 /\ NoneUndone
<1>1. DecisionLevel \in Nat
  BY DEF TrailPart, TrailTypeOK, DecisionLevel
<1>2. Put(l, DecisionLevel, r) /\ marker' = marker
  BY DEF Assign
<1>3. TrailTypeOK' /\ Len(trail') = Len(trail) + 1
  BY <1>1, <1>2, PutKeepsTypes DEF TrailPart, TrailTypeOK
<1>4. MarkersSorted'
  BY <1>2, <1>3 DEF TrailPart, TrailTypeOK, MarkersSorted
<1>5. NoneUndone
  <2>1. val'[VarOf(l)] \in {-1, 1} /\ \A v \in Var : v # VarOf(l) => val'[v] = val[v]
    BY <1>1, <1>2, PutKeepsTypes
  <2> QED BY <2>1 DEF NoneUndone
<1> QED BY <1>3, <1>4, <1>5 DEF TrailPart

LEMMA OpenLevelKeepsMarkers ==
  ASSUME TrailPart, marker' = Append(marker, Len(trail)),
         trail' \in Seq(Lit), Len(trail') \in {Len(trail), Len(trail) + 1}
  PROVE  marker' \in Seq(Nat) /\ Len(marker') > 0 /\ MarkersSorted'
<1>1. /\ Len(marker') = Len(marker) + 1
      /\ marker'[Len(marker) + 1] = Len(trail)
      /\ \A i \in 1 .. Len(marker) : marker'[i] = marker[i] /\ marker[i] \in Nat
      /\ Len(marker) \in Nat \ {0} /\ Len(trail) \in Nat /\ marker' \in Seq(Nat)
  BY DEF TrailPart, TrailTypeOK
<1>2. ASSUME NEW i \in 1 .. Len(marker')
      PROVE  marker'[i] <= Len(trail) /\ marker'[i] \in Nat
  BY <1>1 DEF TrailPart, MarkersSorted
<1>3. ASSUME NEW i \in 1 .. Len(marker'), NEW j \in 1 .. Len(marker'), i <= j
      PROVE  marker'[i] <= marker'[j]
  <2>1. CASE j = Len(marker) + 1
    BY <2>1, <1>1, <1>2
  <2>2. CASE j # Len(marker) + 1
    <3>1. i \in 1 .. Len(marker) /\ j \in 1 .. Len(marker)
      BY <2>2, <1>1, <1>3
    <3> QED BY <3>1, <1>1, <1>3 DEF TrailPart, MarkersSorted
  <2> QED BY <2>1, <2>2
<1> QED BY <1>1, <1>2, <1>3 DEF MarkersSorted

LEMMA SetMarkerKeepsPart ==
  ASSUME TrailPart, SetMarker
  PROVE  TrailPart'
<1>1. marker' \in Seq(Nat) /\ Len(marker') > 0 /\ MarkersSorted'
  BY OpenLevelKeepsMarkers DEF SetMarker, TrailPart, TrailTypeOK
<1> QED BY <1>1 DEF SetMarker, TrailPart, TrailTypeOK

LEMMA DecideKeepsPart ==
  ASSUME TrailPart, NEW l \in Lit, Decide(l)
  PROVE  /\ TrailPart' /\ Len(trail') = Len(trail) + 1 /\ NoneUndone
         /\ val'[VarOf(l)] # 0
<1>1. DecisionLevel + 1 \in Nat /\ None \in Reason
  BY DEF TrailPart, TrailTypeOK, DecisionLevel, Reason
<1>2. Put(l, DecisionLevel + 1, None) /\ marker' = Append(marker, Len(trail))
  BY DEF Decide
<1>3. /\ val' \in [Var -> Bool3] /\ level' \in [Var -> Nat]
      /\ reason' \in [Var -> Reason] /\ trail' \in Seq(Lit)
      /\ Len(trail') = Len(trail) + 1 /\ head' \in 0 .. Len(trail')
      /\ val'[VarOf(l)] \in {-1, 1}
      /\ \A v \in Var : v # VarOf(l) => val'[v] = val[v]
  BY <1>1, <1>2, PutKeepsTypes
<1>4. marker' \in Seq(Nat) /\ Len(marker') > 0 /\ MarkersSorted'
  BY <1>2, <1>3, OpenLevelKeepsMarkers
<1>5. NoneUndone
  BY <1>3 DEF NoneUndone
<1>6. TrailPart'
  BY <1>3, <1>4 DEF TrailPart, TrailTypeOK
<1> QED BY <1>3, <1>5, <1>6

LEMMA GetNextKeepsPart ==
  ASSUME TrailPart, GetNext
  PROVE  TrailPart' /\ trail[head + 1] \in Lit
<1>1. head + 1 \in 1 .. Len(trail)
  BY DEF GetNext, HasElem, TrailPart, TrailTypeOK
<1> QED BY <1>1 DEF GetNext, HasElem, TrailPart, TrailTypeOK, MarkersSorted

LEMMA BacktrackKeepsPart ==
  ASSUME TrailPart, NEW k \in Nat, Backtrack(k)
  PROVE  /\ TrailPart'
         /\ k < DecisionLevel => Undone(k) \in SUBSET Var
         /\ \A v \in Var : val'[v] = IF k < DecisionLevel /\ v \in Undone(k) THEN 0 ELSE val[v]
<1>1. CASE ~(k < DecisionLevel)
  BY <1>1 DEF Backtrack, trailVars, TrailPart, TrailTypeOK, MarkersSorted
<1>2. CASE k < DecisionLevel
  <2> DEFINE m == marker[k + 2]
  <2>1. /\ k + 2 \in 1 .. Len(marker) /\ Len(marker) \in Nat /\ Len(trail) \in Nat
        /\ \A i \in 1 .. Len(marker) : marker[i] \in Nat
    BY <1>2 DEF DecisionLevel, TrailPart, TrailTypeOK
  <2>2. m \in Nat /\ m <= Len(trail)
    BY <2>1 DEF TrailPart, MarkersSorted
  <2>3. /\ val' = [v \in Var |-> IF v \in Undone(k) THEN 0 ELSE val[v]]
        /\ trail' = SubSeq(trail, 1, m) /\ head' = m
        /\ marker' = SubSeq(marker, 1, k + 1)
        /\ level' = level /\ reason' = reason
    BY <1>2 DEF Backtrack
  <2>4. \A i \in 1 .. k + 1 : i \in 1 .. Len(marker) /\ i <= k + 2
    BY <2>1
  <2> HIDE DEF m
  <2>5. trail' \in Seq(Lit) /\ Len(trail') = m
    BY <2>2, <2>3 DEF TrailPart, TrailTypeOK
  <2>6. /\ marker' \in Seq(Nat) /\ Len(marker') = k + 1
        /\ \A i \in 1 .. k + 1 : marker'[i] = marker[i]
    BY <2>1, <2>3, <2>4 DEF TrailPart, TrailTypeOK
  <2>7. MarkersSorted'
    <3>1. \A i \in 1 .. k + 1 : marker[i] <= m
      BY <2>1, <2>4 DEF m, TrailPart, MarkersSorted
    <3>2. \A i, j \in 1 .. k + 1 : i <= j => marker[i] <= marker[j]
      BY <2>4 DEF TrailPart, MarkersSorted
    <3>3. \A i, j \in 1 .. Len(marker') : i <= j => marker'[i] <= marker'[j]
      BY <3>2, <2>6
    <3>4. \A i \in 1 .. Len(marker') : marker'[i] <= Len(trail')
      BY <3>1, <2>5, <2>6
    <3> QED BY <3>3, <3>4 DEF MarkersSorted
  <2>8. val' \in [Var -> Bool3]
    BY <2>3 DEF TrailPart, TrailTypeOK, Bool3
  <2>9. Undone(k) \in SUBSET Var
    <3>1. \A i \in m + 1 .. Len(trail) : i \in 1 .. Len(trail)
      BY <2>1, <2>2
    <3>2. \A i \in m + 1 .. Len(trail) : VarOf(trail[i]) \in Var
      BY <3>1, LitFacts DEF TrailPart, TrailTypeOK
    <3> QED BY <3>2 DEF Undone, m
  <2>10. TrailTypeOK'
    BY <2>2, <2>3, <2>5, <2>6, <2>8 DEF TrailPart, TrailTypeOK
  <2> QED BY <1>2, <2>3, <2>7, <2>9, <2>10 DEF TrailPart
<1> QED BY <1>1, <1>2
-----------------------------------------------------------------------------
(***************************************************************************)
(* The clauses and their lists.                                            *)
(***************************************************************************)
LEMMA ClauseFacts ==
  ASSUME DbPart, NEW c \in Live
  PROVE  /\ c \in ClauseId /\ lits[c] \in Seq(Lit) /\ Len(lits[c]) \in Nat
         /\ Len(lits[c]) >= 3
         /\ wl0(c) \in Lit /\ wl1(c) \in Lit
<1>1. c \in ClauseId /\ lits[c] \in Seq(Lit) /\ Len(lits[c]) >= 3
  BY DEF DbPart, ImplTypeOK, LongClauses, Live
<1>2. 1 \in 1 .. Len(lits[c]) /\ 2 \in 1 .. Len(lits[c]) /\ Len(lits[c]) \in Nat
  BY <1>1
<1> QED BY <1>1, <1>2 DEF wl0, wl1

(* It does not matter which of the watched literals comes first.           *)
LEMMA OccurrencesCommute ==
  ASSUME NEW P1 \in BOOLEAN, NEW P2 \in BOOLEAN
  PROVE  Occurrences(P1, P2) = Occurrences(P2, P1)
BY DEF Occurrences

LEMMA WatcherKinds ==
  /\ Lit \cap ClauseId = {} /\ 0 \notin Watcher
  /\ ClauseId \subseteq Watcher /\ Lit \subseteq Watcher
BY SizeAssumption DEF Lit, ClauseId, Watcher

(* A watcher still to be read belongs to the list being read, and a clause *)
(* found there is live and watched from there.                             *)
LEMMA TakenFacts ==
  ASSUME DbPart, ListPart, NEW w \in Watcher, todo[w] > 0
  PROVE  /\ pl \in Lit /\ watch[pl][w] \in Nat /\ watch[pl][w] > 0
         /\ todo[w] \in Nat /\ todo[w] <= watch[pl][w]
         /\ w \in ClauseId => w \in Live /\ (pl = -wl0(w) \/ pl = -wl1(w))
<1>1. pl # 0
  BY DEF ListPart, NoWatcher
<1>2. pl \in Lit /\ todo[w] \in Nat /\ watch[pl][w] \in Nat
  BY <1>1 DEF DbPart, ImplTypeOK
<1>3. todo[w] <= watch[pl][w]
  BY <1>1 DEF ListPart
<1>4. ASSUME w \in ClauseId
      PROVE  w \in Live /\ (pl = -wl0(w) \/ pl = -wl1(w))
  <2>1. watch[pl][w] = IF w \in Live THEN Occurrences(pl = -wl0(w), pl = -wl1(w)) ELSE 0
    BY <1>2, <1>4 DEF DbPart, WatchedTwice
  <2> QED BY <2>1, <1>2, <1>3 DEF Occurrences
<1> QED BY <1>2, <1>3, <1>4

(* Orienting a clause puts the negation of pl second and watches the same  *)
(* two literals.                                                           *)
LEMMA OrientedFacts ==
  ASSUME DbPart, NEW c \in Live, pl \in Lit, pl = -wl0(c) \/ pl = -wl1(c)
  PROVE  /\ Oriented(c) \in Seq(Lit) /\ Len(Oriented(c)) = Len(lits[c])
         /\ Oriented(c)[1] \in Lit /\ Oriented(c)[2] = -pl
         /\ \A l \in Lit : Occurrences(l = -Oriented(c)[1], l = -Oriented(c)[2])
                          = Occurrences(l = -wl0(c), l = -wl1(c))
<1> DEFINE s == lits[c]
<1>1. /\ s \in Seq(Lit) /\ 1 \in 1 .. Len(s) /\ 2 \in 1 .. Len(s)
      /\ s[1] = wl0(c) /\ s[2] = wl1(c) /\ s[1] \in Lit /\ s[2] \in Lit
  BY ClauseFacts DEF wl0, wl1
<1>2. /\ s[1] \in Int /\ s[2] \in Int /\ pl \in Int
  BY <1>1, LitFacts
<1>3. Oriented(c) = IF s[1] = -pl THEN Swapped(s, 1, 2) ELSE s
  BY DEF Oriented, wl0
<1>4. /\ Swapped(s, 1, 2) \in Seq(Lit) /\ Len(Swapped(s, 1, 2)) = Len(s)
      /\ Swapped(s, 1, 2)[1] = s[2] /\ Swapped(s, 1, 2)[2] = s[1]
  <2> HIDE DEF s
  <2> QED BY <1>1, SwappedFacts
<1> HIDE DEF s
<1>5. CASE s[1] = -pl
  <2> DEFINE o == Oriented(c)
  <2>1. o = Swapped(s, 1, 2)
    BY <1>3, <1>5
  <2> HIDE DEF o
  <2>2. o \in Seq(Lit) /\ Len(o) = Len(s) /\ o[1] = s[2] /\ o[2] = s[1]
    BY <1>4, <2>1
  <2>3. ASSUME NEW l \in Lit
        PROVE  Occurrences(l = -o[1], l = -o[2]) = Occurrences(l = -s[1], l = -s[2])
    BY <2>2, OccurrencesCommute
  <2> QED BY <1>1, <1>5, <2>2, <2>3 DEF o, s
<1>6. CASE s[1] # -pl
  <2>1. Oriented(c) = s /\ s[2] = -pl
    BY <1>1, <1>2, <1>3, <1>6
  <2> QED BY <1>1, <2>1 DEF s
<1> QED BY <1>5, <1>6

(* A clause rewritten so that the same literals are watched as often as    *)
(* watch' says keeps the lists right.                                      *)
LEMMA RewriteKeepsDb ==
  ASSUME DbPart, NEW c \in Live, NEW s \in Seq(Lit), Len(s) >= 3,
         lits' = [lits EXCEPT ![c] = s], constr' = constr, learnts' = learnts,
         watch' \in [Lit -> [Watcher -> Nat]],
         pl' \in Lit \cup {0}, todo' \in [Watcher -> Nat],
         \A l \in Lit : watch'[l][c] = Occurrences(l = -s[1], l = -s[2]),
         \A l \in Lit, d \in ClauseId : d # c => watch'[l][d] = watch[l][d]
  PROVE  DbPart'
<1>1. /\ c \in ClauseId /\ Live' = Live
      /\ lits' \in [ClauseId -> Seq(Lit)]
      /\ lits'[c] = s
      /\ \A d \in ClauseId : d # c => lits'[d] = lits[d]
  BY DEF DbPart, ImplTypeOK, Live
<1>2. ImplTypeOK'
  BY <1>1 DEF DbPart, ImplTypeOK
<1>3. LongClauses'
  BY <1>1 DEF DbPart, LongClauses, ImplTypeOK, Live
<1>4. ASSUME NEW d \in ClauseId, NEW l \in Lit
      PROVE  watch'[l][d] = IF d \in Live' THEN Occurrences(l = -lits'[d][1], l = -lits'[d][2]) ELSE 0
  <2>1. CASE d = c
    BY <2>1, <1>1
  <2>2. CASE d # c
    BY <2>2, <1>1 DEF DbPart, WatchedTwice, wl0, wl1
  <2> QED BY <2>1, <2>2
<1>5. WatchedTwice'
  BY <1>4 DEF WatchedTwice, wl0, wl1
<1> QED BY <1>2, <1>3, <1>5 DEF DbPart

LEMMA TakeKeepsTypes ==
  ASSUME DbPart, ListPart, NEW w \in Watcher, todo[w] > 0, Take(w)
  PROVE  /\ pl' = pl /\ todo' \in [Watcher -> Nat]
         /\ \A u \in Watcher : todo'[u] = IF u = w THEN todo[u] - 1 ELSE todo[u]
<1>1. todo \in [Watcher -> Nat] /\ todo[w] - 1 \in Nat
  BY TakenFacts DEF DbPart, ImplTypeOK
<1> QED BY <1>1 DEF Take

(* Reading a watcher without moving it; the clause may be oriented.        *)
LEMMA TakeKeepsDb ==
  ASSUME DbPart, ListPart, NEW w \in Watcher, todo[w] > 0, Take(w),
         UNCHANGED <<constr, learnts, watch>>,
         \/ lits' = lits
         \/ w \in ClauseId /\ lits' = [lits EXCEPT ![w] = Oriented(w)]
  PROVE  DbPart' /\ ListPart'
<1>1. /\ pl' = pl /\ todo' \in [Watcher -> Nat] /\ pl \in Lit
      /\ \A u \in Watcher : todo'[u] <= todo[u]
  <2>1. /\ pl' = pl /\ todo' \in [Watcher -> Nat] /\ pl \in Lit
        /\ \A u \in Watcher : todo'[u] = IF u = w THEN todo[u] - 1 ELSE todo[u]
    BY TakeKeepsTypes, TakenFacts
  <2>2. \A u \in Watcher : todo[u] \in Nat
    BY DEF DbPart, ImplTypeOK
  <2> QED BY <2>1, <2>2
<1>2. ListPart'
  <2>1. pl # 0
    BY <1>1, LitFacts
  <2>2. ASSUME NEW u \in Watcher
        PROVE  todo'[u] <= watch[pl][u]
    <3>1. todo'[u] \in Nat /\ todo[u] \in Nat /\ watch[pl][u] \in Nat /\ todo[u] <= watch[pl][u]
      BY <1>1, <2>1 DEF DbPart, ImplTypeOK, ListPart
    <3> QED BY <3>1, <1>1
  <2> QED BY <1>1, <2>1, <2>2 DEF ListPart
<1>3. CASE lits' = lits
  <2>1. ImplTypeOK'
    BY <1>1, <1>3 DEF DbPart, ImplTypeOK
  <2>2. Live' = Live
    BY DEF Live
  <2>3. LongClauses' /\ WatchedTwice'
    BY <1>3, <2>2 DEF DbPart, LongClauses, WatchedTwice, wl0, wl1
  <2> QED BY <1>2, <2>1, <2>3 DEF DbPart
<1>4. CASE w \in ClauseId /\ lits' = [lits EXCEPT ![w] = Oriented(w)]
  <2>1. w \in Live /\ (pl = -wl0(w) \/ pl = -wl1(w))
    BY <1>4, TakenFacts
  <2>2. /\ Oriented(w) \in Seq(Lit) /\ Len(Oriented(w)) >= 3
        /\ \A l \in Lit : Occurrences(l = -Oriented(w)[1], l = -Oriented(w)[2])
                         = Occurrences(l = -wl0(w), l = -wl1(w))
    BY <1>1, <2>1, OrientedFacts, ClauseFacts
  <2> DEFINE s == Oriented(w)
  <2> HIDE DEF s
  <2>3. /\ s \in Seq(Lit) /\ Len(s) >= 3 /\ lits' = [lits EXCEPT ![w] = s]
        /\ \A l \in Lit : watch'[l][w] = Occurrences(l = -s[1], l = -s[2])
    BY <2>1, <2>2, <1>4 DEF DbPart, WatchedTwice, s
  <2>4. watch' \in [Lit -> [Watcher -> Nat]] /\ pl' \in Lit \cup {0}
    BY <1>1 DEF DbPart, ImplTypeOK
  <2>5. DbPart'
    BY <1>1, <2>1, <2>3, <2>4, RewriteKeepsDb
  <2> QED BY <1>2, <2>5
<1> QED BY <1>2, <1>3, <1>4

(* Moving a watch: the clause leaves the list being read for that of its   *)
(* new second literal.                                                     *)
LEMMA MoveWatchKeepsDb ==
  ASSUME DbPart, ListPart, NEW c \in ClauseId, todo[c] > 0, MoveWatch(c)
  PROVE  DbPart' /\ ListPart'
<1> DEFINE s == Oriented(c)
<1>0. c \in Watcher
  BY WatcherKinds
<1>1. /\ c \in Live /\ pl \in Lit /\ pl # 0
      /\ watch[pl][c] \in Nat /\ watch[pl][c] > 0
      /\ pl = -wl0(c) \/ pl = -wl1(c)
      /\ Take(c)
  BY <1>0, TakenFacts, LitFacts DEF MoveWatch
<1>2. /\ s \in Seq(Lit) /\ Len(s) = Len(lits[c]) /\ Len(s) >= 3 /\ Len(s) \in Nat
      /\ s[1] \in Lit /\ s[2] = -pl
      /\ \A l \in Lit : Occurrences(l = -s[1], l = -s[2]) = watch[l][c]
  BY <1>1, OrientedFacts, ClauseFacts DEF DbPart, WatchedTwice
<1> HIDE DEF s
<1>3. PICK i \in 3 .. Len(lits[c]) :
        /\ lits' = [lits EXCEPT ![c] = Swapped(s, 2, i)]
        /\ watch' = Moved(c, -s[i])
  BY DEF MoveWatch, s
<1>4. i \in 1 .. Len(s) /\ 2 \in 1 .. Len(s) /\ 1 \in 1 .. Len(s) /\ i # 1 /\ i # 2
  BY <1>2
<1> DEFINE t == Swapped(s, 2, i)
           n == -s[i]
<1>5. /\ t \in Seq(Lit) /\ Len(t) = Len(s) /\ t[2] = s[i] /\ t[1] = s[1]
      /\ s[i] \in Lit /\ n \in Lit /\ n \in Int /\ s[i] \in Int /\ s[1] \in Int /\ pl \in Int
  <2>1. t \in Seq(Lit) /\ Len(t) = Len(s) /\ t[2] = s[i] /\ t[1] = s[1]
    <3>1. /\ Swapped(s, 2, i) \in Seq(Lit) /\ Len(Swapped(s, 2, i)) = Len(s)
          /\ Swapped(s, 2, i)[2] = s[i]
      BY <1>2, <1>4, SwappedFacts
    <3>2. \A k \in 1 .. Len(s) : k # 2 /\ k # i => Swapped(s, 2, i)[k] = s[k]
      BY <1>2, <1>4, SwappedFacts
    <3> QED BY <1>4, <3>1, <3>2
  <2>2. s[i] \in Lit
    BY <1>2, <1>4
  <2> QED BY <1>1, <1>2, <2>1, <2>2, LitFacts
<1>6. watch \in [Lit -> [Watcher -> Nat]]
  BY DEF DbPart, ImplTypeOK
<1> HIDE DEF t, n
<1>7. watch' = Moved(c, n)
  BY <1>3 DEF n
<1>8. /\ watch' \in [Lit -> [Watcher -> Nat]]
      /\ \A l \in Lit : watch'[l][c] = watch[l][c] - (IF l = pl THEN 1 ELSE 0) + (IF l = n THEN 1 ELSE 0)
      /\ \A l \in Lit, u \in Watcher : u # c => watch'[l][u] = watch[l][u]
  <2> DEFINE f == [watch EXCEPT ![pl][c] = @ - 1]
  <2>1. /\ f \in [Lit -> [Watcher -> Nat]]
        /\ \A l \in Lit : f[l][c] = watch[l][c] - (IF l = pl THEN 1 ELSE 0)
        /\ \A l \in Lit, u \in Watcher : u # c => f[l][u] = watch[l][u]
    <3>1. watch[pl][c] - 1 \in Nat
      BY <1>1
    <3>2. [watch[pl] EXCEPT ![c] = @ - 1] \in [Watcher -> Nat]
      BY <1>0, <1>1, <1>6, <3>1
    <3>3. f = [watch EXCEPT ![pl] = [watch[pl] EXCEPT ![c] = @ - 1]]
      BY <1>0, <1>1, <1>6
    <3> QED BY <1>0, <1>1, <1>6, <3>2, <3>3
  <2> HIDE DEF f
  <2>2. watch' = [f EXCEPT ![n][c] = @ + 1]
    BY <1>7 DEF f, Moved
  <2>3. [f[n] EXCEPT ![c] = @ + 1] \in [Watcher -> Nat]
    BY <1>0, <1>5, <2>1
  <2>4. watch' = [f EXCEPT ![n] = [f[n] EXCEPT ![c] = @ + 1]]
    BY <1>0, <1>5, <2>1, <2>2
  <2>5. watch' \in [Lit -> [Watcher -> Nat]]
    BY <1>5, <2>1, <2>3, <2>4
  <2>6. ASSUME NEW l \in Lit
        PROVE  watch'[l][c] = watch[l][c] - (IF l = pl THEN 1 ELSE 0) + (IF l = n THEN 1 ELSE 0)
    <3>1. f[l] \in [Watcher -> Nat] /\ f[l][c] \in Nat
      BY <1>0, <2>1
    <3>2. watch'[l] = IF l = n THEN [f[n] EXCEPT ![c] = @ + 1] ELSE f[l]
      BY <1>5, <2>1, <2>4
    <3>3. watch'[l][c] = IF l = n THEN f[l][c] + 1 ELSE f[l][c]
      BY <1>0, <3>1, <3>2
    <3>4. f[l][c] = watch[l][c] - (IF l = pl THEN 1 ELSE 0)
      BY <2>1
    <3> QED BY <3>1, <3>3, <3>4
  <2>7. ASSUME NEW l \in Lit, NEW u \in Watcher, u # c
        PROVE  watch'[l][u] = watch[l][u]
    <3>1. f[l] \in [Watcher -> Nat] /\ f[l][u] = watch[l][u]
      BY <2>1, <2>7
    <3>2. watch'[l] = IF l = n THEN [f[n] EXCEPT ![c] = @ + 1] ELSE f[l]
      BY <1>5, <2>1, <2>4
    <3> QED BY <1>0, <2>7, <3>1, <3>2
  <2> QED BY <2>5, <2>6, <2>7
<1>9. ASSUME NEW l \in Lit
      PROVE  watch'[l][c] = Occurrences(l = -t[1], l = -t[2])
  <2>1. watch[l][c] = Occurrences(l = -s[1], l = pl) /\ -t[1] = -s[1] /\ -t[2] = n
    BY <1>1, <1>2, <1>5, LitFacts DEF n
  <2>2. watch'[l][c] = watch[l][c] - (IF l = pl THEN 1 ELSE 0) + (IF l = n THEN 1 ELSE 0)
    BY <1>8
  <2> QED BY <2>1, <2>2 DEF Occurrences
<1>10. pl' = pl /\ todo' \in [Watcher -> Nat]
       /\ \A u \in Watcher : todo'[u] = IF u = c THEN todo[u] - 1 ELSE todo[u]
  BY <1>0, <1>1, TakeKeepsTypes
<1>11. ListPart'
  <2>1. ASSUME NEW u \in Watcher
        PROVE  todo'[u] <= watch'[pl][u]
    <3>1. todo[u] \in Nat /\ watch[pl][u] \in Nat /\ todo[u] <= watch[pl][u]
      BY <1>1, <1>6 DEF DbPart, ImplTypeOK, ListPart
    <3>2. CASE u = c
      <4>1. todo'[c] = todo[c] - 1
        BY <1>0, <1>10
      <4>2. watch'[pl][c] = watch[pl][c] - 1 + (IF pl = n THEN 1 ELSE 0)
        BY <1>1, <1>8
      <4> QED BY <3>1, <3>2, <4>1, <4>2
    <3>3. CASE u # c
      BY <3>1, <3>3, <1>1, <1>8, <1>10
    <3> QED BY <3>2, <3>3
  <2> QED BY <2>1, <1>1, <1>10 DEF ListPart
<1>12. DbPart'
  <2>1. lits' = [lits EXCEPT ![c] = t] /\ constr' = constr /\ learnts' = learnts
    BY <1>3 DEF t, MoveWatch
  <2>2. \A l \in Lit, d \in ClauseId : d # c => watch'[l][d] = watch[l][d]
    BY <1>8, WatcherKinds
  <2>3. pl' \in Lit \cup {0} /\ Len(t) >= 3
    BY <1>1, <1>2, <1>5, <1>10
  <2> QED BY <1>1, <1>5, <1>8, <1>9, <1>10, <2>1, <2>2, <2>3, RewriteKeepsDb
<1> QED BY <1>11, <1>12

(* A bag of watchers in which no clause has moved.                         *)
LEMMA AttachBinaryKeepsDb ==
  ASSUME DbPart, ListPart, NEW s \in Seq(Lit), Len(s) = 2, AttachBinary(s),
         pl = 0, UNCHANGED implVars
  PROVE  DbPart' /\ ListPart'
<1>1. s[1] \in Lit /\ s[2] \in Lit
  <2>1. 1 \in 1 .. Len(s) /\ 2 \in 1 .. Len(s)
    OBVIOUS
  <2> QED BY <2>1, ElementOfSeq
<1>2. watch' = AddWatchers(-s[1], s[2], -s[2], s[1]) /\ UNCHANGED <<lits, constr, learnts>>
  BY DEF AttachBinary
<1>3. watch \in [Lit -> [Watcher -> Nat]]
  BY DEF DbPart, ImplTypeOK
<1>4. watch' \in [Lit -> [Watcher -> Nat]]
  BY <1>2, <1>3 DEF AddWatchers
<1>5. \A l \in Lit, c \in ClauseId : watch'[l][c] = watch[l][c]
  BY <1>1, <1>2, <1>3, WatcherKinds DEF AddWatchers
<1>6. WatchedTwice' /\ LongClauses'
  BY <1>2, <1>5 DEF DbPart, WatchedTwice, LongClauses, Live, wl0, wl1
<1>7. ImplTypeOK'
  BY <1>2, <1>4 DEF DbPart, ImplTypeOK, implVars
<1> QED BY <1>6, <1>7 DEF DbPart, ListPart, implVars

LEMMA AttachClauseKeepsDb ==
  ASSUME DbPart, ListPart, NEW s \in Seq(Lit), Len(s) >= 3,
         NEW c \in ClauseId, FreshId(c), AttachClause(c, s),
         \/ constr' = constr \cup {c} /\ learnts' = learnts
         \/ constr' = constr /\ learnts' = learnts \cup {c},
         pl = 0, UNCHANGED implVars
  PROVE  DbPart' /\ ListPart'
<1>1. s[1] \in Lit /\ s[2] \in Lit
  <2>1. Len(s) \in Nat
    OBVIOUS
  <2>2. 1 \in 1 .. Len(s) /\ 2 \in 1 .. Len(s)
    BY <2>1
  <2> QED BY <2>2
<1>2. /\ watch' = AddWatchers(-s[1], c, -s[2], c) /\ lits' = [lits EXCEPT ![c] = s]
      /\ Live' = Live \cup {c} /\ c \notin Live
  BY DEF AttachClause, FreshId, Live
<1>3. watch \in [Lit -> [Watcher -> Nat]] /\ lits \in [ClauseId -> Seq(Lit)]
  BY DEF DbPart, ImplTypeOK
<1>4. watch' \in [Lit -> [Watcher -> Nat]] /\ lits' \in [ClauseId -> Seq(Lit)]
  BY <1>2, <1>3 DEF AddWatchers
<1>5. ASSUME NEW l \in Lit, NEW d \in ClauseId
      PROVE  watch'[l][d] = IF d \in Live' THEN Occurrences(l = -lits'[d][1], l = -lits'[d][2]) ELSE 0
  <2>0. d \in Watcher /\ watch[l][d] \in Nat
    BY <1>3, WatcherKinds
  <2>1. watch'[l][d] = watch[l][d] + (IF l = -s[1] /\ d = c THEN 1 ELSE 0)
                                   + (IF l = -s[2] /\ d = c THEN 1 ELSE 0)
    BY <1>2, <2>0 DEF AddWatchers
  <2>2. watch[l][d] = IF d \in Live THEN Occurrences(l = -lits[d][1], l = -lits[d][2]) ELSE 0
    BY DEF DbPart, WatchedTwice, wl0, wl1
  <2>3. CASE d = c
    BY <2>1, <2>2, <2>3, <1>2, <1>3 DEF Occurrences
  <2>4. CASE d # c
    BY <2>0, <2>1, <2>2, <2>4, <1>2, <1>3
  <2> QED BY <2>3, <2>4
<1>6. WatchedTwice'
  BY <1>5 DEF WatchedTwice, wl0, wl1
<1>7. LongClauses'
  BY <1>2, <1>3 DEF DbPart, LongClauses, Live, ImplTypeOK
<1>8. ImplTypeOK'
  BY <1>4 DEF DbPart, ImplTypeOK, implVars
<1> QED BY <1>6, <1>7, <1>8 DEF DbPart, ListPart, implVars

LEMMA DetachKeepsDb ==
  ASSUME DbPart, ListPart, NEW D \in SUBSET Live, NEW both \in BOOLEAN,
         DetachClauses(D, both), pl = 0, UNCHANGED implVars
  PROVE  DbPart' /\ ListPart'
<1>1. /\ lits' = [c \in ClauseId |-> IF c \in D THEN <<>> ELSE lits[c]]
      /\ constr' = constr \ D /\ learnts' = learnts \ D /\ Live' = Live \ D
  BY DEF DetachClauses, Live
<1>2. watch' = [l \in Lit |-> [w \in Watcher |->
        IF \/ w \in D /\ l \in {-wl0(w), -wl1(w)}
           \/ both /\ w \in Lit /\ Eval(l) # 0 /\ Eval(w) = 1
        THEN 0 ELSE watch[l][w]]]
  BY DEF DetachClauses
<1>3. watch \in [Lit -> [Watcher -> Nat]] /\ lits \in [ClauseId -> Seq(Lit)]
  BY DEF DbPart, ImplTypeOK
<1>4. watch' \in [Lit -> [Watcher -> Nat]]
  BY <1>2, <1>3
<1>5. lits' \in [ClauseId -> Seq(Lit)]
  BY <1>1, <1>3
<1>6. ASSUME NEW l \in Lit, NEW c \in ClauseId
      PROVE  watch'[l][c] = IF c \in Live' THEN Occurrences(l = -lits'[c][1], l = -lits'[c][2]) ELSE 0
  <2>1. c \in Watcher /\ c \notin Lit
    BY WatcherKinds
  <2>2. watch[l][c] = IF c \in Live THEN Occurrences(l = -wl0(c), l = -wl1(c)) ELSE 0
    BY DEF DbPart, WatchedTwice
  <2>3. CASE c \in D
    BY <1>1, <1>2, <2>1, <2>2, <2>3 DEF Occurrences
  <2>4. CASE c \notin D
    BY <1>1, <1>2, <2>1, <2>2, <2>4 DEF wl0, wl1
  <2> QED BY <2>3, <2>4
<1>7. WatchedTwice'
  BY <1>6 DEF WatchedTwice, wl0, wl1
<1>8. LongClauses'
  BY <1>1 DEF DbPart, LongClauses, Live, ImplTypeOK
<1>9. ImplTypeOK'
  BY <1>1, <1>4, <1>5 DEF DbPart, ImplTypeOK, implVars
<1> QED BY <1>7, <1>8, <1>9 DEF DbPart, ListPart, implVars

LEMMA UnchangedKeepsDb ==
  ASSUME DbPart, ListPart, UNCHANGED <<dbVars, implVars>>
  PROVE  DbPart' /\ ListPart'
BY DEF DbPart, ListPart, ImplTypeOK, LongClauses, WatchedTwice, dbVars, implVars, Live, wl0, wl1
-----------------------------------------------------------------------------
(***************************************************************************)
(* implication().                                                          *)
(***************************************************************************)
LEMMA ReasonKinds ==
  /\ Lit \subseteq Reason /\ ClauseId \subseteq Reason /\ None \in Reason
  /\ Reason = Lit \cup ClauseId \cup {None}
BY DEF Reason, Watcher

LEMMA NextLiteralKeeps ==
  ASSUME TrailPart, DbPart, ListPart, NextLiteral
  PROVE  TrailPart' /\ DbPart' /\ ListPart' /\ NoneUndone /\ pl' # 0
<1>1. GetNext /\ UNCHANGED dbVars
  BY DEF NextLiteral
<1>2. TrailPart' /\ NoneUndone
  BY <1>1, GetNextKeepsPart DEF GetNext, NoneUndone
<1>3. /\ pl' \in Lit /\ pl' # 0 /\ watch' = watch
      /\ todo' = watch[pl'] /\ todo' \in [Watcher -> Nat]
  BY <1>1, GetNextKeepsPart, LitFacts DEF NextLiteral, DbPart, ImplTypeOK, dbVars
<1>4. ListPart'
  BY <1>3 DEF ListPart
<1>5. DbPart'
  BY <1>1, <1>3 DEF DbPart, ImplTypeOK, LongClauses, WatchedTwice, dbVars, Live, wl0, wl1
<1> QED BY <1>2, <1>3, <1>4, <1>5

LEMMA PropagateKeeps ==
  ASSUME TrailPart, DbPart, ListPart, Propagate
  PROVE  TrailPart' /\ DbPart' /\ ListPart' /\ NoneUndone /\ pl' # 0
<1>1. CASE NextLiteral
  BY <1>1, NextLiteralKeeps
<1>2. ASSUME NEW w \in Watcher, todo[w] > 0
      PROVE  pl \in Lit /\ pl # 0 /\ -pl \in Reason
  BY <1>2, TakenFacts, LitFacts, ReasonKinds
<1>3. ASSUME NEW w \in Lit, todo[w] > 0, SkipBinary(w)
      PROVE  TrailPart' /\ DbPart' /\ ListPart' /\ NoneUndone /\ pl' # 0
  <2>1. w \in Watcher /\ Take(w) /\ UNCHANGED <<trailVars, dbVars>>
    BY <1>3, WatcherKinds DEF SkipBinary
  <2>2. TrailPart' /\ NoneUndone
    BY <2>1 DEF TrailPart, TrailTypeOK, MarkersSorted, NoneUndone, trailVars
  <2> QED BY <2>1, <2>2, <1>2, <1>3, TakeKeepsDb DEF dbVars, Take
<1>4. ASSUME NEW w \in Lit, todo[w] > 0, ImplyBinary(w)
      PROVE  TrailPart' /\ DbPart' /\ ListPart' /\ NoneUndone /\ pl' # 0
  <2>1. w \in Watcher /\ Take(w) /\ Assign(w, -pl) /\ UNCHANGED dbVars
    BY <1>4, WatcherKinds DEF ImplyBinary
  <2>2. TrailPart' /\ NoneUndone
    BY <2>1, <1>2, <1>4, AssignKeepsPart
  <2> QED BY <2>1, <2>2, <1>2, <1>4, TakeKeepsDb DEF dbVars, Take
<1>5. ASSUME NEW c \in ClauseId, todo[c] > 0, SkipClause(c)
      PROVE  TrailPart' /\ DbPart' /\ ListPart' /\ NoneUndone /\ pl' # 0
  <2>1. /\ c \in Watcher /\ Take(c) /\ UNCHANGED <<trailVars, constr, learnts, watch>>
        /\ lits' = [lits EXCEPT ![c] = Oriented(c)]
    BY <1>5, WatcherKinds DEF SkipClause
  <2>2. TrailPart' /\ NoneUndone
    BY <2>1 DEF TrailPart, TrailTypeOK, MarkersSorted, NoneUndone, trailVars
  <2> QED BY <2>1, <2>2, <1>2, <1>5, TakeKeepsDb DEF Take
<1>6. ASSUME NEW c \in ClauseId, todo[c] > 0, MoveWatch(c)
      PROVE  TrailPart' /\ DbPart' /\ ListPart' /\ NoneUndone /\ pl' # 0
  <2>1. c \in Watcher /\ UNCHANGED trailVars /\ Take(c)
    BY WatcherKinds, <1>6 DEF MoveWatch, trailVars
  <2>2. TrailPart' /\ NoneUndone
    BY <2>1 DEF TrailPart, TrailTypeOK, MarkersSorted, NoneUndone, trailVars
  <2> QED BY <2>1, <2>2, <1>2, <1>6, MoveWatchKeepsDb DEF Take
<1>7. ASSUME NEW c \in ClauseId, todo[c] > 0, ImplyClause(c)
      PROVE  TrailPart' /\ DbPart' /\ ListPart' /\ NoneUndone /\ pl' # 0
  <2>1. /\ c \in Watcher /\ Take(c) /\ UNCHANGED <<constr, learnts, watch>>
        /\ lits' = [lits EXCEPT ![c] = Oriented(c)]
        /\ Assign(Oriented(c)[1], c)
    BY <1>7, WatcherKinds DEF ImplyClause
  <2>2. Oriented(c)[1] \in Lit /\ c \in Reason
    BY <2>1, <1>2, <1>7, TakenFacts, OrientedFacts, ReasonKinds
  <2>3. TrailPart' /\ NoneUndone
    BY <2>1, <2>2, AssignKeepsPart
  <2> QED BY <2>1, <2>3, <1>2, <1>7, TakeKeepsDb DEF Take
<1>8. ASSUME NEW w \in Watcher
      PROVE  w \in Lit \/ w \in ClauseId
  BY DEF Watcher
<1> QED BY <1>1, <1>3, <1>4, <1>5, <1>6, <1>7, <1>8 DEF Propagate

LEMMA ConflictKeeps ==
  ASSUME TrailPart, DbPart, ListPart, NEW w \in Watcher, Conflict(w)
  PROVE  TrailPart' /\ DbPart' /\ ListPart' /\ NoneUndone /\ pl' = 0
<1>1. /\ UNCHANGED <<trailVars, constr, learnts, watch>>
      /\ pl' = 0 /\ todo' = NoWatcher /\ todo[w] > 0
      /\ lits' = IF w \in Lit THEN lits ELSE [lits EXCEPT ![w] = Oriented(w)]
  BY DEF Conflict, ConflictAt
<1>2. TrailPart' /\ NoneUndone
  BY <1>1 DEF TrailPart, TrailTypeOK, MarkersSorted, NoneUndone, trailVars
<1>3. ListPart' /\ todo' \in [Watcher -> Nat]
  BY <1>1 DEF ListPart, NoWatcher
<1>4. CASE w \in Lit
  <2>1. UNCHANGED dbVars /\ pl' \in Lit \cup {0}
    BY <1>1, <1>4 DEF dbVars
  <2>2. ImplTypeOK'
    BY <1>3, <2>1 DEF DbPart, ImplTypeOK, dbVars
  <2>3. LongClauses' /\ WatchedTwice'
    BY <2>1 DEF DbPart, LongClauses, WatchedTwice, dbVars, Live, wl0, wl1
  <2> QED BY <1>1, <1>2, <1>3, <2>2, <2>3 DEF DbPart
<1>5. CASE w \notin Lit
  <2>1. w \in ClauseId /\ w \in Live /\ pl \in Lit /\ (pl = -wl0(w) \/ pl = -wl1(w))
    BY <1>1, <1>5, TakenFacts DEF Watcher
  <2> DEFINE s == Oriented(w)
  <2>2. /\ s \in Seq(Lit) /\ Len(s) >= 3
        /\ \A l \in Lit : Occurrences(l = -s[1], l = -s[2]) = watch[l][w]
    BY <2>1, OrientedFacts, ClauseFacts DEF DbPart, WatchedTwice
  <2> HIDE DEF s
  <2>3. watch \in [Lit -> [Watcher -> Nat]]
    BY DEF DbPart, ImplTypeOK
  <2>4. /\ lits' = [lits EXCEPT ![w] = s]
        /\ \A l \in Lit : watch'[l][w] = Occurrences(l = -s[1], l = -s[2])
        /\ \A l \in Lit, d \in ClauseId : d # w => watch'[l][d] = watch[l][d]
        /\ watch' \in [Lit -> [Watcher -> Nat]] /\ pl' \in Lit \cup {0}
        /\ constr' = constr /\ learnts' = learnts
    BY <1>1, <1>5, <2>2, <2>3 DEF s
  <2>5. DbPart'
    BY <1>3, <2>1, <2>2, <2>4, RewriteKeepsDb
  <2> QED BY <1>1, <1>2, <1>3, <2>5
<1> QED BY <1>4, <1>5
-----------------------------------------------------------------------------
(***************************************************************************)
(* Steps that leave a part of the state alone, or change it in one of the  *)
(* few ways there are.                                                     *)
(***************************************************************************)
LEMMA TrailSteady ==
  ASSUME TrailPart, UNCHANGED trailVars
  PROVE  TrailPart' /\ NoneUndone /\ Len(trail') \in Nat
BY DEF TrailPart, TrailTypeOK, MarkersSorted, NoneUndone, trailVars

LEMMA AnaSteady ==
  ASSUME AnaPart, UNCHANGED anaVars, last = 0, Len(trail') \in Nat, pc' # "minimize"
  PROVE  AnaPart'
BY DEF AnaPart, AnaTypeOK, Analysing, anaVars, captureVars

LEMMA SelSteady ==
  ASSUME SelPart, UNCHANGED <<varVars, selVars>>, NoneUndone
  PROVE  SelPart'
BY ClientAssumption DEF SelPart, HeapCovers, varVars, selVars, NoneUndone

LEMMA SelAlloc ==
  ASSUME SelPart, AllocVar, prev' = prev, NoneUndone
  PROVE  SelPart'
<1>1. /\ varNum' = varNum /\ oldVarNum' = varNum
      /\ heap' = heap \cup (DecVar \cap (oldVarNum + 1 .. varNum))
      /\ varNum \in Nat /\ oldVarNum \in Nat
  BY SizeAssumption DEF AllocVar, SelPart
<1>2. ASSUME NEW v \in DecVar, v <= oldVarNum', val'[v] = 0
      PROVE  v \in heap'
  <2>1. v \in Var /\ v \in Int /\ val[v] = 0
    BY <1>2, ClientAssumption DEF Var, NoneUndone
  <2>2. CASE v <= oldVarNum
    BY <1>1, <2>1, <2>2 DEF SelPart, HeapCovers
  <2>3. CASE ~(v <= oldVarNum)
    BY <1>1, <1>2, <2>1, <2>3
  <2> QED BY <2>2, <2>3
<1>3. HeapCovers'
  BY <1>2 DEF HeapCovers
<1> QED BY <1>1, <1>3 DEF SelPart

LEMMA SelBacktrack ==
  ASSUME SelPart, TrailPart, NEW k \in Nat, BacktrackTo(k), UNCHANGED varVars
  PROVE  TrailPart' /\ SelPart' /\ Len(trail') \in Nat
<1> DEFINE undone == IF k < DecisionLevel THEN Undone(k) ELSE {}
<1>1. /\ TrailPart' /\ undone \in SUBSET Var
      /\ \A v \in Var : val'[v] = IF v \in undone THEN 0 ELSE val[v]
  BY BacktrackKeepsPart DEF BacktrackTo
<1>2. /\ heap' = heap \cup (undone \cap DecVar)
      /\ prev' = [v \in Var |-> IF PhaseCache /\ v \in undone THEN val[v] ELSE prev[v]]
      /\ varNum' = varNum /\ oldVarNum' = oldVarNum
  BY DEF BacktrackTo, varVars
<1> HIDE DEF undone
<1>3. prev' \in [Var -> Bool3]
  BY <1>2 DEF TrailPart, TrailTypeOK, SelPart
<1>4. ASSUME NEW v \in DecVar, v <= oldVarNum', val'[v] = 0
      PROVE  v \in heap'
  <2>1. v \in Var
    BY ClientAssumption
  <2> QED BY <1>1, <1>2, <1>4, <2>1 DEF SelPart, HeapCovers
<1>5. HeapCovers'
  BY <1>4 DEF HeapCovers
<1>6. Len(trail') \in Nat
  BY <1>1 DEF TrailPart, TrailTypeOK
<1> QED BY <1>1, <1>2, <1>3, <1>5, <1>6 DEF SelPart

(* Outside implication() no list is being read, and outside the analysis   *)
(* there is no position in the trail.                                      *)
LEMMA PlaceFacts ==
  ASSUME CoreInv
  PROVE  /\ pc # "imply" => pl = 0
         /\ pc \notin {"capture", "minimize", "error"} => last = 0
BY DEF CoreInv, Reading, AnaPart, Analysing
-----------------------------------------------------------------------------
(***************************************************************************)
(* What the analysis and the client hand over.                             *)
(***************************************************************************)
LEMMA AntecedentsAreLits ==
  ASSUME DbPart, NEW r \in Reason, r # None
  PROVE  Antecedents(r) \in SUBSET Lit
<1>1. CASE r \in Lit
  BY <1>1 DEF Antecedents
<1>2. CASE r \notin Lit
  <2>1. lits[r] \in Seq(Lit)
    BY <1>2, ReasonKinds DEF DbPart, ImplTypeOK
  <2> QED BY <1>2, <2>1, ElemsOfSeq DEF Antecedents
<1> QED BY <1>1, <1>2

LEMMA CaptureTypes ==
  ASSUME TrailPart, AnaPart, NEW i \in 1 .. last, CaptureAt(i)
  PROVE  /\ mark' \subseteq Var /\ lower' \subseteq Lit /\ uip' \in Lit
         /\ count' \in Int /\ last' = i /\ i \in 1 .. Len(trail)
         /\ learnt' = learnt
         /\ trail[i] \in Lit
<1>1. i \in 1 .. Len(trail) /\ trail[i] \in Lit /\ -trail[i] \in Lit
  <2>1. last \in Nat /\ Len(trail) \in Nat /\ last <= Len(trail)
    BY DEF AnaPart, AnaTypeOK, Analysing, TrailPart, TrailTypeOK
  <2>2. i \in 1 .. Len(trail)
    BY <2>1
  <2> QED BY <2>2, ElementOfSeq, LitFacts DEF TrailPart, TrailTypeOK
<1>2. NewLits \in SUBSET Lit /\ NewLower \in SUBSET Lit
  BY DEF NewLits, NewLower, AnaPart, AnaTypeOK
<1>3. Vars(NewLits) \in SUBSET Var /\ Vars(NewLits \ NewLower) \in SUBSET Var
  BY <1>2, VarsOfLits
<1>4. NewCount \in Int
  <2>1. Cardinality(Vars(NewLits \ NewLower)) \in Nat
    BY <1>3, LitsFinite
  <2> QED BY <2>1 DEF NewCount, AnaPart, AnaTypeOK
<1>5. Marked \in SUBSET Var
  BY <1>3 DEF Marked, AnaPart, AnaTypeOK
<1>6. /\ mark' = Marked \ {VarOf(trail[i])} /\ lower' = lower \cup NewLower
      /\ uip' = -trail[i] /\ count' = NewCount - 1 /\ last' = i /\ learnt' = learnt
  BY DEF CaptureAt
<1> QED BY <1>1, <1>2, <1>4, <1>5, <1>6 DEF AnaPart, AnaTypeOK

LEMMA LearntOrdersAreSeqs ==
  ASSUME TrailPart, AnaPart, uip \in Lit, NEW s \in LearntOrders
  PROVE  s \in Seq(Lit) /\ BackjumpLevel(s) \in Nat
<1>1. Minimal \in SUBSET Lit
  BY DEF Minimal, AnaPart, AnaTypeOK
<1>2. Cardinality(Minimal) \in Nat
  BY <1>1, LitsFinite
<1>3. PICK t \in [1 .. Cardinality(Minimal) -> Minimal] : s = [i \in DOMAIN t |-> Written(t[i])]
  BY DEF LearntOrders
<1>4. s \in Seq(Lit)
  <2>1. ASSUME NEW q \in Lit PROVE Written(q) \in Lit
    BY DEF Written
  <2>2. s \in [1 .. Cardinality(Minimal) -> Lit]
    BY <1>1, <1>3, <2>1, Zenon
  <2> QED BY <1>2, <2>2
<1>5. CASE Len(s) < 2
  BY <1>4, <1>5 DEF BackjumpLevel
<1>6. CASE ~(Len(s) < 2)
  <2>1. Len(s) \in Nat
    BY <1>4
  <2>2. 2 \in 1 .. Len(s)
    BY <1>6, <2>1
  <2>3. s[2] \in Lit
    BY <1>4, <2>2, ElementOfSeq
  <2>4. LevelOf(s[2]) \in Nat
    BY <2>3, LitFacts DEF LevelOf, TrailPart, TrailTypeOK
  <2> QED BY <1>4, <1>6, <2>4 DEF BackjumpLevel
<1> QED BY <1>4, <1>5, <1>6

(* add_clause() keeps literals of the clause it is given.                  *)
LEMMA CompactedAreSeqs ==
  ASSUME NEW s0 \in Seq(Lit), NEW s \in Compacted(s0)
  PROVE  s \in Seq(Lit)
<1> DEFINE kept == {i \in DOMAIN s0 : Eval(s0[i]) # -1}
           n == Cardinality(kept)
<1>1. kept \subseteq 1 .. Len(s0) /\ Len(s0) \in Nat
  OBVIOUS
<1>2. n \in Nat
  <2>1. IsFiniteSet(1 .. Len(s0))
    BY <1>1, FS_Interval
  <2> QED BY <1>1, <2>1, FS_Subset, FS_CardinalityType
<1>3. PICK f \in [1 .. n -> kept] : s = [k \in 1 .. n |-> s0[f[k]]]
  BY DEF Compacted
<1> HIDE DEF kept, n
<1>4. ASSUME NEW k \in 1 .. n
      PROVE  s0[f[k]] \in Lit
  <2>1. f[k] \in 1 .. Len(s0)
    BY <1>1, <1>3
  <2> QED BY <2>1, ElementOfSeq
<1> QED BY <1>2, <1>3, <1>4
-----------------------------------------------------------------------------
(***************************************************************************)
(* The steps of the engine, one lemma for each.                            *)
(***************************************************************************)

(* A step that only moves on in the code.                                  *)
LEMMA QuietStep ==
  ASSUME CoreInv, UNCHANGED <<trailVars, dbVars, implVars, anaVars>>,
         pl = 0, last = 0, pc' # "minimize"
  PROVE  TrailPart' /\ DbPart' /\ ListPart' /\ Reading' /\ AnaPart' /\ NoneUndone
<1>1. TrailPart' /\ NoneUndone /\ Len(trail') \in Nat
  BY TrailSteady DEF CoreInv
<1>2. DbPart' /\ ListPart'
  BY UnchangedKeepsDb DEF CoreInv
<1>3. AnaPart'
  BY <1>1, AnaSteady DEF CoreInv
<1>4. Reading'
  BY DEF Reading, implVars
<1> QED BY <1>1, <1>2, <1>3, <1>4

LEMMA InitOK == Init => CoreInv
<1> SUFFICES ASSUME Init PROVE CoreInv
  OBVIOUS
<1>1. TrailPart
  BY SizeAssumption
     DEF Init, TrailInit, TrailPart, TrailTypeOK, MarkersSorted, Bool3, Reason
<1>2. DbPart /\ ListPart /\ Reading
  BY SizeAssumption
     DEF Init, ImplInit, DbPart, ImplTypeOK, LongClauses, WatchedTwice, ListPart, Reading,
         NoWatcher, Live, ClauseId, Watcher
<1>3. AnaPart
  BY <1>1 DEF Init, AnaInit, AnaPart, AnaTypeOK, Analysing, TrailPart, TrailTypeOK
<1>4. SelPart
  BY SizeAssumption, ClientAssumption
     DEF Init, TrailInit, SelPart, HeapCovers, Bool3, Var
<1>5. sane \in BOOLEAN /\ goOn \in BOOLEAN /\ stopped \in BOOLEAN
  BY Zenon DEF Init
<1>6. CtlPart
  BY <1>5 DEF Init, CtlPart, Places
<1>7. Len(Menu) \in Nat /\ assumps \in Seq(Lit)
  BY ClientAssumption DEF Init
<1>8. QueryPart
  BY <1>5, <1>7 DEF Init, QueryPart
<1> QED BY <1>1, <1>2, <1>3, <1>4, <1>6, <1>8 DEF CoreInv

LEMMA NewVariableKeeps == ASSUME CoreInv, NewVariable PROVE CoreInv'
<1>1. pl = 0 /\ last = 0 /\ pc' = pc /\ pc = "idle"
  BY PlaceFacts DEF NewVariable, ctlVars
<1>2. TrailPart' /\ DbPart' /\ ListPart' /\ Reading' /\ AnaPart' /\ NoneUndone
  BY <1>1, QuietStep DEF NewVariable
<1>3. SelPart'
  BY <1>2, SizeAssumption, ClientAssumption
     DEF NewVariable, CoreInv, SelPart, HeapCovers, NoneUndone, selVars
<1>4. CtlPart' /\ QueryPart'
  BY DEF NewVariable, CoreInv, CtlPart, QueryPart, ctlVars, clientVars, budgetVars, limitVars
<1> QED BY <1>2, <1>3, <1>4 DEF CoreInv

LEMMA SetBudgetKeeps == ASSUME CoreInv, NEW b \in Budgets, SetBudget(b) PROVE CoreInv'
<1>1. pl = 0 /\ last = 0 /\ pc' = pc /\ pc = "idle"
  BY PlaceFacts DEF SetBudget, ctlVars
<1>2. TrailPart' /\ DbPart' /\ ListPart' /\ Reading' /\ AnaPart' /\ NoneUndone
  BY <1>1, QuietStep DEF SetBudget
<1>3. SelPart'
  BY <1>2, SelSteady DEF SetBudget, CoreInv
<1>4. b[1] \in Nat /\ b[2] \in Nat
  <2>1. b \in Nat \X Nat
    BY ParamAssumption
  <2> QED BY <2>1
<1>5. CtlPart' /\ QueryPart'
  BY <1>4 DEF SetBudget, CoreInv, CtlPart, QueryPart, ctlVars, clientVars, answerVars
<1> QED BY <1>2, <1>3, <1>5 DEF CoreInv

LEMMA SolveKeeps == ASSUME CoreInv, NEW A \in Assumptions, Solve(A) PROVE CoreInv'
<1>1. pl = 0 /\ last = 0 /\ pc' = "entry" /\ pc = "idle" /\ cont' = cont
  BY PlaceFacts DEF Solve, GoTo
<1>2. TrailPart' /\ DbPart' /\ ListPart' /\ Reading' /\ AnaPart' /\ NoneUndone
  BY <1>1, QuietStep DEF Solve
<1>3. SelPart'
  BY <1>2, SelAlloc DEF Solve, CoreInv
<1>4. CtlPart'
  BY <1>1 DEF Solve, CoreInv, CtlPart, Places, budgetVars, limitVars
<1>5. A \in Seq(Lit)
  BY ClientAssumption
<1>6. stopped' \in BOOLEAN
  BY Zenon DEF Solve
<1>7. QueryPart'
  BY <1>5, <1>6 DEF Solve, CoreInv, QueryPart
<1> QED BY <1>2, <1>3, <1>4, <1>7 DEF CoreInv

LEMMA StopKeeps == ASSUME CoreInv, Stop PROVE CoreInv'
<1>1. UNCHANGED <<trailVars, dbVars, implVars, anaVars, varVars, selVars, pc, cont>>
  BY DEF Stop, ctlVars
<1>2. TrailPart' /\ NoneUndone /\ DbPart' /\ ListPart'
  BY <1>1, TrailSteady, UnchangedKeepsDb DEF CoreInv
<1>3. SelPart'
  BY <1>1, <1>2, SelSteady DEF CoreInv
<1>4. Reading' /\ AnaPart'
  BY <1>1 DEF CoreInv, Reading, AnaPart, AnaTypeOK, Analysing, implVars, trailVars,
              anaVars, captureVars
<1>5. CtlPart' /\ QueryPart'
  BY <1>1 DEF Stop, CoreInv, CtlPart, QueryPart, budgetVars, limitVars, answerVars
<1> QED BY <1>2, <1>3, <1>4, <1>5 DEF CoreInv

LEMMA SolveInitKeeps == ASSUME CoreInv, SolveInit PROVE CoreInv'
<1>1. pl = 0 /\ last = 0 /\ pc' \in {"imply", "idle"} /\ cont' \in {cont, "init"}
      /\ stat' \in {stat, "unsat"}
  BY PlaceFacts DEF SolveInit, GoTo
<1>2. TrailPart' /\ DbPart' /\ ListPart' /\ Reading' /\ AnaPart' /\ NoneUndone
  BY <1>1, QuietStep DEF SolveInit
<1>3. SelPart'
  BY <1>2, SelSteady DEF SolveInit, CoreInv
<1>4. CtlPart' /\ QueryPart'
  BY <1>1 DEF SolveInit, CoreInv, CtlPart, QueryPart, Places, budgetVars, limitVars, clientVars
<1> QED BY <1>2, <1>3, <1>4 DEF CoreInv

LEMMA PropagateStepKeeps == ASSUME CoreInv, PropagateStep PROVE CoreInv'
<1>1. pc = "imply" /\ pc' = pc /\ cont' = cont /\ last = 0 /\ Propagate
  BY PlaceFacts DEF PropagateStep, ctlVars
<1>2. TrailPart' /\ DbPart' /\ ListPart' /\ NoneUndone
  BY <1>1, PropagateKeeps DEF CoreInv
<1>3. AnaPart' /\ Reading'
  <2>1. Len(trail') \in Nat
    BY <1>2 DEF TrailPart, TrailTypeOK
  <2> QED BY <1>1, <2>1, AnaSteady DEF CoreInv, PropagateStep, Reading
<1>4. SelPart'
  BY <1>2, SelSteady DEF PropagateStep, CoreInv
<1>5. propNum' \in Nat
  BY DEF PropagateStep, CountPropagation, CountUpTo, CoreInv, CtlPart
<1>6. CtlPart' /\ QueryPart'
  BY <1>1, <1>5 DEF PropagateStep, CoreInv, CtlPart, QueryPart, limitVars, answerVars, clientVars
<1> QED BY <1>2, <1>3, <1>4, <1>6 DEF CoreInv

LEMMA ImplicationDoneKeeps == ASSUME CoreInv, ImplicationDone PROVE CoreInv'
<1>1. /\ last = 0 /\ pl' = 0 /\ todo' = NoWatcher /\ UNCHANGED <<trailVars, dbVars, anaVars>>
      /\ pc' \in {"idle", "sweep", "check"} /\ cont' \in {"none", "init"}
  BY PlaceFacts DEF ImplicationDone, EndImplication, Quiescent, ListRead, GoTo
<1>2. TrailPart' /\ NoneUndone /\ Len(trail') \in Nat
  BY <1>1, TrailSteady DEF CoreInv
<1>3. AnaPart'
  BY <1>1, <1>2, AnaSteady DEF CoreInv
<1>4. ListPart' /\ Reading' /\ todo' \in [Watcher -> Nat]
  BY <1>1 DEF ListPart, Reading, NoWatcher
<1>5. DbPart'
  BY <1>1, <1>4 DEF CoreInv, DbPart, ImplTypeOK, LongClauses, WatchedTwice, dbVars, Live, wl0, wl1
<1>6. SelPart'
  BY <1>2, SelSteady DEF ImplicationDone, CoreInv
<1>7. CtlPart' /\ QueryPart'
  BY <1>1 DEF ImplicationDone, CoreInv, CtlPart, QueryPart, Places, budgetVars, limitVars,
              answerVars, clientVars
<1> QED BY <1>2, <1>3, <1>4, <1>5, <1>6, <1>7 DEF CoreInv

LEMMA SkipSweepKeeps == ASSUME CoreInv, SkipSweep PROVE CoreInv'
<1>1. pl = 0 /\ last = 0 /\ pc' \in {"search", "reduce"} /\ cont' = "none"
  BY PlaceFacts DEF SkipSweep, SweepExit, GoTo
<1>2. TrailPart' /\ DbPart' /\ ListPart' /\ Reading' /\ AnaPart' /\ NoneUndone
  BY <1>1, QuietStep DEF SkipSweep
<1>3. SelPart'
  BY <1>2, SelSteady DEF SkipSweep, CoreInv
<1>4. CtlPart' /\ QueryPart'
  BY <1>1 DEF SkipSweep, CoreInv, CtlPart, QueryPart, Places, budgetVars, limitVars,
              answerVars, clientVars
<1> QED BY <1>2, <1>3, <1>4 DEF CoreInv

LEMMA SweepKeeps == ASSUME CoreInv, Sweep PROVE CoreInv'
<1>1. pl = 0 /\ last = 0 /\ pc' \in {"search", "reduce"} /\ cont' = "none"
  BY PlaceFacts DEF Sweep, SweepExit, GoTo
<1>2. TrailPart' /\ NoneUndone /\ Len(trail') \in Nat /\ val' = val
  BY TrailSteady DEF Sweep, CoreInv, trailVars
<1>3. AnaPart'
  BY <1>1, <1>2, AnaSteady DEF CoreInv, Sweep
<1>4. Sweepable \in SUBSET Live /\ TRUE \in BOOLEAN
  BY DEF Sweepable
<1>5. DbPart' /\ ListPart' /\ Reading'
  BY <1>1, <1>4, DetachKeepsDb DEF CoreInv, Sweep, Reading, implVars
<1>6. SelPart'
  <2>1. heap' = {v \in DecVar : v <= varNum /\ val[v] = 0} /\ prev' = prev
        /\ varNum' = varNum /\ oldVarNum' = oldVarNum
    BY DEF Sweep, varVars
  <2>2. varNum \in Nat /\ oldVarNum \in Nat /\ oldVarNum <= varNum
    BY SizeAssumption DEF CoreInv, SelPart
  <2>3. ASSUME NEW v \in DecVar, v <= oldVarNum', val'[v] = 0
        PROVE  v \in heap'
    <3>1. v \in Int
      BY ClientAssumption DEF Var
    <3> QED BY <1>2, <2>1, <2>2, <2>3, <3>1
  <2>4. HeapCovers'
    BY <2>3 DEF HeapCovers
  <2> QED BY <2>1, <2>4 DEF CoreInv, SelPart
<1>7. sweepAssigns' \in Int
  BY DEF Sweep, CoreInv, TrailPart, TrailTypeOK
<1>8. CtlPart' /\ QueryPart'
  BY <1>1, <1>7 DEF Sweep, CoreInv, CtlPart, QueryPart, Places, budgetVars, limitVars,
              answerVars, clientVars
<1> QED BY <1>2, <1>3, <1>5, <1>6, <1>8 DEF CoreInv

LEMMA AddClauseKeeps ==
  ASSUME CoreInv, NEW i \in DOMAIN Menu, AddClause(i)
  PROVE  CoreInv'
<1>1. /\ pl = 0 /\ last = 0 /\ pc' \in {"idle", "imply"} /\ cont' \in {cont, "add"}
      /\ sane' \in {sane, FALSE}
  BY PlaceFacts DEF AddClause, AddTrue, AddEmpty, AddUnit, AddBinary, AddLong, GoTo
<1>2. Menu[i] \in Seq(Lit) /\ Len(Menu) \in Nat /\ i \in 1 .. Len(Menu)
  BY ClientAssumption
<1>3. UNCHANGED implVars /\ UNCHANGED anaVars /\ AllocVar /\ prev' = prev
  BY DEF AddClause
<1>4. TrailPart' /\ NoneUndone /\ DbPart' /\ ListPart'
  <2>1. CASE UNCHANGED <<trailVars, dbVars>>
    BY <1>3, <2>1, TrailSteady, UnchangedKeepsDb DEF CoreInv
  <2>2. ASSUME NEW s \in Seq(Lit), Len(s) = 1, AddUnit(s[1])
        PROVE  TrailPart' /\ NoneUndone /\ DbPart' /\ ListPart'
    <3>1. s[1] \in Lit
      <4>1. 1 \in 1 .. Len(s)
        BY <2>2
      <4> QED BY <4>1, ElementOfSeq
    <3>2. Assign(s[1], None) /\ UNCHANGED dbVars
      BY <2>2 DEF AddUnit
    <3> QED BY <1>3, <3>1, <3>2, ReasonKinds, AssignKeepsPart, UnchangedKeepsDb DEF CoreInv
  <2>3. ASSUME NEW s \in Seq(Lit), Len(s) = 2, AddBinary(s)
        PROVE  TrailPart' /\ NoneUndone /\ DbPart' /\ ListPart'
    <3>1. AttachBinary(s) /\ UNCHANGED trailVars
      BY <2>3 DEF AddBinary
    <3>2. DbPart' /\ ListPart'
      BY <1>1, <1>3, <2>3, <3>1, AttachBinaryKeepsDb DEF CoreInv
    <3> QED BY <3>1, <3>2, TrailSteady DEF CoreInv
  <2>4. ASSUME NEW s \in Seq(Lit), Len(s) >= 3, AddLong(s)
        PROVE  TrailPart' /\ NoneUndone /\ DbPart' /\ ListPart'
    <3>1. PICK c \in ClauseId : FreshId(c) /\ AttachClause(c, s) /\ constr' = constr \cup {c}
      BY <2>4 DEF AddLong
    <3>2. learnts' = learnts /\ UNCHANGED trailVars
      BY <2>4 DEF AddLong
    <3>3. DbPart' /\ ListPart'
      BY <1>1, <1>3, <2>4, <3>1, <3>2, AttachClauseKeepsDb DEF CoreInv
    <3> QED BY <3>2, <3>3, TrailSteady DEF CoreInv
  <2>5. CASE \E l \in Elems(Menu[i]) : Eval(l) = 1
    BY <2>1, <2>5 DEF AddClause, AddTrue
  <2>6. CASE ~\E l \in Elems(Menu[i]) : Eval(l) = 1
    <3>1. PICK s \in Compacted(Menu[i]) :
            CASE Len(s) = 0 -> AddEmpty
              [] Len(s) = 1 -> AddUnit(s[1])
              [] Len(s) = 2 -> AddBinary(s)
              [] OTHER      -> AddLong(s)
      BY <2>6 DEF AddClause
    <3>2. s \in Seq(Lit)
      BY <1>2, CompactedAreSeqs
    <3>3. Len(s) \in Nat
      BY <3>2
    <3>4. CASE Len(s) = 0
      BY <2>1, <3>1, <3>4 DEF AddEmpty
    <3>5. CASE Len(s) = 1
      BY <2>2, <3>1, <3>2, <3>5
    <3>6. CASE Len(s) = 2
      BY <2>3, <3>1, <3>2, <3>6
    <3>7. CASE Len(s) # 0 /\ Len(s) # 1 /\ Len(s) # 2
      <4>1. AddLong(s)
        BY <3>1, <3>7
      <4>2. Len(s) >= 3
        BY <3>3, <3>7, ThreeOrMore
      <4> QED BY <2>4, <3>2, <4>1, <4>2
    <3> QED BY <3>4, <3>5, <3>6, <3>7
  <2> QED BY <2>5, <2>6
<1>5. AnaPart' /\ Reading'
  <2>1. Len(trail') \in Nat
    BY <1>4 DEF TrailPart, TrailTypeOK
  <2> QED BY <1>1, <1>3, <2>1, AnaSteady DEF CoreInv, Reading, implVars
<1>6. SelPart'
  BY <1>3, <1>4, SelAlloc DEF CoreInv
<1>7. CtlPart'
  BY <1>1 DEF AddClause, CoreInv, CtlPart, Places, budgetVars, limitVars
<1>8. QueryPart'
  <2>1. Elems(Menu[i]) \in SUBSET Lit
    BY <1>2, ElemsOfSeq
  <2>2. cnf' = cnf \cup {Elems(Menu[i])} /\ menuPos' = i /\ stat' = "none"
        /\ UNCHANGED <<assumps, finals, conflicts, solves, stopped>>
    BY DEF AddClause
  <2> QED BY <1>2, <2>1, <2>2 DEF CoreInv, QueryPart
<1> QED BY <1>4, <1>5, <1>6, <1>7, <1>8 DEF CoreInv

LEMMA ConflictStepKeeps == ASSUME CoreInv, ConflictStep PROVE CoreInv'
<1>1. PICK w \in Watcher :
        /\ Conflict(w)
        /\ IF cont = "search" /\ DecisionLevel > 0
             THEN StartAnalysis(ConflictLits(w))
             ELSE UNCHANGED anaVars
  BY DEF ConflictStep
<1>2. /\ last = 0 /\ pc' \in {"idle", "error", "stat", "capture"}
      /\ cont' \in {cont, "none"} /\ sane' \in {sane, FALSE} /\ stat' \in {stat, "unsat"}
      /\ cont = "search" /\ DecisionLevel > 0 => pc' = "capture"
  <2>1. last = 0
    BY PlaceFacts DEF ConflictStep
  <2>2. CASE cont = "add"
    <3>1. GoTo("idle", "none") /\ sane' = FALSE /\ UNCHANGED stat
      BY <2>2 DEF ConflictStep
    <3> QED BY <2>1, <2>2, <3>1 DEF GoTo
  <2>3. CASE cont = "init"
    <3>1. Halt /\ UNCHANGED <<sane, stat>>
      BY <2>3 DEF ConflictStep
    <3> QED BY <2>1, <2>3, <3>1 DEF GoTo, Halt
  <2>4. CASE cont = "search" /\ DecisionLevel = 0
    <3>1. GoTo("stat", "none") /\ stat' = "unsat" /\ UNCHANGED sane
      BY <2>4 DEF ConflictStep
    <3> QED BY <2>1, <2>4, <3>1 DEF GoTo
  <2>5. CASE cont # "add" /\ cont # "init" /\ ~(cont = "search" /\ DecisionLevel = 0)
    <3>1. GoTo("capture", "none") /\ UNCHANGED <<sane, stat>>
      BY <2>5 DEF ConflictStep
    <3> QED BY <2>1, <2>5, <3>1 DEF GoTo
  <2> QED BY <2>2, <2>3, <2>4, <2>5
<1>3. TrailPart' /\ DbPart' /\ ListPart' /\ NoneUndone /\ pl' = 0
  BY <1>1, ConflictKeeps DEF CoreInv
<1>4. Reading'
  BY <1>3 DEF Reading
<1>5. Len(trail') \in Nat /\ trail' = trail
  BY <1>1, <1>3 DEF TrailPart, TrailTypeOK, Conflict, trailVars
<1>6. AnaPart'
  <2>1. CASE cont = "search" /\ DecisionLevel > 0
    <3>1. ConflictLits(w) \in SUBSET Lit
      <4>1. CASE w \in Lit
        <5>1. pl \in Lit
          BY <1>1, TakenFacts DEF CoreInv, Conflict, ConflictAt
        <5> QED BY <4>1, <5>1, LitFacts DEF ConflictLits
      <4>2. CASE w \notin Lit
        <5>1. lits[w] \in Seq(Lit)
          BY <4>2 DEF CoreInv, DbPart, ImplTypeOK, Watcher
        <5> QED BY <4>2, <5>1, ElemsOfSeq DEF ConflictLits
      <4> QED BY <4>1, <4>2
    <3> QED BY <1>1, <1>2, <1>5, <2>1, <3>1
            DEF CoreInv, AnaPart, AnaTypeOK, Analysing, StartAnalysis
  <2>2. CASE ~(cont = "search" /\ DecisionLevel > 0)
    BY <1>1, <1>2, <1>5, <2>2, AnaSteady DEF CoreInv
  <2> QED BY <2>1, <2>2
<1>7. SelPart'
  BY <1>3, SelSteady DEF ConflictStep, CoreInv
<1>8. conflictNum' \in Nat /\ quota' \in Nat
  BY DEF ConflictStep, CountConflict, CountUpTo, CoreInv, CtlPart
<1>9. CtlPart' /\ QueryPart'
  <2>1. CtlPart'
    BY <1>2, <1>8 DEF ConflictStep, CoreInv, CtlPart, Places, limitVars, clientVars
  <2>2. QueryPart'
    BY DEF ConflictStep, CoreInv, QueryPart, clientVars
  <2> QED BY <2>1, <2>2
<1> QED BY <1>3, <1>4, <1>6, <1>7, <1>9 DEF CoreInv

LEMMA StartSearchKeeps == ASSUME CoreInv, StartSearch PROVE CoreInv'
<1>1. pl = 0 /\ last = 0 /\ pc' = "imply" /\ cont' = "search"
  BY PlaceFacts DEF StartSearch, GoTo
<1>2. TrailPart' /\ DbPart' /\ ListPart' /\ Reading' /\ AnaPart' /\ NoneUndone
  BY <1>1, QuietStep DEF StartSearch
<1>3. SelPart'
  BY <1>2, SelSteady DEF StartSearch, CoreInv
<1>4. quota' \in Nat
  BY ParamAssumption DEF StartSearch, CoreInv, CtlPart
<1>5. CtlPart' /\ QueryPart'
  BY <1>1, <1>4 DEF StartSearch, CoreInv, CtlPart, QueryPart, Places, budgetVars, limitVars,
              answerVars, clientVars
<1> QED BY <1>2, <1>3, <1>5 DEF CoreInv

LEMMA CaptureKeeps == ASSUME CoreInv, Capture PROVE CoreInv'
<1>1. /\ pl = 0 /\ pc = "capture" /\ cont' = cont
      /\ pc' \in {"error", "capture", "minimize"}
  BY PlaceFacts DEF Capture, GoTo, Halt
<1>2. TrailPart' /\ NoneUndone /\ trail' = trail
  BY TrailSteady DEF Capture, CoreInv, trailVars
<1>3. DbPart' /\ ListPart' /\ Reading'
  BY <1>1, UnchangedKeepsDb DEF Capture, CoreInv, Reading, implVars
<1>4. AnaPart'
  <2>1. CASE CaptureFails
    BY <1>1, <1>2, <2>1
       DEF Capture, Halt, GoTo, CoreInv, AnaPart, AnaTypeOK, Analysing, anaVars, captureVars
  <2>2. CASE ~CaptureFails
    <3>1. PICK i \in 1 .. last :
            \/ ResolveAt(i) /\ GoTo("capture", cont)
            \/ FoundUIP(i) /\ GoTo("minimize", cont)
      BY <2>2 DEF Capture
    <3>2. CaptureAt(i)
      BY <3>1 DEF ResolveAt, FoundUIP
    <3>3. /\ mark' \subseteq Var /\ lower' \subseteq Lit /\ uip' \in Lit
          /\ count' \in Int /\ last' = i /\ i \in 1 .. Len(trail)
          /\ learnt' = learnt /\ trail[i] \in Lit
      BY <3>2, CaptureTypes DEF CoreInv
    <3>4. resolving' \subseteq Lit
      <4>1. CASE ResolveAt(i)
        <5>1. VarOf(trail[i]) \in Var
          BY <3>3, LitFacts
        <5>2. reason[VarOf(trail[i])] \in Reason /\ reason[VarOf(trail[i])] # None
          BY <4>1, <5>1 DEF ResolveAt, CoreInv, TrailPart, TrailTypeOK
        <5> QED BY <4>1, <5>2, AntecedentsAreLits DEF ResolveAt, CoreInv
      <4>2. CASE FoundUIP(i)
        BY <4>2 DEF FoundUIP
      <4> QED BY <3>1, <4>1, <4>2
    <3>5. pc' \in {"capture", "minimize"}
      BY <3>1 DEF GoTo
    <3>6. AnaTypeOK'
      <4>1. analyzer' = analyzer
        BY <3>2, Zenon DEF CaptureAt
      <4> QED BY <3>3, <3>4, <4>1 DEF AnaTypeOK, CoreInv, AnaPart
    <3>7. Analysing'
      <4>1. Len(trail) \in Nat
        BY DEF CoreInv, TrailPart, TrailTypeOK
      <4> QED BY <1>2, <3>3, <3>5, <4>1 DEF Analysing
    <3> QED BY <3>6, <3>7 DEF AnaPart
  <2> QED BY <2>1, <2>2
<1>5. SelPart'
  BY <1>2, SelSteady DEF Capture, CoreInv
<1>6. CtlPart' /\ QueryPart'
  BY <1>1 DEF Capture, CoreInv, CtlPart, QueryPart, Places, budgetVars, limitVars,
              answerVars, clientVars
<1> QED BY <1>2, <1>3, <1>4, <1>5, <1>6 DEF CoreInv

LEMMA BackjumpKeeps == ASSUME CoreInv, Backjump PROVE CoreInv'
<1>1. pl = 0 /\ pc = "minimize" /\ pc' = "learn" /\ cont' = cont
  BY PlaceFacts DEF Backjump, GoTo
<1>2. PICK s \in LearntOrders : learnt' = s /\ BacktrackTo(BackjumpLevel(s))
  BY DEF Backjump
<1>3. s \in Seq(Lit) /\ BackjumpLevel(s) \in Nat
  BY <1>1, LearntOrdersAreSeqs DEF CoreInv, AnaPart, Analysing
<1>4. TrailPart' /\ SelPart' /\ Len(trail') \in Nat
  BY <1>2, <1>3, SelBacktrack DEF CoreInv, Backjump
<1>5. DbPart' /\ ListPart' /\ Reading'
  BY <1>1, UnchangedKeepsDb DEF Backjump, CoreInv, Reading, implVars
<1>6. AnaPart'
  BY <1>1, <1>2, <1>3, <1>4 DEF Backjump, EndAnalysis, CoreInv, AnaPart, AnaTypeOK, Analysing
<1>7. CtlPart' /\ QueryPart'
  BY <1>1 DEF Backjump, CoreInv, CtlPart, QueryPart, Places, budgetVars, limitVars,
              answerVars, clientVars
<1> QED BY <1>4, <1>5, <1>6, <1>7 DEF CoreInv

LEMMA LearnKeeps == ASSUME CoreInv, Learn PROVE CoreInv'
<1>1. /\ pl = 0 /\ last = 0 /\ pc' \in {"error", "imply"} /\ cont' \in {cont, "search"}
      /\ learnt \in Seq(Lit) /\ UNCHANGED implVars
  BY PlaceFacts DEF Learn, GoTo, Halt, CoreInv, AnaPart, AnaTypeOK
<1>2. Len(learnt) \in Nat
  BY <1>1
<1>3. TrailPart' /\ NoneUndone /\ DbPart' /\ ListPart'
  <2>1. CASE UNCHANGED <<trailVars, dbVars>>
    BY <1>1, <2>1, TrailSteady, UnchangedKeepsDb DEF CoreInv
  <2>2. ASSUME Len(learnt) = 1, LearnUnit(learnt[1])
        PROVE  TrailPart' /\ NoneUndone /\ DbPart' /\ ListPart'
    <3>1. learnt[1] \in Lit
      <4>1. 1 \in 1 .. Len(learnt)
        BY <2>2
      <4> QED BY <1>1, <4>1, ElementOfSeq
    <3>2. UNCHANGED dbVars
      BY <2>2 DEF LearnUnit
    <3>3. CASE Assign(learnt[1], None)
      BY <1>1, <3>1, <3>2, <3>3, ReasonKinds, AssignKeepsPart, UnchangedKeepsDb DEF CoreInv
    <3>4. CASE UNCHANGED trailVars
      BY <2>1, <3>2, <3>4
    <3> QED BY <2>2, <3>3, <3>4 DEF LearnUnit
  <2>3. ASSUME Len(learnt) = 2, LearnBinary(learnt)
        PROVE  TrailPart' /\ NoneUndone /\ DbPart' /\ ListPart'
    <3>1. learnt[1] \in Lit /\ learnt[2] \in Lit
      <4>1. 1 \in 1 .. Len(learnt) /\ 2 \in 1 .. Len(learnt)
        BY <2>3
      <4> QED BY <1>1, <4>1, ElementOfSeq
    <3>2. AttachBinary(learnt) /\ Assign(learnt[1], learnt[2])
      BY <2>3 DEF LearnBinary
    <3>3. DbPart' /\ ListPart'
      BY <1>1, <2>3, <3>2, AttachBinaryKeepsDb DEF CoreInv
    <3> QED BY <3>1, <3>2, <3>3, ReasonKinds, AssignKeepsPart DEF CoreInv
  <2>4. ASSUME Len(learnt) >= 3, LearnLong(learnt)
        PROVE  TrailPart' /\ NoneUndone /\ DbPart' /\ ListPart'
    <3>1. PICK c \in ClauseId :
            /\ FreshId(c) /\ AttachClause(c, learnt)
            /\ learnts' = learnts \cup {c}
            /\ Assign(learnt[1], c)
            /\ UNCHANGED constr
      BY <2>4 DEF LearnLong
    <3>2. DbPart' /\ ListPart'
      BY <1>1, <2>4, <3>1, AttachClauseKeepsDb DEF CoreInv
    <3>3. learnt[1] \in Lit
      <4>1. 1 \in 1 .. Len(learnt)
        BY <1>2, <2>4
      <4> QED BY <1>1, <4>1, ElementOfSeq
    <3> QED BY <3>1, <3>2, <3>3, ReasonKinds, AssignKeepsPart DEF CoreInv
  <2>5. CASE learnt = <<>> \/ Eval(learnt[1]) = -1
    BY <2>1, <2>5 DEF Learn
  <2>6. CASE ~(learnt = <<>> \/ Eval(learnt[1]) = -1)
    <3>1. CASE Len(learnt) = 1
      BY <2>2, <2>6, <3>1 DEF Learn
    <3>2. CASE Len(learnt) = 2
      BY <2>3, <2>6, <3>2 DEF Learn
    <3>3. CASE Len(learnt) # 1 /\ Len(learnt) # 2
      <4>1. LearnLong(learnt)
        BY <2>6, <3>3 DEF Learn
      <4>2. Len(learnt) >= 3
        <5>1. Len(learnt) # 0
          BY <1>1, <2>6
        <5> QED BY <1>2, <3>3, <5>1, ThreeOrMore
      <4> QED BY <2>4, <4>1, <4>2
    <3> QED BY <3>1, <3>2, <3>3
  <2> QED BY <2>5, <2>6
<1>4. Reading'
  BY <1>1 DEF Reading, implVars
<1>5. AnaPart'
  <2>1. Len(trail') \in Nat
    BY <1>3 DEF TrailPart, TrailTypeOK
  <2>2. learnt' = <<>> /\ UNCHANGED captureVars
    BY DEF Learn
  <2> QED BY <1>1, <2>1, <2>2 DEF CoreInv, AnaPart, AnaTypeOK, Analysing, captureVars
<1>6. SelPart'
  BY <1>3, SelSteady DEF Learn, CoreInv
<1>7. CtlPart' /\ QueryPart'
  BY <1>1 DEF Learn, CoreInv, CtlPart, QueryPart, Places, budgetVars, limitVars,
              answerVars, clientVars
<1> QED BY <1>3, <1>4, <1>5, <1>6, <1>7 DEF CoreInv

(* What follows a return to level 0.                                       *)
LEMMA ReturnToTop ==
  ASSUME CoreInv, BacktrackTo(0), UNCHANGED <<dbVars, implVars, anaVars, varVars>>,
         pl = 0, last = 0, pc' # "minimize"
  PROVE  TrailPart' /\ SelPart' /\ DbPart' /\ ListPart' /\ Reading' /\ AnaPart'
<1>1. TrailPart' /\ SelPart' /\ Len(trail') \in Nat
  BY SelBacktrack DEF CoreInv
<1>2. DbPart' /\ ListPart' /\ Reading'
  BY UnchangedKeepsDb DEF CoreInv, Reading, implVars
<1>3. AnaPart'
  BY <1>1, AnaSteady DEF CoreInv
<1> QED BY <1>1, <1>2, <1>3

LEMMA GiveUpKeeps == ASSUME CoreInv, GiveUp PROVE CoreInv'
<1>1. pl = 0 /\ last = 0 /\ pc' = "stat" /\ cont' = "none" /\ stat' = "unknown"
  BY PlaceFacts DEF GiveUp, GoTo
<1>2. TrailPart' /\ SelPart' /\ DbPart' /\ ListPart' /\ Reading' /\ AnaPart'
  BY <1>1, ReturnToTop DEF GiveUp
<1>3. CtlPart' /\ QueryPart'
  BY <1>1 DEF GiveUp, CoreInv, CtlPart, QueryPart, Places, budgetVars, limitVars, clientVars
<1> QED BY <1>2, <1>3 DEF CoreInv

LEMMA FinishKeeps == ASSUME CoreInv, Finish PROVE CoreInv'
<1>1. pl = 0 /\ last = 0 /\ pc' \in {"idle", "error"} /\ cont' = cont
  BY PlaceFacts DEF Finish, GoTo, Halt
<1>2. TrailPart' /\ SelPart' /\ DbPart' /\ ListPart' /\ Reading' /\ AnaPart'
  BY <1>1, ReturnToTop DEF Finish
<1>3. sane' \in BOOLEAN
  BY Zenon DEF Finish, CoreInv, CtlPart
<1>4. CtlPart'
  BY <1>1, <1>3 DEF Finish, CoreInv, CtlPart, Places, budgetVars, limitVars
<1>5. QueryPart'
  BY DEF Finish, CoreInv, QueryPart, clientVars
<1> QED BY <1>2, <1>4, <1>5 DEF CoreInv

LEMMA GoAheadKeeps == ASSUME CoreInv, GoAhead PROVE CoreInv'
<1>1. pl = 0 /\ last = 0 /\ pc' \in {"sweep", "reduce"} /\ cont' \in {"top", "none"}
  BY PlaceFacts DEF GoAhead, GoTo
<1>2. TrailPart' /\ DbPart' /\ ListPart' /\ Reading' /\ AnaPart' /\ NoneUndone
  BY <1>1, QuietStep DEF GoAhead
<1>3. SelPart'
  BY <1>2, SelSteady DEF GoAhead, CoreInv
<1>4. CtlPart' /\ QueryPart'
  BY <1>1 DEF GoAhead, CoreInv, CtlPart, QueryPart, Places, budgetVars, limitVars,
              answerVars, clientVars
<1> QED BY <1>2, <1>3, <1>4 DEF CoreInv

LEMMA ReduceKeeps == ASSUME CoreInv, Reduce PROVE CoreInv'
<1>1. pl = 0 /\ last = 0 /\ pc' = "decide" /\ cont' = "none" /\ UNCHANGED implVars
  BY PlaceFacts DEF Reduce, GoTo
<1>2. TrailPart' /\ NoneUndone /\ Len(trail') \in Nat
  BY TrailSteady DEF Reduce, CoreInv
<1>3. AnaPart' /\ Reading'
  BY <1>1, <1>2, AnaSteady DEF CoreInv, Reduce, Reading, implVars
<1>4. DbPart' /\ ListPart'
  <2>1. CASE UNCHANGED dbVars
    BY <1>1, <2>1, UnchangedKeepsDb DEF CoreInv
  <2>2. ASSUME NEW F \in SUBSET learnts, NEW E \in SUBSET learnts,
               DetachClauses({c \in F \cup E : ~Locked(c)}, FALSE)
        PROVE  DbPart' /\ ListPart'
    <3>1. {c \in F \cup E : ~Locked(c)} \in SUBSET Live /\ FALSE \in BOOLEAN
      BY DEF Live
    <3> QED BY <1>1, <2>2, <3>1, DetachKeepsDb DEF CoreInv
  <2> QED BY <2>1, <2>2 DEF Reduce
<1>5. SelPart'
  BY <1>2, SelSteady DEF Reduce, CoreInv
<1>6. CtlPart' /\ QueryPart'
  BY <1>1 DEF Reduce, CoreInv, CtlPart, QueryPart, Places, budgetVars, limitVars,
              answerVars, clientVars
<1> QED BY <1>2, <1>3, <1>4, <1>5, <1>6 DEF CoreInv

(* A step of the decision part that works on the trail and the heap alone. *)
LEMMA DecisionStep ==
  ASSUME CoreInv, UNCHANGED <<dbVars, implVars, anaVars>>, pl = 0, last = 0,
         pc' # "minimize", TrailPart'
  PROVE  DbPart' /\ ListPart' /\ Reading' /\ AnaPart'
<1>1. Len(trail') \in Nat
  BY DEF TrailPart, TrailTypeOK
<1>2. AnaPart'
  BY <1>1, AnaSteady DEF CoreInv
<1> QED BY <1>2, UnchangedKeepsDb DEF CoreInv, Reading, implVars

LEMMA AssumedIsLit ==
  ASSUME CoreInv, Assuming
  PROVE  Assumed \in Lit /\ -Assumed \in Lit
<1>1. assumps \in Seq(Lit) /\ DecisionLevel \in Nat
  BY DEF CoreInv, QueryPart, TrailPart, TrailTypeOK, DecisionLevel
<1>2. DecisionLevel + 1 \in 1 .. Len(assumps)
  BY <1>1 DEF Assuming
<1> QED BY <1>1, <1>2, ElementOfSeq, LitFacts DEF Assumed

LEMMA SkipAssumptionKeeps == ASSUME CoreInv, SkipAssumption PROVE CoreInv'
<1>1. pl = 0 /\ last = 0 /\ pc' = pc /\ pc = "decide" /\ cont' = cont
  BY PlaceFacts DEF SkipAssumption, Assuming, ctlVars
<1>2. TrailPart' /\ NoneUndone
  BY SetMarkerKeepsPart DEF SkipAssumption, CoreInv, SetMarker, NoneUndone
<1>3. DbPart' /\ ListPart' /\ Reading' /\ AnaPart'
  BY <1>1, <1>2, DecisionStep DEF SkipAssumption
<1>4. SelPart'
  BY <1>2, SelSteady DEF SkipAssumption, CoreInv
<1>5. CtlPart' /\ QueryPart'
  BY <1>1 DEF SkipAssumption, CoreInv, CtlPart, QueryPart, budgetVars, limitVars,
              answerVars, clientVars
<1> QED BY <1>2, <1>3, <1>4, <1>5 DEF CoreInv

LEMMA DecideAssumptionKeeps == ASSUME CoreInv, DecideAssumption PROVE CoreInv'
<1>1. pl = 0 /\ last = 0 /\ pc' = "imply" /\ cont' = "search" /\ Assuming
  BY PlaceFacts DEF DecideAssumption, Assuming, GoTo
<1>2. TrailPart' /\ NoneUndone
  BY <1>1, AssumedIsLit, DecideKeepsPart DEF DecideAssumption, CoreInv
<1>3. DbPart' /\ ListPart' /\ Reading' /\ AnaPart'
  BY <1>1, <1>2, DecisionStep DEF DecideAssumption
<1>4. SelPart'
  BY <1>2, SelSteady DEF DecideAssumption, CoreInv
<1>5. CtlPart' /\ QueryPart'
  BY <1>1 DEF DecideAssumption, CoreInv, CtlPart, QueryPart, Places, budgetVars, limitVars,
              answerVars, clientVars
<1> QED BY <1>2, <1>3, <1>4, <1>5 DEF CoreInv

LEMMA RefuteAssumptionKeeps == ASSUME CoreInv, RefuteAssumption PROVE CoreInv'
<1>1. pl = 0 /\ last = 0 /\ pc' = "stat" /\ cont' = "none" /\ stat' = "unsat" /\ Assuming
  BY PlaceFacts DEF RefuteAssumption, Assuming, GoTo
<1>2. TrailPart' /\ DbPart' /\ ListPart' /\ Reading' /\ AnaPart' /\ NoneUndone
  BY <1>1, QuietStep DEF RefuteAssumption
<1>3. SelPart'
  BY <1>2, SelSteady DEF RefuteAssumption, CoreInv
<1>4. Finals(-Assumed) \in SUBSET Lit
  <2>1. -Assumed \in Lit
    BY <1>1, AssumedIsLit
  <2>2. \A i \in DOMAIN trail : -trail[i] \in Lit
    BY ElementOfSeq, LitFacts DEF CoreInv, TrailPart, TrailTypeOK
  <2> QED BY <2>1, <2>2 DEF Finals
<1>5. finals' \subseteq Lit
  BY <1>4 DEF RefuteAssumption, CoreInv, QueryPart
<1>6. CtlPart' /\ QueryPart'
  BY <1>1, <1>5 DEF RefuteAssumption, CoreInv, CtlPart, QueryPart, Places, budgetVars,
                    limitVars, clientVars
<1> QED BY <1>2, <1>3, <1>6 DEF CoreInv

LEMMA DecideFreeKeeps == ASSUME CoreInv, DecideFree PROVE CoreInv'
<1>1. pl = 0 /\ last = 0 /\ pc' = "imply" /\ cont' = "search"
  BY PlaceFacts DEF DecideFree, Deciding, GoTo
<1>2. PICK v \in heap \ Assigned(heap) :
        /\ heap' \in HeapsAfter(v)
        /\ \E s \in PhasesOf(v) : Decide(s * v)
  BY DEF DecideFree
<1>3. PICK s \in PhasesOf(v) : Decide(s * v)
  BY <1>2
<1>4. v \in Var /\ v \in DecVar
  BY <1>2, ClientAssumption DEF CoreInv, SelPart
<1>5. s \in {-1, 1}
  BY <1>3, <1>4, ParamAssumption DEF PhasesOf, CoreInv, SelPart, Bool3
<1>6. s * v \in Lit /\ VarOf(s * v) = v
  <2>1. v \in Nat /\ v > 0 /\ v <= NVar /\ NVar \in Nat
    BY <1>4, SizeAssumption DEF Var
  <2>2. CASE s = 1
    BY <2>1, <2>2 DEF Lit, VarOf
  <2>3. CASE s = -1
    BY <2>1, <2>3 DEF Lit, VarOf
  <2> QED BY <1>5, <2>2, <2>3
<1>7. TrailPart' /\ NoneUndone /\ val'[v] # 0
  BY <1>3, <1>6, DecideKeepsPart DEF CoreInv
<1>8. DbPart' /\ ListPart' /\ Reading' /\ AnaPart'
  BY <1>1, <1>7, DecisionStep DEF DecideFree
<1>9. SelPart'
  <2>1. heap' \subseteq heap /\ \A u \in heap \ heap' : u = v \/ val[u] # 0
    BY <1>2 DEF HeapsAfter, Assigned
  <2>2. UNCHANGED varVars /\ prev' = prev
    BY DEF DecideFree
  <2>3. ASSUME NEW u \in DecVar, u <= oldVarNum', val'[u] = 0
        PROVE  u \in heap'
    <3>1. val[u] = 0 /\ u # v
      BY <1>7, <2>3, ClientAssumption DEF NoneUndone
    <3>2. u \in heap
      BY <2>2, <2>3, <3>1 DEF CoreInv, SelPart, HeapCovers, varVars
    <3> QED BY <2>1, <3>1, <3>2
  <2>4. HeapCovers'
    BY <2>3 DEF HeapCovers
  <2> QED BY <2>1, <2>2, <2>4 DEF CoreInv, SelPart, varVars
<1>10. CtlPart' /\ QueryPart'
  BY <1>1 DEF DecideFree, CoreInv, CtlPart, QueryPart, Places, budgetVars, limitVars,
              answerVars, clientVars
<1> QED BY <1>7, <1>8, <1>9, <1>10 DEF CoreInv

LEMMA NothingToDecideKeeps == ASSUME CoreInv, NothingToDecide PROVE CoreInv'
<1>1. pl = 0 /\ last = 0 /\ pc' = "stat" /\ cont' = "none" /\ stat' = "sat"
  BY PlaceFacts DEF NothingToDecide, Deciding, GoTo
<1>2. TrailPart' /\ DbPart' /\ ListPart' /\ Reading' /\ AnaPart' /\ NoneUndone
  BY <1>1, QuietStep DEF NothingToDecide
<1>3. SelPart'
  <2>1. UNCHANGED varVars /\ prev' = prev /\ heap' = {} /\ \A u \in heap : val[u] # 0
    BY DEF NothingToDecide, Assigned
  <2>2. ASSUME NEW u \in DecVar, u <= oldVarNum', val'[u] = 0
        PROVE  FALSE
    <3>1. val[u] = 0
      BY <1>2, <2>2, ClientAssumption DEF NoneUndone
    <3> QED BY <2>1, <2>2, <3>1 DEF CoreInv, SelPart, HeapCovers, varVars
  <2>3. HeapCovers'
    BY <2>2 DEF HeapCovers
  <2> QED BY <2>1, <2>3 DEF CoreInv, SelPart, varVars
<1>4. CtlPart' /\ QueryPart'
  BY <1>1 DEF NothingToDecide, CoreInv, CtlPart, QueryPart, Places, budgetVars, limitVars,
              clientVars
<1> QED BY <1>2, <1>3, <1>4 DEF CoreInv

LEMMA RestartKeeps == ASSUME CoreInv, Restart PROVE CoreInv'
<1>1. pl = 0 /\ last = 0 /\ pc' \in {"search", "finish"} /\ cont' = "none"
  BY PlaceFacts DEF Restart, GoTo
<1>2. TrailPart' /\ DbPart' /\ ListPart' /\ Reading' /\ AnaPart' /\ NoneUndone
  BY <1>1, QuietStep DEF Restart
<1>3. SelPart'
  BY <1>2, SelSteady DEF Restart, CoreInv
<1>4. CtlPart' /\ QueryPart'
  BY <1>1 DEF Restart, CoreInv, CtlPart, QueryPart, Places, budgetVars, limitVars,
              answerVars, clientVars
<1> QED BY <1>2, <1>3, <1>4 DEF CoreInv

LEMMA StutterKeeps == ASSUME CoreInv, UNCHANGED vars PROVE CoreInv'
<1>1. UNCHANGED <<trailVars, dbVars, implVars, anaVars, varVars, selVars, pc, cont>>
  BY DEF vars, ctlVars
<1>2. TrailPart' /\ NoneUndone /\ DbPart' /\ ListPart'
  BY <1>1, TrailSteady, UnchangedKeepsDb DEF CoreInv
<1>3. SelPart'
  BY <1>1, <1>2, SelSteady DEF CoreInv
<1>4. Reading' /\ AnaPart'
  BY <1>1 DEF CoreInv, Reading, AnaPart, AnaTypeOK, Analysing, implVars, trailVars,
              anaVars, captureVars
<1>5. CtlPart' /\ QueryPart'
  BY <1>1 DEF vars, CoreInv, CtlPart, QueryPart, budgetVars, limitVars, answerVars, clientVars
<1> QED BY <1>2, <1>3, <1>4, <1>5 DEF CoreInv
-----------------------------------------------------------------------------
(***************************************************************************)
(* The theorems.                                                           *)
(***************************************************************************)
LEMMA NextKeeps == CoreInv /\ [Next]_vars => CoreInv'
<1> SUFFICES ASSUME CoreInv, [Next]_vars PROVE CoreInv'
  OBVIOUS
<1>1. CASE UNCHANGED vars
  BY <1>1, StutterKeeps
<1>2. CASE Client
  BY <1>2, NewVariableKeeps, AddClauseKeeps, SetBudgetKeeps, SolveKeeps DEF Client
<1>3. CASE Stop
  BY <1>3, StopKeeps
<1>4. CASE Rest
  BY <1>4, StutterKeeps DEF Rest
<1>5. CASE Search
  BY <1>5, SolveInitKeeps, PropagateStepKeeps, ConflictStepKeeps, ImplicationDoneKeeps,
     SkipSweepKeeps, SweepKeeps, StartSearchKeeps, CaptureKeeps, BackjumpKeeps, LearnKeeps,
     GiveUpKeeps, GoAheadKeeps, ReduceKeeps, SkipAssumptionKeeps, DecideAssumptionKeeps,
     RefuteAssumptionKeeps, DecideFreeKeeps, NothingToDecideKeeps, RestartKeeps, FinishKeeps
     DEF Search
<1> QED BY <1>1, <1>2, <1>3, <1>4, <1>5 DEF Next

LEMMA CoreInvImplies == CoreInv => TypeOK /\ WatchedTwice /\ HeapCovers
<1> SUFFICES ASSUME CoreInv PROVE TypeOK /\ WatchedTwice /\ HeapCovers
  OBVIOUS
<1>1. TrailTypeOK /\ ImplTypeOK /\ AnaTypeOK /\ WatchedTwice /\ HeapCovers
  BY DEF CoreInv, TrailPart, DbPart, AnaPart, SelPart
<1>2. SelPart /\ CtlPart /\ QueryPart
  BY DEF CoreInv
<1>3. TypeOK
  BY <1>1, <1>2 DEF TypeOK, SelPart, CtlPart, QueryPart
<1> QED BY <1>1, <1>3

(* The inductive invariant, in every behaviour of the engine.              *)
THEOREM CoreAlwaysInv == Spec => []CoreInv
BY InitOK, NextKeeps, PTL DEF Spec

(* Every variable of the engine keeps its type: no index leaves the trail, *)
(* no position of implication() or capture() outlives the list it is in,   *)
(* whatever the client adds, assumes or interrupts.                        *)
THEOREM CoreAlwaysTypeOK == Spec => []TypeOK
BY CoreAlwaysInv, CoreInvImplies, PTL

(* Every live clause is watched once for each of its first two literals,   *)
(* and no list names a freed clause: the exchanges of literals and the     *)
(* moves of watchers in implication(), the deletions of reduce_CNF() and   *)
(* of reduce_learnt_clause() never leave a list pointing to freed memory.  *)
THEOREM CoreAlwaysWatchedTwice == Spec => []WatchedTwice
BY CoreAlwaysInv, CoreInvImplies, PTL

(* No undecided decision variable is ever missing from the heap, through   *)
(* pops, backtracks, rebuilds and variables created late.                  *)
THEOREM CoreAlwaysHeapCovers == Spec => []HeapCovers
BY CoreAlwaysInv, CoreInvImplies, PTL
=============================================================================
