--------------------------- MODULE SatSearchProofs ---------------------------
(***************************************************************************)
(* The search of the engine never fails, for every number of variables and *)
(* clauses, every client and every moment of stop(): the engine keeps the  *)
(* contract of its trail, every implied literal has its reason, conflict   *)
(* analysis always finds an asserting clause, and the model has no hole.   *)
(***************************************************************************)
EXTENDS SatCoreProofs

(* l is one of the first n literals of the trail.                          *)
Among(l, n) == \E j \in 1 .. n : trail[j] = l

(* solve() or add_clause() is past its entry; the latter propagates; the   *)
(* clauses have just been found contradictory.                             *)
Inside == pc \notin {"idle", "entry"}
Adding == pc = "imply" /\ cont = "add"
Refuted == pc \in {"stat", "finish"} /\ stat = "unsat" /\ finals = {}

(* Which values of the other control variables go with a place.            *)
PlacePart ==
  /\ pc # "error"
  /\ pc = "imply" => cont \in {"add", "init", "search"}
  /\ pc = "sweep" => cont \in {"init", "top"}
  /\ pc \in {"stat", "finish"} => stat \in {"sat", "unsat", "unknown"}
  /\ pc \notin {"idle", "entry", "stat", "finish"} /\ ~Adding => finals = {}
  /\ pc \in {"stat", "finish"} /\ stat # "unsat" => finals = {}
  /\ pc # "idle" => oldVarNum = varNum
  /\ Inside => sane

(* Where the engine is at level 0 and where it is above.                   *)
LevelPart ==
  /\ pc \in {"idle", "entry", "sweep", "search"} => DecisionLevel = 0
  /\ pc = "imply" /\ cont # "search" => DecisionLevel = 0
  /\ pc = "stat" /\ stat = "unknown" => DecisionLevel = 0
  /\ Refuted => DecisionLevel = 0
  /\ pc \in {"capture", "minimize"} => DecisionLevel > 0

(* Where the queue is empty, and what the list being read is.              *)
QueuePart ==
  /\ pc \in {"check", "sweep", "search", "reduce", "decide", "learn"} => ~HasElem
  /\ pc \in {"idle", "entry"} /\ sane => ~HasElem
  /\ pc = "imply" /\ cont = "init" => ~HasElem /\ pl = 0
  /\ pc \in {"stat", "finish"} /\ ~Refuted => ~HasElem
  /\ pl # 0 => head > marker[Len(marker)] /\ trail[head] = pl

(* The literal at position i is at the place of its kind: a decision opens *)
(* its level, an implied literal is the first of a live clause (or watched *)
(* from the other literal of a binary one) whose others are false and came *)
(* before, one of them at its own level.                                   *)
Justified(i) ==
  LET l == trail[i]
      r == reason[VarOf(l)]
      k == LevelOf(l)
  IN /\ r = None /\ k > 0 => i = marker[k + 1] + 1
     /\ r \in ClauseId => r \in Live /\ wl0(r) = l
     /\ r \in Lit /\ k > 0 => watch[-r][l] > 0
     /\ r # None => \A q \in Antecedents(r) : Among(-q, i - 1)
     /\ r # None /\ k > 0 => \E q \in Antecedents(r) : LevelOf(q) = k
ReasonPart == \A i \in 1 .. Len(trail) : Justified(i)

(* The variables of S that were assigned at level k.                       *)
AtLevel(S, k) == {v \in S : level[v] = k}

(* Conflict analysis: the literals learnt so far are false, of levels      *)
(* between 0 and the current one; the marked variables are those of the    *)
(* learnt literals and, at the current level, the count of them still to   *)
(* be met; in the end one of them is left, and the clause it begins        *)
(* asserts it at the level of its second literal.                          *)
NoAnalysis == resolving = {} /\ mark = {} /\ lower = {} /\ count = 0
LowerPart ==
  \A q \in lower : Among(-q, Len(trail)) /\ LevelOf(q) \in 1 .. DecisionLevel - 1
CapturePart ==
  pc = "capture" =>
    /\ \A v \in mark : level[v] > 0 /\ \E j \in 1 .. last : VarOf(trail[j]) = v
    /\ \A v \in mark : level[v] < DecisionLevel => v \in Vars(lower)
    /\ \A q \in resolving : Among(-q, last)
    /\ count = Cardinality(AtLevel(mark, DecisionLevel))
    /\ count > 0 \/ \E q \in resolving : LevelOf(q) = DecisionLevel /\ VarOf(q) \notin mark
MinimizePart ==
  pc = "minimize" =>
    /\ uip = -trail[last] /\ last \in 1 .. Len(trail) /\ LevelOf(uip) = DecisionLevel
    /\ mark \subseteq Vars(lower)
LearnPart ==
  pc = "learn" =>
    /\ learnt # <<>> /\ Eval(learnt[1]) = 0
    /\ \A i \in 2 .. Len(learnt) : Eval(learnt[i]) = -1 /\ LevelOf(learnt[i]) <= DecisionLevel
    /\ Len(learnt) > 1 => LevelOf(learnt[2]) = DecisionLevel /\ DecisionLevel > 0
    /\ Len(learnt) = 1 => DecisionLevel = 0
AnalysisPart ==
  /\ pc \notin {"capture", "minimize"} => NoAnalysis
  /\ LowerPart /\ CapturePart /\ MinimizePart /\ LearnPart

(* A model has a value for every decision variable.                        *)
ModelPart ==
  pc \in {"stat", "finish"} /\ stat = "sat" =>
    \A v \in DecVar : v <= varNum => val[v] # 0

ControlPart == PlacePart /\ LevelPart /\ QueuePart /\ ModelPart
SearchInv == TrailInv /\ ControlPart /\ ReasonPart /\ AnalysisPart
-----------------------------------------------------------------------------
(***************************************************************************)
(* The trail and its levels.                                               *)
(***************************************************************************)
LEMMA TrailFacts ==
  ASSUME TrailInv
  PROVE  /\ Len(trail) \in Nat /\ head \in Nat /\ head <= Len(trail)
         /\ DecisionLevel \in Nat /\ Len(marker) = DecisionLevel + 1
         /\ \A i \in 1 .. Len(trail) : trail[i] \in Lit
         /\ \A k \in 1 .. DecisionLevel + 1 : marker[k] \in Nat
         /\ \A i \in 1 .. Len(trail) :
              /\ LevelOf(trail[i]) \in 0 .. DecisionLevel
              /\ marker[LevelOf(trail[i]) + 1] < i
              /\ LevelOf(trail[i]) < DecisionLevel => i <= marker[LevelOf(trail[i]) + 2]
         /\ ~HasElem <=> head = Len(trail)
<1>1. /\ trail \in Seq(Lit) /\ marker \in Seq(Nat) /\ Len(marker) > 0
      /\ head \in 0 .. Len(trail) /\ level \in [Var -> Nat]
  BY DEF TrailInv, TrailTypeOK
<1>2. /\ Len(trail) \in Nat /\ head \in Nat /\ head <= Len(trail)
      /\ DecisionLevel \in Nat /\ Len(marker) = DecisionLevel + 1
      /\ \A i \in 1 .. Len(trail) : trail[i] \in Lit
      /\ \A k \in 1 .. DecisionLevel + 1 : marker[k] \in Nat
      /\ ~HasElem <=> head = Len(trail)
  BY <1>1 DEF DecisionLevel, HasElem
<1>3. ASSUME NEW i \in 1 .. Len(trail)
      PROVE  /\ LevelOf(trail[i]) \in 0 .. DecisionLevel
             /\ marker[LevelOf(trail[i]) + 1] < i
             /\ LevelOf(trail[i]) < DecisionLevel => i <= marker[LevelOf(trail[i]) + 2]
  <2>1. LevelOf(trail[i]) \in Nat
    BY <1>1, <1>2, LitFacts DEF LevelOf
  <2> QED BY <1>2, <2>1 DEF TrailInv, LevelsMatchMarkers
<1> QED BY <1>2, <1>3

(* Levels never decrease along the trail.                                  *)
LEMMA LevelsRise ==
  ASSUME TrailInv, NEW i \in 1 .. Len(trail), NEW j \in 1 .. Len(trail), i <= j
  PROVE  LevelOf(trail[i]) <= LevelOf(trail[j])
<1> DEFINE a == LevelOf(trail[i])
           b == LevelOf(trail[j])
<1>1. /\ a \in 0 .. DecisionLevel /\ b \in 0 .. DecisionLevel /\ DecisionLevel \in Nat
      /\ marker[a + 1] < i /\ (b < DecisionLevel => j <= marker[b + 2])
      /\ Len(marker) = DecisionLevel + 1
      /\ \A k \in 1 .. DecisionLevel + 1 : marker[k] \in Nat
  BY TrailFacts
<1> HIDE DEF a, b
<1> SUFFICES ASSUME b < a PROVE FALSE
  BY <1>1 DEF a, b
<1>2. b + 2 <= a + 1 /\ b + 2 \in 1 .. Len(marker) /\ a + 1 \in 1 .. Len(marker)
  BY <1>1
<1>3. marker[b + 2] <= marker[a + 1]
  BY <1>2 DEF TrailInv, MarkersOrdered
<1>4. marker[b + 2] \in Nat /\ marker[a + 1] \in Nat
  BY <1>1, <1>2
<1> QED BY <1>1, <1>2, <1>3, <1>4

(* A position is above the start of level k exactly when its literal is of *)
(* level k or higher.                                                      *)
LEMMA AboveMarker ==
  ASSUME TrailInv, NEW i \in 1 .. Len(trail), NEW k \in 0 .. DecisionLevel
  PROVE  LevelOf(trail[i]) >= k <=> i > marker[k + 1]
<1> DEFINE a == LevelOf(trail[i])
<1>1. /\ a \in 0 .. DecisionLevel /\ DecisionLevel \in Nat
      /\ marker[a + 1] < i /\ (a < DecisionLevel => i <= marker[a + 2])
      /\ Len(marker) = DecisionLevel + 1
      /\ \A j \in 1 .. DecisionLevel + 1 : marker[j] \in Nat
  BY TrailFacts
<1> HIDE DEF a
<1>2. CASE a >= k
  <2>1. k + 1 \in 1 .. Len(marker) /\ a + 1 \in 1 .. Len(marker) /\ k + 1 <= a + 1
    BY <1>1, <1>2
  <2>2. marker[k + 1] <= marker[a + 1]
    BY <2>1 DEF TrailInv, MarkersOrdered
  <2> QED BY <1>1, <1>2, <2>2 DEF a
<1>3. CASE a < k
  <2>1. k + 1 \in 1 .. Len(marker) /\ a + 2 \in 1 .. Len(marker) /\ a + 2 <= k + 1
    BY <1>1, <1>3
  <2>2. marker[a + 2] <= marker[k + 1]
    BY <2>1 DEF TrailInv, MarkersOrdered
  <2>4. marker[a + 2] \in Nat /\ marker[k + 1] \in Nat
    BY <1>1, <2>1
  <2>5. i <= marker[a + 2]
    BY <1>1, <1>3
  <2>6. ~(i > marker[k + 1])
    BY <2>2, <2>4, <2>5
  <2> QED BY <1>1, <1>3, <2>6 DEF a
<1> QED BY <1>1, <1>2, <1>3

LEMMA SameVar ==
  ASSUME NEW a \in Lit, NEW b \in Lit, VarOf(a) = VarOf(b)
  PROVE  a = b \/ a = -b
BY LitFacts

(* The true literals are those on the trail, the false ones those whose    *)
(* negation is.                                                            *)
LEMMA TrueIsOnTrail ==
  ASSUME TrailInv, NEW q \in Lit
  PROVE  /\ Eval(q) \in {-1, 0, 1}
         /\ Eval(-q) = -Eval(q)
         /\ Eval(q) = 1 <=> Among(q, Len(trail))
         /\ Eval(q) = -1 <=> Among(-q, Len(trail))
<1>1. val \in [Var -> Bool3] /\ -q \in Lit /\ q \in Int /\ -(-q) = q
  BY LitFacts DEF TrailInv, TrailTypeOK
<1>2. ASSUME NEW m \in Lit
      PROVE  Eval(m) = 1 <=> Among(m, Len(trail))
  <2>1. CASE Among(m, Len(trail))
    BY <2>1 DEF Among, TrailInv, TrailIsAssignment
  <2>2. CASE Eval(m) = 1
    <3>1. VarOf(m) \in Var /\ val[VarOf(m)] # 0
      BY <1>1, <2>2, LitFacts, ValueFacts DEF Eval
    <3>2. PICK i \in 1 .. Len(trail) : VarOf(trail[i]) = VarOf(m)
      BY <3>1 DEF TrailInv, TrailIsAssignment
    <3>3. trail[i] \in Lit /\ ValueOf(val, trail[i]) = 1
      BY TrailFacts DEF TrailInv, TrailIsAssignment, Eval
    <3>4. trail[i] # -m
      <4>1. ValueOf(val, -m) = -1
        BY <1>1, <2>2, ValueFacts DEF Eval
      <4> QED BY <3>3, <4>1
    <3>5. trail[i] = m
      BY <3>2, <3>3, <3>4, SameVar, LitFacts
    <3> QED BY <2>2, <3>2, <3>5 DEF Among
  <2> QED BY <2>1, <2>2
<1>3. Eval(q) \in {-1, 0, 1} /\ Eval(-q) = -Eval(q)
  BY <1>1, ValueFacts DEF Eval, Bool3
<1>4. Eval(q) = -1 <=> Eval(-q) = 1
  BY <1>3
<1> QED BY <1>1, <1>2, <1>3, <1>4

(* A literal among the first n of the trail, as a position with its level. *)
LEMMA AmongFacts ==
  ASSUME TrailInv, NEW q \in Lit, NEW n \in Nat, n <= Len(trail), Among(-q, n)
  PROVE  /\ \E j \in 1 .. n : j \in 1 .. Len(trail) /\ trail[j] = -q /\ VarOf(trail[j]) = VarOf(q)
         /\ LevelOf(q) \in 0 .. DecisionLevel
         /\ VarOf(q) \in Var
         /\ Among(-q, Len(trail)) /\ Eval(q) = -1
         /\ \A m \in Nat : n <= m => Among(-q, m)
<1>1. Len(trail) \in Nat
  BY TrailFacts
<1>2. PICK j \in 1 .. n : trail[j] = -q
  BY DEF Among
<1>3. j \in 1 .. Len(trail) /\ \A m \in Nat : n <= m => j \in 1 .. m
  BY <1>1
<1>4. VarOf(-q) = VarOf(q) /\ VarOf(q) \in Var
  BY LitFacts
<1>5. LevelOf(trail[j]) = LevelOf(q) /\ LevelOf(trail[j]) \in 0 .. DecisionLevel
  BY <1>2, <1>3, <1>4, TrailFacts DEF LevelOf
<1>6. Among(-q, Len(trail)) /\ \A m \in Nat : n <= m => Among(-q, m)
  BY <1>2, <1>3 DEF Among
<1> QED BY <1>2, <1>3, <1>4, <1>5, <1>6, TrueIsOnTrail
-----------------------------------------------------------------------------
(***************************************************************************)
(* What the operations of the trail change.                                *)
(***************************************************************************)

(* Everything about the first n literals of the trail is as it was.        *)
Prefix(n) ==
  /\ n <= Len(trail) /\ n <= Len(trail')
  /\ \A j \in 1 .. n :
       /\ trail'[j] = trail[j]
       /\ level'[VarOf(trail[j])] = level[VarOf(trail[j])]
       /\ reason'[VarOf(trail[j])] = reason[VarOf(trail[j])]
       /\ marker'[LevelOf(trail[j]) + 1] = marker[LevelOf(trail[j]) + 1]

(* The list has grown by l, of level k, for reason r.                      *)
Grown(l, k, r) ==
  /\ Prefix(Len(trail))
  /\ Len(trail') = Len(trail) + 1 /\ trail'[Len(trail) + 1] = l
  /\ level'[VarOf(l)] = k /\ reason'[VarOf(l)] = r
  /\ head' = head
  /\ \A q \in Lit : Eval(q)' = IF VarOf(q) = VarOf(l) THEN (IF q = l THEN 1 ELSE -1) ELSE Eval(q)
  /\ \A v \in Var : v # VarOf(l) => level'[v] = level[v] /\ reason'[v] = reason[v]

LEMMA PutChanges ==
  ASSUME TrailInv, NEW l \in Lit, NEW k \in Nat, NEW r \in Reason, Eval(l) = 0, Put(l, k, r)
  PROVE  /\ \A i \in 1 .. Len(trail) : VarOf(trail[i]) # VarOf(l)
         /\ \A i \in 1 .. Len(trail) :
              /\ trail'[i] = trail[i]
              /\ level'[VarOf(trail[i])] = level[VarOf(trail[i])]
              /\ reason'[VarOf(trail[i])] = reason[VarOf(trail[i])]
         /\ Len(trail') = Len(trail) + 1 /\ trail'[Len(trail) + 1] = l
         /\ level'[VarOf(l)] = k /\ reason'[VarOf(l)] = r
         /\ head' = head
         /\ \A q \in Lit : Eval(q)' = IF VarOf(q) = VarOf(l) THEN (IF q = l THEN 1 ELSE -1) ELSE Eval(q)
         /\ \A v \in Var : v # VarOf(l) => level'[v] = level[v] /\ reason'[v] = reason[v]
<1>1. /\ trail \in Seq(Lit) /\ level \in [Var -> Nat] /\ reason \in [Var -> Reason]
      /\ val \in [Var -> Bool3] /\ VarOf(l) \in Var
  BY LitFacts DEF TrailInv, TrailTypeOK
<1>2. ASSUME NEW i \in 1 .. Len(trail)
      PROVE  VarOf(trail[i]) # VarOf(l) /\ trail[i] \in Lit /\ VarOf(trail[i]) \in Var
  <2>1. trail[i] \in Lit /\ Eval(trail[i]) = 1 /\ VarOf(trail[i]) \in Var
    BY <1>1, LitFacts DEF TrailInv, TrailIsAssignment
  <2>2. VarOf(trail[i]) = VarOf(l) => trail[i] = l \/ trail[i] = -l
    BY <2>1, SameVar
  <2>3. Eval(-l) = 0
    BY TrueIsOnTrail
  <2> QED BY <2>1, <2>2, <2>3
<1>3. ASSUME NEW i \in 1 .. Len(trail)
      PROVE  /\ trail'[i] = trail[i]
             /\ level'[VarOf(trail[i])] = level[VarOf(trail[i])]
             /\ reason'[VarOf(trail[i])] = reason[VarOf(trail[i])]
  BY <1>1, <1>2 DEF Put
<1>4. /\ Len(trail') = Len(trail) + 1 /\ trail'[Len(trail) + 1] = l
      /\ level'[VarOf(l)] = k /\ reason'[VarOf(l)] = r /\ head' = head
      /\ \A v \in Var : v # VarOf(l) => level'[v] = level[v] /\ reason'[v] = reason[v]
  BY <1>1 DEF Put
<1>5. val' = [val EXCEPT ![VarOf(l)] = IF l > 0 THEN 1 ELSE -1]
  BY DEF Put
<1>6. val' \in [Var -> Bool3]
  BY <1>1, <1>5 DEF Bool3
<1>7. ASSUME NEW q \in Lit
      PROVE  ValueOf(val', q) = IF VarOf(q) = VarOf(l) THEN (IF q = l THEN 1 ELSE -1) ELSE ValueOf(val, q)
  <2>1. val'[VarOf(q)] = IF VarOf(q) = VarOf(l) THEN (IF l > 0 THEN 1 ELSE -1) ELSE val[VarOf(q)]
    BY <1>1, <1>5, LitFacts
  <2>2. /\ ValueOf(val', q) = IF q > 0 THEN val'[VarOf(q)] ELSE -val'[VarOf(q)]
        /\ ValueOf(val, q) = IF q > 0 THEN val[VarOf(q)] ELSE -val[VarOf(q)]
    BY <1>1, <1>6, ValueFacts
  <2>3. VarOf(q) = VarOf(l) => q = l \/ (q = -l /\ q # l)
    BY SameVar, LitFacts
  <2> QED BY <2>1, <2>2, <2>3, LitFacts
<1> QED BY <1>2, <1>3, <1>4, <1>7 DEF Eval

LEMMA AssignFacts ==
  ASSUME TrailInv, NEW l \in Lit, NEW r \in Reason, Eval(l) = 0, Assign(l, r)
  PROVE  /\ TrailInv' /\ Grown(l, DecisionLevel, r)
         /\ marker' = marker /\ DecisionLevel' = DecisionLevel
<1>1. Put(l, DecisionLevel, r) /\ marker' = marker
  BY DEF Assign
<1>2. DecisionLevel \in Nat /\ Len(trail) \in Nat
  BY TrailFacts
<1>3. Grown(l, DecisionLevel, r)
  BY <1>1, <1>2, PutChanges DEF Grown, Prefix
<1> QED BY <1>1, <1>3, AssignKeepsInv DEF DecisionLevel

LEMMA DecideFacts ==
  ASSUME TrailInv, ~HasElem, NEW l \in Lit, Eval(l) = 0, Decide(l)
  PROVE  /\ TrailInv' /\ Grown(l, DecisionLevel + 1, None)
         /\ DecisionLevel' = DecisionLevel + 1
         /\ marker' = Append(marker, Len(trail))
<1>1. Put(l, DecisionLevel + 1, None) /\ marker' = Append(marker, Len(trail))
  BY DEF Decide
<1>2. /\ DecisionLevel \in Nat /\ DecisionLevel + 1 \in Nat /\ Len(trail) \in Nat
      /\ Len(marker) = DecisionLevel + 1 /\ marker \in Seq(Nat) /\ None \in Reason
  BY TrailFacts DEF TrailInv, TrailTypeOK, Reason
<1>3. \A j \in 1 .. Len(trail) : marker'[LevelOf(trail[j]) + 1] = marker[LevelOf(trail[j]) + 1]
  <2> TAKE j \in 1 .. Len(trail)
  <2>1. LevelOf(trail[j]) + 1 \in 1 .. Len(marker)
    BY <1>2, TrailFacts
  <2> QED BY <1>1, <1>2, <2>1
<1>4. Grown(l, DecisionLevel + 1, None)
  <2>1. /\ \A i \in 1 .. Len(trail) :
              /\ trail'[i] = trail[i]
              /\ level'[VarOf(trail[i])] = level[VarOf(trail[i])]
              /\ reason'[VarOf(trail[i])] = reason[VarOf(trail[i])]
        /\ Len(trail') = Len(trail) + 1
    BY <1>1, <1>2, PutChanges
  <2>2. Prefix(Len(trail))
    BY <1>2, <1>3, <2>1 DEF Prefix
  <2> QED BY <1>1, <1>2, <2>2, PutChanges DEF Grown
<1>5. Len(marker') = Len(marker) + 1
  BY <1>1, <1>2
<1> QED BY <1>1, <1>2, <1>4, <1>5, DecideKeepsInv DEF DecisionLevel

LEMMA SetMarkerFacts ==
  ASSUME TrailInv, ~HasElem, SetMarker
  PROVE  /\ TrailInv' /\ Prefix(Len(trail))
         /\ trail' = trail /\ val' = val /\ level' = level /\ reason' = reason /\ head' = head
         /\ DecisionLevel' = DecisionLevel + 1
<1>1. marker' = Append(marker, Len(trail)) /\ UNCHANGED <<val, level, reason, trail, head>>
  BY DEF SetMarker
<1>2. /\ DecisionLevel \in Nat /\ Len(trail) \in Nat
      /\ Len(marker) = DecisionLevel + 1 /\ marker \in Seq(Nat)
  BY TrailFacts DEF TrailInv, TrailTypeOK
<1>3. \A j \in 1 .. Len(trail) : marker'[LevelOf(trail[j]) + 1] = marker[LevelOf(trail[j]) + 1]
  <2> TAKE j \in 1 .. Len(trail)
  <2>1. LevelOf(trail[j]) + 1 \in 1 .. Len(marker)
    BY <1>2, TrailFacts
  <2> QED BY <1>1, <1>2, <2>1
<1>4. Len(marker') = Len(marker) + 1
  BY <1>1, <1>2
<1>5. Prefix(Len(trail))
  <2>1. trail' = trail /\ level' = level /\ reason' = reason
    BY <1>1
  <2> QED BY <1>2, <1>3, <2>1 DEF Prefix
<1>6. DecisionLevel' = DecisionLevel + 1
  BY <1>2, <1>4 DEF DecisionLevel
<1> QED BY <1>1, <1>5, <1>6, SetMarkerKeepsInv

(* Backtracking to level k keeps what was assigned up to level k, and      *)
(* unless it does nothing it leaves the queue empty.                       *)
LEMMA BacktrackFacts ==
  ASSUME TrailInv, NEW k \in Nat, Backtrack(k)
  PROVE  /\ TrailInv' /\ Prefix(Len(trail')) /\ level' = level /\ reason' = reason
         /\ DecisionLevel' = IF k < DecisionLevel THEN k ELSE DecisionLevel
         /\ k < DecisionLevel => ~HasElem'
         /\ ~(k < DecisionLevel) => UNCHANGED trailVars
         /\ \A q \in Lit : Eval(q)' = IF Eval(q) # 0 /\ LevelOf(q) > k THEN 0 ELSE Eval(q)
<1>0. /\ DecisionLevel \in Nat /\ Len(trail) \in Nat /\ Len(marker) = DecisionLevel + 1
      /\ \A i \in 1 .. Len(trail) : trail[i] \in Lit
  BY TrailFacts
<1>1. CASE ~(k < DecisionLevel)
  <2>1. UNCHANGED <<val, level, reason, trail, head, marker>>
    BY <1>1 DEF Backtrack, trailVars
  <2>2. TrailInv'
    BY <2>1 DEF TrailInv, TrailTypeOK, TrailIsAssignment, MarkersOrdered,
                LevelsMatchMarkers, Eval, LevelOf, DecisionLevel
  <2>3. DecisionLevel' = DecisionLevel
    BY <2>1 DEF DecisionLevel
  <2>4. ASSUME NEW q \in Lit
        PROVE  Eval(q)' = Eval(q) /\ (Eval(q) # 0 => ~(LevelOf(q) > k))
    <3>1. Eval(q)' = Eval(q)
      BY <2>1 DEF Eval
    <3>2. CASE Eval(q) = -1
      <4>1. Among(-q, Len(trail))
        BY <3>2, TrueIsOnTrail
      <4>2. LevelOf(q) \in 0 .. DecisionLevel
        BY <1>0, <4>1, AmongFacts
      <4> QED BY <1>0, <1>1, <3>1, <4>2
    <3>3. CASE Eval(q) = 1
      <4>1. -q \in Lit /\ VarOf(-q) = VarOf(q) /\ -(-q) = q
        BY LitFacts
      <4>2. Among(-(-q), Len(trail))
        BY <3>3, <4>1, TrueIsOnTrail
      <4>3. LevelOf(-q) \in 0 .. DecisionLevel
        BY <1>0, <4>1, <4>2, AmongFacts
      <4> QED BY <1>0, <1>1, <3>1, <4>1, <4>3 DEF LevelOf
    <3> QED BY <3>1, <3>2, <3>3, TrueIsOnTrail
  <2>5. Prefix(Len(trail'))
    BY <1>0, <2>1 DEF Prefix
  <2>6. \A q \in Lit : Eval(q)' = IF Eval(q) # 0 /\ LevelOf(q) > k THEN 0 ELSE Eval(q)
    BY <2>4, <1>0
  <2> QED BY <1>1, <2>1, <2>2, <2>3, <2>5, <2>6 DEF trailVars
<1>2. CASE k < DecisionLevel
  <2> DEFINE cut == marker[k + 2]
  <2>1. /\ val' = [v \in Var |-> IF v \in Undone(k) THEN 0 ELSE val[v]]
        /\ trail' = SubSeq(trail, 1, cut) /\ head' = cut
        /\ marker' = SubSeq(marker, 1, k + 1)
        /\ level' = level /\ reason' = reason
    BY <1>2 DEF Backtrack
  <2>2. TrailInv'
    BY <1>2, BacktrackKeepsInv
  <2>3. k + 1 \in 0 .. DecisionLevel /\ k + 2 \in 1 .. Len(marker) /\ (k + 1) + 1 = k + 2
    BY <1>0, <1>2
  <2>4. cut \in Nat /\ cut <= Len(trail) /\ cut <= head
    <3>1. cut <= head
      BY <2>3 DEF TrailInv, MarkersOrdered
    <3> QED BY <3>1, <2>3, <1>0, TrailFacts
  <2>5. \A i \in 1 .. Len(trail) : LevelOf(trail[i]) >= k + 1 <=> i > cut
    BY <2>3, AboveMarker
  <2>6. Undone(k) = {VarOf(trail[i]) : i \in cut + 1 .. Len(trail)}
    BY DEF Undone
  <2> HIDE DEF cut
  <2>7. Len(trail') = cut /\ \A j \in 1 .. cut : trail'[j] = trail[j] /\ j \in 1 .. Len(trail)
    BY <2>1, <2>4 DEF TrailInv, TrailTypeOK
  <2>8. /\ Len(marker') = k + 1
        /\ \A j \in 1 .. k + 1 : marker'[j] = marker[j]
    <3>1. marker \in Seq(Nat)
      BY DEF TrailInv, TrailTypeOK
    <3>2. \A j \in 1 .. k + 1 : marker[j] \in Nat /\ j \in 1 .. Len(marker)
      BY <3>1, <2>3
    <3> QED BY <2>1, <2>3, <3>1, <3>2
  <2>9. DecisionLevel' = k
    BY <2>8 DEF DecisionLevel
  <2>10. Prefix(Len(trail'))
    <3>1. ASSUME NEW j \in 1 .. cut
          PROVE  marker'[LevelOf(trail[j]) + 1] = marker[LevelOf(trail[j]) + 1]
      <4>1. j \in 1 .. Len(trail) /\ ~(j > cut)
        BY <2>4, <2>7
      <4>2. LevelOf(trail[j]) \in Nat /\ ~(LevelOf(trail[j]) >= k + 1)
        BY <4>1, <2>5, TrailFacts
      <4>3. LevelOf(trail[j]) + 1 \in 1 .. k + 1
        BY <4>2
      <4> QED BY <4>3, <2>8
    <3>2. cut <= Len(trail') /\ level' = level /\ reason' = reason
      BY <2>1, <2>4, <2>7
    <3>3. \A j \in 1 .. cut :
            /\ trail'[j] = trail[j]
            /\ level'[VarOf(trail[j])] = level[VarOf(trail[j])]
            /\ reason'[VarOf(trail[j])] = reason[VarOf(trail[j])]
            /\ marker'[LevelOf(trail[j]) + 1] = marker[LevelOf(trail[j]) + 1]
      BY <2>7, <3>1, <3>2
    <3>4. Prefix(cut)
      BY <2>4, <3>2, <3>3 DEF Prefix
    <3> QED BY <2>7, <3>4
  <2>11. ~HasElem'
    BY <2>1, <2>4, <2>7 DEF HasElem
  <2>12. ASSUME NEW q \in Lit
         PROVE  Eval(q)' = IF Eval(q) # 0 /\ LevelOf(q) > k THEN 0 ELSE Eval(q)
    <3>1. VarOf(q) \in Var /\ val \in [Var -> Bool3] /\ val' \in [Var -> Bool3]
      BY <2>2, LitFacts DEF TrailInv, TrailTypeOK
    <3>2. VarOf(q) \in Undone(k) <=> Eval(q) # 0 /\ LevelOf(q) > k
      <4>1. CASE VarOf(q) \in Undone(k)
        <5>1. PICK i \in cut + 1 .. Len(trail) : VarOf(trail[i]) = VarOf(q)
          BY <4>1, <2>6
        <5>2. i \in 1 .. Len(trail) /\ i > cut
          BY <2>4
        <5>3. LevelOf(trail[i]) >= k + 1 /\ LevelOf(trail[i]) = LevelOf(q) /\ LevelOf(trail[i]) \in Nat
          BY <5>1, <5>2, <2>5, TrailFacts DEF LevelOf
        <5>4. trail[i] \in Lit /\ Eval(trail[i]) = 1
          BY <5>2, <1>0 DEF TrailInv, TrailIsAssignment
        <5>5. val[VarOf(q)] # 0
          BY <5>1, <5>4, <3>1, ValueFacts DEF Eval
        <5> QED BY <4>1, <5>3, <5>5, <3>1, ValueFacts DEF Eval
      <4>2. CASE Eval(q) # 0 /\ LevelOf(q) > k
        <5>1. val[VarOf(q)] # 0
          BY <4>2, <3>1, ValueFacts DEF Eval
        <5>2. PICK i \in 1 .. Len(trail) : VarOf(trail[i]) = VarOf(q)
          BY <5>1, <3>1 DEF TrailInv, TrailIsAssignment
        <5>3. LevelOf(trail[i]) >= k + 1
          BY <4>2, <5>2, TrailFacts DEF LevelOf
        <5>4. i > cut
          BY <5>3, <2>5
        <5>5. i \in cut + 1 .. Len(trail)
          BY <5>4, <2>4, <1>0
        <5> QED BY <4>2, <5>2, <5>5, <2>6
      <4> QED BY <4>1, <4>2
    <3>3. val'[VarOf(q)] = IF VarOf(q) \in Undone(k) THEN 0 ELSE val[VarOf(q)]
      BY <2>1, <3>1
    <3>4. ValueOf(val', q) = IF VarOf(q) \in Undone(k) THEN 0 ELSE ValueOf(val, q)
      BY <3>1, <3>3, ValueFacts
    <3> QED BY <3>2, <3>4 DEF Eval
  <2> QED BY <1>2, <2>1, <2>2, <2>9, <2>10, <2>11, <2>12
<1> QED BY <1>1, <1>2
-----------------------------------------------------------------------------
(***************************************************************************)
(* Reasons.                                                                *)
(***************************************************************************)

(* The clauses that imply one of the first n literals are left alone, and  *)
(* above level 0 no binary clause is dropped.                              *)
ReasonClausesKept(n) ==
  /\ \A c \in Live :
       (\E j \in 1 .. n : reason[VarOf(trail[j])] = c /\ wl0(c) = trail[j])
         => c \in Live' /\ lits'[c] = lits[c]
  /\ \A a, b \in Lit : DecisionLevel > 0 /\ watch[a][b] > 0 => watch'[a][b] > 0

LEMMA ReasonFacts ==
  ASSUME CoreInv, TrailInv, ReasonPart, NEW i \in 1 .. Len(trail),
         reason[VarOf(trail[i])] # None
  PROVE  LET r == reason[VarOf(trail[i])] IN
         /\ r \in Reason
         /\ Antecedents(r) \in SUBSET Lit
         /\ \A q \in Antecedents(r) :
              Among(-q, i - 1) /\ Eval(q) = -1 /\ LevelOf(q) \in 0 .. LevelOf(trail[i])
<1> DEFINE r == reason[VarOf(trail[i])]
<1>1. /\ i - 1 \in Nat /\ i - 1 <= Len(trail) /\ trail[i] \in Lit
      /\ LevelOf(trail[i]) \in 0 .. DecisionLevel /\ DecisionLevel \in Nat
  BY TrailFacts
<1>2. r \in Reason
  BY <1>1, LitFacts DEF TrailInv, TrailTypeOK
<1>3. Antecedents(r) \in SUBSET Lit
  BY <1>2, AntecedentsAreLits DEF CoreInv
<1>4. ASSUME NEW q \in Antecedents(r)
      PROVE  Among(-q, i - 1) /\ Eval(q) = -1 /\ LevelOf(q) \in 0 .. LevelOf(trail[i])
  <2>1. q \in Lit /\ Among(-q, i - 1)
    BY <1>3 DEF ReasonPart, Justified
  <2>2. PICK j \in 1 .. i - 1 : j \in 1 .. Len(trail) /\ VarOf(trail[j]) = VarOf(q)
    BY <1>1, <2>1, AmongFacts
  <2>3. LevelOf(trail[j]) <= LevelOf(trail[i])
    BY <1>1, <2>2, LevelsRise
  <2>4. LevelOf(q) = LevelOf(trail[j]) /\ LevelOf(q) \in 0 .. DecisionLevel /\ Eval(q) = -1
    BY <1>1, <2>1, <2>2, AmongFacts DEF LevelOf
  <2> QED BY <1>1, <2>1, <2>3, <2>4
<1> QED BY <1>2, <1>3, <1>4

LEMMA ReasonsKept ==
  ASSUME CoreInv, TrailInv, ReasonPart, NEW n \in Nat, Prefix(n), ReasonClausesKept(n)
  PROVE  \A i \in 1 .. n : Justified(i)'
<1> TAKE i \in 1 .. n
<1> DEFINE l == trail[i]
           r == reason[VarOf(l)]
           k == LevelOf(l)
<1>1. /\ i \in 1 .. Len(trail) /\ Len(trail) \in Nat /\ n <= Len(trail) /\ n <= Len(trail')
      /\ trail'[i] = l /\ level'[VarOf(l)] = k /\ reason'[VarOf(l)] = r
      /\ marker'[k + 1] = marker[k + 1]
  <2>1. n <= Len(trail) /\ n <= Len(trail') /\ Len(trail) \in Nat
    BY TrailFacts DEF Prefix
  <2>2. i \in 1 .. Len(trail)
    BY <2>1
  <2> QED BY <2>1, <2>2 DEF Prefix, LevelOf
<1>2. l \in Lit /\ k \in 0 .. DecisionLevel /\ DecisionLevel \in Nat /\ r \in Reason
  BY <1>1, TrailFacts, LitFacts DEF TrailInv, TrailTypeOK
<1>3. Justified(i)
  BY <1>1 DEF ReasonPart
<1>4. r \in ClauseId => r \in Live /\ wl0(r) = l /\ r \in Live' /\ lits'[r] = lits[r] /\ r \notin Lit
  <2> SUFFICES ASSUME r \in ClauseId PROVE r \in Live /\ wl0(r) = l /\ r \in Live' /\ lits'[r] = lits[r] /\ r \notin Lit
    OBVIOUS
  <2>1. r \in Live /\ wl0(r) = l
    BY <1>3 DEF Justified
  <2> QED BY <2>1, WatcherKinds DEF ReasonClausesKept
<1>5. r # None => (r \in Lit /\ Antecedents(r) = {r}) \/ (r \in ClauseId /\ Antecedents(r) = Elems(lits[r]) \ {lits[r][1]})
  <2>1. r # None => r \in Lit \/ r \in ClauseId
    BY <1>2, ReasonKinds
  <2> QED BY <2>1, WatcherKinds DEF Antecedents, wl0
<1> DEFINE A == IF r \in Lit THEN {r} ELSE Elems(lits'[r]) \ {lits'[r][1]}
<1>6. r # None => A = Antecedents(r)
  BY <1>4, <1>5
<1>7. ASSUME r # None
      PROVE  /\ \A q \in A : Among(-q, i - 1)'
             /\ k > 0 => \E q \in A : level'[VarOf(q)] = k
  <2>1. ASSUME NEW q \in Antecedents(r)
        PROVE  Among(-q, i - 1)' /\ level'[VarOf(q)] = LevelOf(q)
    <3>1. q \in Lit /\ Among(-q, i - 1)
      BY <1>1, <1>7, ReasonFacts
    <3>2. PICK j \in 1 .. i - 1 : trail[j] = -q
      BY <3>1 DEF Among
    <3>3. j \in 1 .. n /\ trail'[j] = -q /\ level'[VarOf(trail[j])] = level[VarOf(trail[j])]
      BY <3>2, <1>1 DEF Prefix
    <3>4. VarOf(-q) = VarOf(q)
      BY <3>1, LitFacts
    <3> QED BY <3>2, <3>3, <3>4 DEF Among, LevelOf
  <2>2. k > 0 => \E q \in Antecedents(r) : LevelOf(q) = k
    BY <1>3, <1>7 DEF Justified
  <2> HIDE DEF A, r, k, l
  <2> QED BY <1>6, <1>7, <2>1, <2>2
<1>8. r = None /\ k > 0 => i = marker'[k + 1] + 1
  BY <1>1, <1>3 DEF Justified
<1>9. r \in Lit /\ k > 0 => watch'[-r][l] > 0
  <2>1. r \in Lit /\ k > 0 => watch[-r][l] > 0 /\ -r \in Lit /\ DecisionLevel > 0
    BY <1>2, <1>3, LitFacts DEF Justified
  <2> QED BY <1>2, <2>1 DEF ReasonClausesKept
<1>10. Justified(i)' =
        LET ll == trail'[i]
            rr == reason'[VarOf(ll)]
            kk == level'[VarOf(ll)]
        IN /\ rr = None /\ kk > 0 => i = marker'[kk + 1] + 1
           /\ rr \in ClauseId => rr \in Live' /\ lits'[rr][1] = ll
           /\ rr \in Lit /\ kk > 0 => watch'[-rr][ll] > 0
           /\ rr # None => \A q \in IF rr \in Lit THEN {rr} ELSE Elems(lits'[rr]) \ {lits'[rr][1]} :
                             Among(-q, i - 1)'
           /\ rr # None /\ kk > 0 =>
                \E q \in IF rr \in Lit THEN {rr} ELSE Elems(lits'[rr]) \ {lits'[rr][1]} :
                   level'[VarOf(q)] = kk
  BY DEF Justified, wl0, Antecedents, LevelOf
<1>11. r \in ClauseId => lits'[r][1] = l
  BY <1>4 DEF wl0
<1> HIDE DEF l, r, k
<1>12. trail'[i] = l /\ reason'[VarOf(l)] = r /\ level'[VarOf(l)] = k
  BY <1>1
<1> QED BY <1>4, <1>7, <1>8, <1>9, <1>10, <1>11, <1>12

LEMMA ReasonsSteady ==
  ASSUME CoreInv, TrailInv, ReasonPart, UNCHANGED <<trail, level, reason>>, Prefix(Len(trail)),
         ReasonClausesKept(Len(trail))
  PROVE  ReasonPart'
BY ReasonsKept, TrailFacts DEF ReasonPart
-----------------------------------------------------------------------------
(***************************************************************************)
(* Conflict analysis: capture().                                           *)
(***************************************************************************)
LEMMA LeastOf ==
  ASSUME NEW T \in SUBSET Nat, T # {}
  PROVE  \E n \in T : \A m \in T : n <= m
<1>1. PICK n \in T : \A m \in T : ~(<<m, n>> \in OpToRel(<, Nat))
  BY NatLessThanWellFounded, WFMin
<1>2. \A m \in T : ~(m < n)
  BY <1>1 DEF OpToRel
<1> QED BY <1>2

LEMMA GreatestOf ==
  ASSUME NEW n \in Nat, NEW T \in SUBSET (1 .. n), T # {}
  PROVE  \E i \in T : \A j \in T : j <= i
<1> DEFINE D == {n - i : i \in T}
<1>1. D \in SUBSET Nat /\ D # {}
  <2>1. \A i \in T : n - i \in Nat
    OBVIOUS
  <2> QED BY <2>1
<1>2. PICK d \in D : \A e \in D : d <= e
  <2> HIDE DEF D
  <2> QED BY <1>1, LeastOf
<1>3. PICK i \in T : d = n - i
  BY <1>2
<1>4. \A j \in T : n - j \in D
  OBVIOUS
<1>5. \A j \in T : n - i <= n - j
  <2> HIDE DEF D
  <2> QED BY <1>2, <1>3, <1>4
<1> QED BY <1>3, <1>5

(* The marked variables, after put_lit(): all above level 0 and met not    *)
(* later than the position reached; those below the current level are      *)
(* learnt, the others are what the count counts, and there is one.         *)
LEMMA MarkedFacts ==
  ASSUME CoreInv, SearchInv, pc = "capture"
  PROVE  /\ DecisionLevel \in Nat /\ DecisionLevel > 0
         /\ last \in Nat /\ last <= Len(trail) /\ Len(trail) \in Nat
         /\ Marked \in SUBSET Var
         /\ \A v \in Marked : level[v] \in 1 .. DecisionLevel /\ \E j \in 1 .. last : VarOf(trail[j]) = v
         /\ \A v \in Marked : level[v] < DecisionLevel => v \in Vars(lower \cup NewLower)
         /\ lower \cup NewLower \in SUBSET Lit
         /\ \A q \in lower \cup NewLower :
              Among(-q, Len(trail)) /\ LevelOf(q) \in 1 .. DecisionLevel - 1
         /\ NewCount = Cardinality(AtLevel(Marked, DecisionLevel))
         /\ AtLevel(Marked, DecisionLevel) # {}
<1>0. /\ TrailInv /\ CapturePart /\ LowerPart
      /\ DecisionLevel > 0
  BY DEF SearchInv, AnalysisPart, ControlPart, LevelPart
<1>1. /\ DecisionLevel \in Nat /\ Len(trail) \in Nat /\ last \in Nat /\ last <= Len(trail)
      /\ resolving \in SUBSET Lit /\ mark \in SUBSET Var /\ lower \in SUBSET Lit
  BY <1>0, TrailFacts DEF CoreInv, AnaPart, AnaTypeOK, Analysing
<1>2. ASSUME NEW q \in resolving
      PROVE  /\ Among(-q, Len(trail)) /\ LevelOf(q) \in 0 .. DecisionLevel
             /\ q \in Lit /\ VarOf(q) \in Var
             /\ \E j \in 1 .. last : VarOf(trail[j]) = VarOf(q)
  BY <1>0, <1>1, AmongFacts DEF CapturePart
<1>3. NewLits \in SUBSET resolving /\ NewLower \in SUBSET NewLits
  BY DEF NewLits, NewLower
<1>4. \A q \in NewLits : LevelOf(q) \in 1 .. DecisionLevel /\ VarOf(q) \notin mark
  BY <1>1, <1>2 DEF NewLits
<1>5. Vars(NewLits) \in SUBSET Var /\ Marked \in SUBSET Var
  BY <1>1, <1>2, <1>3 DEF Vars, Marked
<1>6. ASSUME NEW v \in mark
      PROVE  /\ level[v] \in 1 .. DecisionLevel /\ \E j \in 1 .. last : VarOf(trail[j]) = v
             /\ level[v] < DecisionLevel => v \in Vars(lower)
  <2>1. PICK j \in 1 .. last : VarOf(trail[j]) = v
    BY <1>0 DEF CapturePart
  <2>2. j \in 1 .. Len(trail) /\ LevelOf(trail[j]) \in 0 .. DecisionLevel
    BY <1>0, <1>1, TrailFacts
  <2>3. level[v] > 0 /\ (level[v] < DecisionLevel => v \in Vars(lower))
    BY <1>0 DEF CapturePart
  <2> QED BY <1>1, <2>1, <2>2, <2>3 DEF LevelOf
<1>7. ASSUME NEW v \in Vars(NewLits)
      PROVE  /\ level[v] \in 1 .. DecisionLevel /\ \E j \in 1 .. last : VarOf(trail[j]) = v
             /\ level[v] < DecisionLevel => v \in Vars(NewLower)
             /\ v \notin mark
  <2>1. PICK q \in NewLits : v = VarOf(q)
    BY DEF Vars
  <2>2. /\ level[v] = LevelOf(q) /\ LevelOf(q) \in 1 .. DecisionLevel
        /\ \E j \in 1 .. last : VarOf(trail[j]) = v
    BY <2>1, <1>2, <1>3, <1>4 DEF LevelOf
  <2>3. level[v] < DecisionLevel => v \in Vars(NewLower)
    BY <2>1, <2>2 DEF NewLower, Vars
  <2> QED BY <2>1, <2>2, <2>3, <1>4
<1>8. \A v \in Marked : level[v] \in 1 .. DecisionLevel /\ \E j \in 1 .. last : VarOf(trail[j]) = v
  BY <1>6, <1>7 DEF Marked
<1>9. \A v \in Marked : level[v] < DecisionLevel => v \in Vars(lower \cup NewLower)
  <2>1. Vars(lower) \subseteq Vars(lower \cup NewLower) /\ Vars(NewLower) \subseteq Vars(lower \cup NewLower)
    BY DEF Vars
  <2> QED BY <2>1, <1>6, <1>7 DEF Marked
<1>10. ASSUME NEW q \in lower \cup NewLower
       PROVE  q \in Lit /\ Among(-q, Len(trail)) /\ LevelOf(q) \in 1 .. DecisionLevel - 1
  <2>1. CASE q \in lower
    BY <2>1, <1>0, <1>1 DEF LowerPart
  <2>2. CASE q \in NewLower
    <3>1. q \in resolving /\ LevelOf(q) \in 1 .. DecisionLevel /\ LevelOf(q) < DecisionLevel
      BY <2>2, <1>3, <1>4 DEF NewLower
    <3> QED BY <3>1, <1>1, <1>2
  <2> QED BY <2>1, <2>2
<1> DEFINE O == AtLevel(mark, DecisionLevel)
           N == Vars(NewLits \ NewLower)
           A == AtLevel(Marked, DecisionLevel)
<1>11. N = AtLevel(Vars(NewLits), DecisionLevel)
  <2>1. ASSUME NEW v \in N
        PROVE  v \in Vars(NewLits) /\ level[v] = DecisionLevel
    <3>1. PICK q \in NewLits : v = VarOf(q) /\ q \notin NewLower
      BY DEF Vars
    <3>2. LevelOf(q) \in 1 .. DecisionLevel /\ ~(LevelOf(q) < DecisionLevel)
      BY <3>1, <1>4 DEF NewLower
    <3> QED BY <3>1, <3>2, <1>1 DEF Vars, LevelOf
  <2>2. ASSUME NEW v \in Vars(NewLits), level[v] = DecisionLevel
        PROVE  v \in N
    <3>1. PICK q \in NewLits : v = VarOf(q)
      BY DEF Vars
    <3>2. q \notin NewLower
      BY <3>1, <2>2, <1>1 DEF NewLower, LevelOf
    <3> QED BY <3>1, <3>2 DEF Vars
  <2> QED BY <2>1, <2>2 DEF AtLevel
<1>12. A = O \cup N /\ O \cap N = {}
  BY <1>7, <1>11 DEF AtLevel, Marked
<1>13. O \in SUBSET Var /\ N \in SUBSET Var /\ A \in SUBSET Var
  BY <1>1, <1>5, <1>11 DEF AtLevel
<1>14. Cardinality(A) = Cardinality(O) + Cardinality(N)
  <2> HIDE DEF A, O, N
  <2>1. Cardinality(O \cup N) = Cardinality(O) + Cardinality(N) - Cardinality(O \cap N)
    BY <1>13, LitsFinite, FS_Union
  <2> QED BY <2>1, <1>12, <1>13, LitsFinite, FS_EmptySet
<1>15. NewCount = Cardinality(A)
  BY <1>0, <1>14 DEF CapturePart, NewCount
<1>16. A # {}
  <2>1. CASE count > 0
    <3>1. Cardinality(O) > 0
      BY <2>1, <1>0 DEF CapturePart
    <3>2. O # {}
      <4> HIDE DEF O
      <4> QED BY <3>1, FS_EmptySet
    <3> QED BY <3>2, <1>12
  <2>2. ASSUME NEW q \in resolving, LevelOf(q) = DecisionLevel, VarOf(q) \notin mark
        PROVE  A # {}
    <3>1. q \in NewLits
      BY <2>2, <1>0 DEF NewLits
    <3>2. VarOf(q) \in AtLevel(Vars(NewLits), DecisionLevel)
      BY <3>1, <2>2 DEF AtLevel, Vars, LevelOf
    <3> QED BY <3>2, <1>11, <1>12
  <2> QED BY <2>1, <2>2, <1>0 DEF CapturePart
<1> QED BY <1>0, <1>1, <1>5, <1>8, <1>9, <1>10, <1>15, <1>16

LEMMA LatestExists ==
  ASSUME CoreInv, SearchInv, pc = "capture"
  PROVE  \E i \in 1 .. last : Latest(i)
<1> DEFINE T == {j \in 1 .. last : VarOf(trail[j]) \in Marked}
<1>1. last \in Nat /\ T \in SUBSET (1 .. last)
  BY MarkedFacts
<1>2. T # {}
  BY MarkedFacts DEF AtLevel
<1>3. PICK i \in T : \A j \in T : j <= i
  <2> HIDE DEF T
  <2> QED BY <1>1, <1>2, GreatestOf
<1>4. \A j \in i + 1 .. last : j \in 1 .. last /\ ~(j <= i)
  BY <1>1
<1> QED BY <1>3, <1>4 DEF Latest

(* The latest marked literal is of the current level, and if it is not the *)
(* only one there it is no decision.                                       *)
LEMMA LatestFacts ==
  ASSUME CoreInv, SearchInv, pc = "capture", NEW i \in 1 .. last, Latest(i)
  PROVE  /\ i \in 1 .. Len(trail) /\ trail[i] \in Lit
         /\ LevelOf(trail[i]) = DecisionLevel
         /\ VarOf(trail[i]) \in AtLevel(Marked, DecisionLevel)
         /\ \A v \in Marked : v # VarOf(trail[i]) => \E j \in 1 .. i - 1 : VarOf(trail[j]) = v
         /\ NewCount # 1 => reason[VarOf(trail[i])] # None
<1>0. TrailInv /\ ReasonPart
  BY DEF SearchInv
<1>1. /\ i \in 1 .. Len(trail) /\ trail[i] \in Lit /\ last \in Nat /\ i \in Nat
      /\ DecisionLevel \in Nat /\ LevelOf(trail[i]) \in 0 .. DecisionLevel
  <2>1. last \in Nat /\ last <= Len(trail) /\ Len(trail) \in Nat
    BY MarkedFacts
  <2>2. i \in 1 .. Len(trail)
    BY <2>1
  <2> QED BY <2>1, <2>2, <1>0, TrailFacts
<1>2. VarOf(trail[i]) \in Marked
  BY DEF Latest
<1>3. ASSUME NEW v \in Marked
      PROVE  \E j \in 1 .. i : j \in 1 .. Len(trail) /\ VarOf(trail[j]) = v
  <2>1. PICK j \in 1 .. last : VarOf(trail[j]) = v
    BY MarkedFacts
  <2>2. j \notin i + 1 .. last
    BY <2>1 DEF Latest
  <2>3. j \in 1 .. i /\ j \in 1 .. Len(trail)
    BY <2>2, <1>1
  <2> QED BY <2>1, <2>3
<1>4. LevelOf(trail[i]) = DecisionLevel
  <2>1. PICK v \in Marked : level[v] = DecisionLevel
    BY MarkedFacts DEF AtLevel
  <2>2. PICK j \in 1 .. i : j \in 1 .. Len(trail) /\ VarOf(trail[j]) = v
    BY <2>1, <1>3
  <2>3. LevelOf(trail[j]) <= LevelOf(trail[i]) /\ LevelOf(trail[j]) = DecisionLevel
    BY <2>1, <2>2, <1>0, <1>1, LevelsRise DEF LevelOf
  <2> QED BY <2>3, <1>1
<1>5. VarOf(trail[i]) \in AtLevel(Marked, DecisionLevel)
  BY <1>2, <1>4 DEF AtLevel, LevelOf
<1>6. ASSUME NEW v \in Marked, v # VarOf(trail[i])
      PROVE  \E j \in 1 .. i - 1 : VarOf(trail[j]) = v
  <2>1. PICK j \in 1 .. i : VarOf(trail[j]) = v
    BY <1>3
  <2>2. j # i /\ j \in 1 .. i - 1
    BY <2>1, <1>6, <1>1
  <2> QED BY <2>1, <2>2
<1>7. ASSUME NewCount # 1, reason[VarOf(trail[i])] = None
      PROVE  FALSE
  <2>1. i = marker[DecisionLevel + 1] + 1 /\ DecisionLevel > 0
    <3>1. DecisionLevel > 0
      BY MarkedFacts
    <3> QED BY <3>1, <1>0, <1>1, <1>4, <1>7 DEF ReasonPart, Justified
  <2>2. ASSUME NEW v \in AtLevel(Marked, DecisionLevel)
        PROVE  v = VarOf(trail[i])
    <3>1. v \in Marked /\ level[v] = DecisionLevel
      BY DEF AtLevel
    <3>2. PICK j \in 1 .. i : j \in 1 .. Len(trail) /\ VarOf(trail[j]) = v
      BY <3>1, <1>3
    <3>3. marker[DecisionLevel + 1] < j /\ marker[DecisionLevel + 1] \in Nat
      <4>1. LevelOf(trail[j]) = DecisionLevel
        BY <3>1, <3>2 DEF LevelOf
      <4>2. marker[LevelOf(trail[j]) + 1] < j
        BY <3>2, <1>0, TrailFacts
      <4>3. DecisionLevel + 1 \in 1 .. DecisionLevel + 1
        BY <1>1
      <4>4. marker[DecisionLevel + 1] \in Nat
        BY <4>3, <1>0, TrailFacts
      <4> QED BY <4>1, <4>2, <4>4
    <3>4. j = i
      BY <2>1, <3>2, <3>3, <1>1
    <3> QED BY <3>2, <3>4
  <2>3. AtLevel(Marked, DecisionLevel) = {VarOf(trail[i])}
    BY <2>2, <1>5
  <2> QED BY <2>3, <1>7, MarkedFacts, FS_Singleton
<1> QED BY <1>1, <1>4, <1>5, <1>6, <1>7

LEMMA CaptureSucceeds ==
  ASSUME CoreInv, SearchInv, pc = "capture"
  PROVE  ~CaptureFails
<1>1. \E i \in 1 .. last : Latest(i)
  BY LatestExists
<1>2. \A i \in 1 .. last : Latest(i) => ~(NewCount # 1 /\ reason[VarOf(trail[i])] = None)
  BY LatestFacts
<1> QED BY <1>1, <1>2 DEF CaptureFails

(* What an iteration of capture() leaves.                                  *)
LEMMA CaptureAtFacts ==
  ASSUME CoreInv, SearchInv, pc = "capture", NEW i \in 1 .. last, CaptureAt(i),
         UNCHANGED trailVars
  PROVE  /\ last' = i /\ uip' = -trail[i]
         /\ \A v \in mark' : level[v] \in 1 .. DecisionLevel /\ \E j \in 1 .. i - 1 : VarOf(trail[j]) = v
         /\ \A v \in mark' : level[v] < DecisionLevel => v \in Vars(lower')
         /\ count' = Cardinality(AtLevel(mark', DecisionLevel))
         /\ count' = NewCount - 1
         /\ NewCount \in Nat \ {0}
         /\ NewCount = 1 => \A v \in mark' : level[v] < DecisionLevel
         /\ LowerPart'
<1> DEFINE v0 == VarOf(trail[i])
           A == AtLevel(Marked, DecisionLevel)
<1>1. /\ Latest(i) /\ mark' = Marked \ {v0} /\ lower' = lower \cup NewLower
      /\ uip' = -trail[i] /\ count' = NewCount - 1 /\ last' = i
  BY DEF CaptureAt
<1>2. /\ i \in 1 .. Len(trail) /\ trail[i] \in Lit /\ v0 \in A
      /\ \A v \in Marked : v # v0 => \E j \in 1 .. i - 1 : VarOf(trail[j]) = v
  BY <1>1, LatestFacts
<1>3. IsFiniteSet(A) /\ Cardinality(A) \in Nat /\ Cardinality(A) = NewCount
  <2>1. A \in SUBSET Var
    BY MarkedFacts DEF AtLevel
  <2> QED BY <2>1, LitsFinite, MarkedFacts
<1>4. AtLevel(mark', DecisionLevel) = A \ {v0}
  BY <1>1 DEF AtLevel
<1>5. Cardinality(A \ {v0}) = Cardinality(A) - 1 /\ IsFiniteSet(A \ {v0})
  <2> HIDE DEF A, v0
  <2> QED BY <1>2, <1>3, FS_RemoveElement
<1>6. Cardinality(A \ {v0}) \in Nat
  <2> HIDE DEF A, v0
  <2> QED BY <1>5, FS_CardinalityType
<1>7. count' = Cardinality(AtLevel(mark', DecisionLevel)) /\ NewCount \in Nat \ {0}
  <2> HIDE DEF A, v0
  <2>1. NewCount - 1 = Cardinality(A \ {v0})
    BY <1>3, <1>5
  <2>2. NewCount \in Nat \ {0}
    BY <2>1, <1>3, <1>6
  <2>3. count' = Cardinality(AtLevel(mark', DecisionLevel))
    BY <2>1, <1>1, <1>4
  <2> QED BY <2>2, <2>3
<1>8. \A v \in mark' : v \in Marked /\ v # v0
  BY <1>1
<1>9. \A v \in mark' : level[v] \in 1 .. DecisionLevel /\ \E j \in 1 .. i - 1 : VarOf(trail[j]) = v
  BY <1>2, <1>8, MarkedFacts
<1>10. \A v \in mark' : level[v] < DecisionLevel => v \in Vars(lower')
  BY <1>1, <1>8, MarkedFacts
<1>11. ASSUME NewCount = 1, NEW v \in mark'
       PROVE  level[v] < DecisionLevel
  <2>1. PICK x : A = {x}
    <3> HIDE DEF A
    <3> QED BY <1>3, <1>11, FS_Singleton
  <2>2. v \notin A
    BY <2>1, <1>2, <1>8
  <2> QED BY <2>2, <1>8, <1>9, MarkedFacts DEF AtLevel
<1>12. LowerPart'
  <2>1. \A q \in lower \cup NewLower :
          Among(-q, Len(trail)) /\ LevelOf(q) \in 1 .. DecisionLevel - 1
    BY MarkedFacts
  <2>2. UNCHANGED <<trail, level, marker>>
    BY DEF trailVars
  <2> QED BY <1>1, <2>1, <2>2 DEF LowerPart, Among, LevelOf, DecisionLevel
<1> QED BY <1>1, <1>7, <1>9, <1>10, <1>11, <1>12

LEMMA ResolveKeepsAnalysis ==
  ASSUME CoreInv, SearchInv, pc = "capture", NEW i \in 1 .. last, ResolveAt(i),
         UNCHANGED trailVars, pc' = "capture"
  PROVE  AnalysisPart'
<1>1. CaptureAt(i) /\ NewCount # 1 /\ resolving' = Antecedents(reason[VarOf(trail[i])])
  BY DEF ResolveAt
<1>2. /\ last' = i
      /\ \A v \in mark' : level[v] \in 1 .. DecisionLevel /\ \E j \in 1 .. i - 1 : VarOf(trail[j]) = v
      /\ \A v \in mark' : level[v] < DecisionLevel => v \in Vars(lower')
      /\ count' = Cardinality(AtLevel(mark', DecisionLevel))
      /\ count' > 0
      /\ LowerPart'
  BY <1>1, CaptureAtFacts
<1>3. /\ Latest(i) /\ i \in 1 .. Len(trail) /\ reason[VarOf(trail[i])] # None
      /\ TrailInv /\ ReasonPart
  BY <1>1, LatestFacts DEF CaptureAt, SearchInv
<1>4. UNCHANGED <<trail, level, marker>> /\ DecisionLevel' = DecisionLevel
  BY DEF trailVars, DecisionLevel
<1>5. \A q \in resolving' : Among(-q, i)'
  <2> TAKE q \in resolving'
  <2>1. Among(-q, i - 1)
    BY <1>1, <1>3, ReasonFacts
  <2> QED BY <2>1, <1>3, <1>4 DEF Among
<1>6. \A v \in mark' : level[v] > 0 /\ \E j \in 1 .. i : VarOf(trail[j]) = v
  <2> TAKE v \in mark'
  <2>1. level[v] \in 1 .. DecisionLevel
    BY <1>2
  <2>2. PICK j \in 1 .. i - 1 : VarOf(trail[j]) = v
    BY <1>2
  <2> QED BY <2>1, <2>2
<1>7. AtLevel(mark', DecisionLevel) = AtLevel(mark, DecisionLevel)'
  BY <1>4 DEF AtLevel
<1>8. CapturePart'
  BY <1>2, <1>4, <1>5, <1>6, <1>7 DEF CapturePart
<1> QED BY <1>2, <1>8 DEF AnalysisPart, MinimizePart, LearnPart

LEMMA FoundKeepsAnalysis ==
  ASSUME CoreInv, SearchInv, pc = "capture", NEW i \in 1 .. last, FoundUIP(i),
         UNCHANGED trailVars, pc' = "minimize"
  PROVE  AnalysisPart'
<1>1. CaptureAt(i) /\ NewCount = 1 /\ Latest(i)
  BY DEF FoundUIP, CaptureAt
<1>2. /\ last' = i /\ uip' = -trail[i] /\ LowerPart'
      /\ \A v \in mark' : v \in Vars(lower')
  BY <1>1, CaptureAtFacts
<1>3. i \in 1 .. Len(trail) /\ trail[i] \in Lit /\ LevelOf(trail[i]) = DecisionLevel
  BY <1>1, LatestFacts
<1>4. VarOf(-trail[i]) = VarOf(trail[i])
  BY <1>3, LitFacts
<1>5. UNCHANGED <<trail, level, marker>> /\ DecisionLevel' = DecisionLevel
  BY DEF trailVars, DecisionLevel
<1>6. MinimizePart'
  BY <1>2, <1>3, <1>4, <1>5 DEF MinimizePart, LevelOf
<1> QED BY <1>2, <1>6 DEF AnalysisPart, CapturePart, LearnPart
-----------------------------------------------------------------------------
(***************************************************************************)
(* Conflict analysis: make_minimal() and reorder().                        *)
(***************************************************************************)

(* The learnt literals before minimization are false, one of them, uip, at *)
(* the current level; what SaUIP2 writes instead of one is false too, and  *)
(* of the same level.                                                      *)
LEMMA WrittenFacts ==
  ASSUME CoreInv, SearchInv, pc = "minimize"
  PROVE  /\ DecisionLevel \in Nat /\ DecisionLevel > 0
         /\ uip \in Lit /\ Eval(uip) = -1 /\ LevelOf(uip) = DecisionLevel /\ Written(uip) = uip
         /\ uip \notin lower
         /\ \A q \in lower :
              /\ q \in Lit /\ Eval(q) = -1 /\ LevelOf(q) \in 1 .. DecisionLevel - 1
              /\ Written(q) \in Lit /\ Eval(Written(q)) = -1 /\ LevelOf(Written(q)) = LevelOf(q)
<1>0. /\ TrailInv /\ ReasonPart /\ MinimizePart /\ LowerPart /\ DecisionLevel > 0
  BY DEF SearchInv, AnalysisPart, ControlPart, LevelPart
<1>1. DecisionLevel \in Nat /\ Len(trail) \in Nat /\ lower \in SUBSET Lit /\ uip \in Lit
  BY <1>0, TrailFacts DEF CoreInv, AnaPart, AnaTypeOK, Analysing
<1>2. ASSUME NEW q \in lower
      PROVE  q \in Lit /\ Eval(q) = -1 /\ LevelOf(q) \in 1 .. DecisionLevel - 1 /\ Among(-q, Len(trail))
  BY <1>0, <1>1, AmongFacts DEF LowerPart
<1>3. LevelOf(uip) = DecisionLevel /\ uip \notin lower /\ Written(uip) = uip
  <2>1. LevelOf(uip) = DecisionLevel
    BY <1>0 DEF MinimizePart
  <2>2. uip \notin lower
    BY <2>1, <1>1, <1>2
  <2> QED BY <2>1, <2>2 DEF Written
<1>4. Eval(uip) = -1
  <2>1. last \in 1 .. Len(trail) /\ uip = -trail[last]
    BY <1>0 DEF MinimizePart
  <2>2. trail[last] \in Lit /\ trail[last] = -uip
    BY <2>1, <1>0, TrailFacts, LitFacts
  <2>3. Among(-uip, Len(trail))
    BY <2>1, <2>2 DEF Among
  <2> QED BY <2>3, <1>0, <1>1, TrueIsOnTrail
<1>5. ASSUME NEW q \in lower
      PROVE  Written(q) \in Lit /\ Eval(Written(q)) = -1 /\ LevelOf(Written(q)) = LevelOf(q)
  <2>1. CASE Written(q) = q
    BY <2>1, <1>2
  <2>2. CASE Written(q) # q
    <3> DEFINE r == reason[VarOf(q)]
    <3>1. Written(q) = r /\ r \in Lit
      BY <2>2 DEF Written
    <3>2. PICK i \in 1 .. Len(trail) : trail[i] = -q
      BY <1>2 DEF Among
    <3>3. VarOf(trail[i]) = VarOf(q) /\ LevelOf(trail[i]) = LevelOf(q) /\ LevelOf(q) > 0
      BY <3>2, <1>2, LitFacts DEF LevelOf
    <3>4. Antecedents(r) = {r} /\ r # None
      BY <3>1, LitFacts DEF Antecedents, None
    <3>5. Eval(r) = -1
      BY <3>2, <3>3, <3>4, <1>0, ReasonFacts
    <3>6. LevelOf(r) = LevelOf(q)
      <4>1. \E a \in Antecedents(r) : LevelOf(a) = LevelOf(q)
        BY <3>2, <3>3, <3>4, <1>0 DEF ReasonPart, Justified
      <4> QED BY <4>1, <3>4
    <3> QED BY <3>1, <3>5, <3>6
  <2> QED BY <2>1, <2>2
<1> QED BY <1>0, <1>1, <1>2, <1>3, <1>4, <1>5

(* The first UIP is never dropped: the earliest literal of its level among *)
(* the redundant ones would need an earlier one.                           *)
LEMMA UIPStays ==
  ASSUME CoreInv, SearchInv, pc = "minimize"
  PROVE  ~Redundant(VarOf(uip))
<1>0. /\ TrailInv /\ ReasonPart /\ MinimizePart /\ LowerPart
      /\ DecisionLevel \in Nat /\ DecisionLevel > 0 /\ Len(trail) \in Nat
  BY TrailFacts, WrittenFacts DEF SearchInv, AnalysisPart
<1>1. uip \in Lit /\ last \in 1 .. Len(trail) /\ trail[last] \in Lit
      /\ VarOf(trail[last]) = VarOf(uip) /\ LevelOf(trail[last]) = DecisionLevel
  <2>1. uip \in Lit /\ last \in 1 .. Len(trail) /\ uip = -trail[last] /\ LevelOf(uip) = DecisionLevel
    BY <1>0, WrittenFacts DEF MinimizePart
  <2>2. trail[last] \in Lit
    BY <2>1, <1>0, TrailFacts
  <2> QED BY <2>1, <2>2, LitFacts DEF LevelOf
<1> SUFFICES ASSUME NEW S \in SUBSET Var, VarOf(uip) \in S,
                    \A u \in S : /\ reason[u] # None
                                 /\ \A q \in Antecedents(reason[u]) :
                                      VarOf(q) \in mark \cup S \/ LevelOf(q) = 0
             PROVE  FALSE
  BY DEF Redundant
<1> DEFINE T == {i \in 1 .. Len(trail) : VarOf(trail[i]) \in S /\ LevelOf(trail[i]) = DecisionLevel}
<1>2. T \in SUBSET Nat /\ T # {}
  BY <1>0, <1>1
<1>3. PICK i \in T : \A j \in T : i <= j
  <2> HIDE DEF T
  <2> QED BY <1>2, LeastOf
<1>4. i \in 1 .. Len(trail) /\ VarOf(trail[i]) \in S /\ LevelOf(trail[i]) = DecisionLevel
  BY <1>3
<1> DEFINE r == reason[VarOf(trail[i])]
<1>5. r # None
  BY <1>4
<1>6. PICK q \in Antecedents(r) : LevelOf(q) = DecisionLevel
  BY <1>0, <1>4, <1>5 DEF ReasonPart, Justified
<1>7. q \in Lit /\ Among(-q, i - 1)
  BY <1>0, <1>4, <1>5, <1>6, ReasonFacts
<1>8. PICK j \in 1 .. i - 1 : j \in 1 .. Len(trail) /\ trail[j] = -q /\ VarOf(trail[j]) = VarOf(q)
  BY <1>0, <1>4, <1>7, AmongFacts
<1>9. VarOf(q) \in mark \cup S
  BY <1>0, <1>4, <1>6
<1>10. VarOf(q) \notin mark
  <2> SUFFICES ASSUME VarOf(q) \in mark PROVE FALSE
    OBVIOUS
  <2>1. PICK m \in lower : VarOf(m) = VarOf(q)
    BY <1>0 DEF MinimizePart, Vars
  <2>2. LevelOf(m) \in 1 .. DecisionLevel - 1
    BY <2>1, WrittenFacts
  <2> QED BY <2>1, <2>2, <1>0, <1>6 DEF LevelOf
<1>11. j \in T
  BY <1>6, <1>8, <1>9, <1>10 DEF LevelOf
<1> QED BY <1>3, <1>4, <1>8, <1>11

(* The clause analyze() returns: the UIP comes first, and only there; the  *)
(* others are false and of lower levels, the second of the highest.        *)
LEMMA LearntFacts ==
  ASSUME CoreInv, SearchInv, pc = "minimize", NEW s \in LearntOrders
  PROVE  /\ s \in Seq(Lit) /\ Len(s) \in Nat /\ Len(s) > 0
         /\ s[1] = uip
         /\ \A i \in 2 .. Len(s) :
              s[i] \in Lit /\ Eval(s[i]) = -1 /\ LevelOf(s[i]) \in 1 .. DecisionLevel - 1
         /\ \A i \in 3 .. Len(s) : LevelOf(s[i]) <= LevelOf(s[2])
         /\ BackjumpLevel(s) \in Nat /\ BackjumpLevel(s) < DecisionLevel
         /\ Elems(s) = {Written(q) : q \in Minimal}
<1>0. /\ DecisionLevel \in Nat /\ DecisionLevel > 0 /\ uip \in Lit /\ uip \notin lower
      /\ Written(uip) = uip
  BY WrittenFacts
<1> DEFINE n == Cardinality(Minimal)
<1>1. PICK t \in [1 .. n -> Minimal] : IsLearnt(t) /\ s = [i \in DOMAIN t |-> Written(t[i])]
  BY DEF LearntOrders
<1>2. Minimal \in SUBSET (lower \cup {uip}) /\ Minimal \in SUBSET Lit
  BY <1>0, WrittenFacts DEF Minimal
<1>3. n \in Nat /\ IsFiniteSet(Minimal)
  BY <1>2, LitsFinite
<1>4. uip \in Minimal
  BY <1>0, UIPStays DEF Minimal
<1>5. n > 0
  <2>1. n # 0
    BY <1>3, <1>4, FS_EmptySet
  <2> QED BY <2>1, <1>3
<1> HIDE DEF n
<1>6. /\ DOMAIN t = 1 .. n /\ Elems(t) = Minimal /\ t[1] = uip
      /\ Len(t) = n
      /\ \A i \in 3 .. n : LevelOf(Written(t[i])) <= LevelOf(Written(t[2]))
  BY <1>1, <1>3, <1>4 DEF IsLearnt
<1>7. \A i \in 1 .. n : t[i] \in lower \cup {uip}
  BY <1>1, <1>2
<1>8. ASSUME NEW i \in 2 .. n
      PROVE  t[i] \in lower
  <2>1. t \in Surjection(1 .. n, Minimal)
    BY <1>1, <1>6 DEF Surjection, Elems
  <2>2. IsFiniteSet(1 .. n) /\ Cardinality(1 .. n) = n
    BY <1>3, FS_Interval
  <2>3. t \in Injection(1 .. n, Minimal)
    BY <2>1, <2>2, FS_SurjSameCardinalityImpliesInj DEF n
  <2>4. t[i] # t[1]
    BY <2>3, <1>3 DEF Injection, IsInjective
  <2>5. i \in 1 .. n
    BY <1>3
  <2> QED BY <2>4, <2>5, <1>6, <1>7
<1>9. s = [i \in 1 .. n |-> Written(t[i])]
  BY <1>1, <1>6
<1>10. \A i \in 1 .. n : s[i] = Written(t[i])
  BY <1>9
<1>11. \A i \in 1 .. n : Written(t[i]) \in Lit
  BY <1>0, <1>7, WrittenFacts
<1>12. s \in Seq(Lit) /\ Len(s) = n
  <2>1. s \in [1 .. n -> Lit]
    BY <1>9, <1>11
  <2> QED BY <2>1, <1>3
<1>13. s[1] = uip
  BY <1>0, <1>3, <1>5, <1>6, <1>10
<1>14. \A i \in 2 .. n : s[i] \in Lit /\ Eval(s[i]) = -1 /\ LevelOf(s[i]) \in 1 .. DecisionLevel - 1
  <2> TAKE i \in 2 .. n
  <2>1. i \in 1 .. n /\ t[i] \in lower
    BY <1>3, <1>8
  <2> QED BY <2>1, <1>10, WrittenFacts
<1>15. \A i \in 3 .. n : LevelOf(s[i]) <= LevelOf(s[2])
  <2> TAKE i \in 3 .. n
  <2>1. i \in 1 .. n /\ 2 \in 1 .. n
    BY <1>3
  <2> QED BY <2>1, <1>6, <1>10
<1>16. BackjumpLevel(s) \in Nat /\ BackjumpLevel(s) < DecisionLevel
  <2>1. CASE n < 2
    BY <2>1, <1>0, <1>12 DEF BackjumpLevel
  <2>2. CASE ~(n < 2)
    <3>1. 2 \in 2 .. n
      BY <2>2, <1>3
    <3>2. BackjumpLevel(s) = LevelOf(s[2])
      BY <2>2, <1>12 DEF BackjumpLevel
    <3> QED BY <3>1, <3>2, <1>0, <1>14
  <2> QED BY <2>1, <2>2
<1>17. Elems(s) = {Written(q) : q \in Minimal}
  <2>1. Elems(s) = {s[i] : i \in 1 .. n}
    BY <1>9 DEF Elems
  <2>2. Minimal = {t[i] : i \in 1 .. n}
    BY <1>6 DEF Elems
  <2> QED BY <2>1, <2>2, <1>10
<1> QED BY <1>3, <1>5, <1>12, <1>13, <1>14, <1>15, <1>16, <1>17

LEMMA BackjumpKeepsLearn ==
  ASSUME CoreInv, SearchInv, pc = "minimize", NEW s \in LearntOrders,
         Backtrack(BackjumpLevel(s)), learnt' = s
  PROVE  /\ TrailInv' /\ ~HasElem' /\ Prefix(Len(trail'))
         /\ level' = level /\ reason' = reason /\ LearnPart'
<1> DEFINE k == BackjumpLevel(s)
<1>0. TrailInv /\ DecisionLevel \in Nat
  BY TrailFacts DEF SearchInv
<1>1. /\ s \in Seq(Lit) /\ Len(s) \in Nat /\ Len(s) > 0
      /\ s[1] = uip
      /\ \A i \in 2 .. Len(s) :
           s[i] \in Lit /\ Eval(s[i]) = -1 /\ LevelOf(s[i]) \in 1 .. DecisionLevel - 1
      /\ \A i \in 3 .. Len(s) : LevelOf(s[i]) <= LevelOf(s[2])
      /\ k \in Nat /\ k < DecisionLevel
  BY LearntFacts
<1>2. /\ Len(s) < 2 => k = 0
      /\ ~(Len(s) < 2) => k = LevelOf(s[2])
  BY DEF BackjumpLevel
<1> HIDE DEF k
<1>3. /\ TrailInv' /\ Prefix(Len(trail')) /\ level' = level /\ reason' = reason
      /\ DecisionLevel' = k /\ ~HasElem'
      /\ \A q \in Lit : Eval(q)' = IF Eval(q) # 0 /\ LevelOf(q) > k THEN 0 ELSE Eval(q)
  BY <1>0, <1>1, BacktrackFacts DEF k
<1>4. uip \in Lit /\ Eval(uip) = -1 /\ LevelOf(uip) = DecisionLevel
  BY WrittenFacts
<1>5. Eval(s[1])' = 0
  BY <1>0, <1>1, <1>3, <1>4
<1>6. ASSUME NEW i \in 2 .. Len(s)
      PROVE  Eval(s[i])' = -1 /\ LevelOf(s[i]) <= k
  <2>1. ~(Len(s) < 2) /\ LevelOf(s[i]) \in Nat /\ s[i] \in Lit /\ Eval(s[i]) = -1
    BY <1>1
  <2>2. LevelOf(s[i]) <= k
    <3>1. CASE i = 2
      BY <3>1, <2>1, <1>1, <1>2
    <3>2. CASE i # 2
      <4>1. i \in 3 .. Len(s)
        BY <3>2, <1>1
      <4> QED BY <4>1, <2>1, <1>1, <1>2
    <3> QED BY <3>1, <3>2
  <2> QED BY <2>1, <2>2, <1>1, <1>3
<1>7. LearnPart'
  <2>1. Len(s) > 1 => LevelOf(s[2]) = k /\ k > 0
    <3> SUFFICES ASSUME Len(s) > 1 PROVE LevelOf(s[2]) = k /\ k > 0
      OBVIOUS
    <3>1. 2 \in 2 .. Len(s)
      BY <1>1
    <3> QED BY <3>1, <1>1, <1>2
  <2>2. Len(s) = 1 => k = 0
    BY <1>2
  <2>3. s # <<>>
    BY <1>1
  <2> QED BY <1>3, <1>5, <1>6, <2>1, <2>2, <2>3 DEF LearnPart, LevelOf
<1> QED BY <1>3, <1>7
-----------------------------------------------------------------------------
(***************************************************************************)
(* Steps that leave the trail, the clauses and the analysis alone.         *)
(***************************************************************************)
LEMMA AnalysisIdle ==
  ASSUME AnalysisPart, pc \notin {"capture", "minimize"},
         pc' \notin {"capture", "minimize", "learn"}, UNCHANGED captureVars
  PROVE  AnalysisPart'
BY DEF AnalysisPart, NoAnalysis, LowerPart, CapturePart, MinimizePart, LearnPart, captureVars

LEMMA TrailSame ==
  ASSUME TrailInv, UNCHANGED trailVars
  PROVE  TrailInv' /\ DecisionLevel' = DecisionLevel /\ HasElem' = HasElem /\ Prefix(Len(trail))
<1>1. TrailInv'
  BY DEF trailVars, TrailInv, TrailTypeOK, TrailIsAssignment, MarkersOrdered,
         LevelsMatchMarkers, Eval, LevelOf, DecisionLevel
<1>2. Len(trail) \in Nat
  BY TrailFacts
<1>3. trail' = trail /\ level' = level /\ reason' = reason /\ marker' = marker
  BY DEF trailVars
<1>4. Prefix(Len(trail))
  BY <1>2, <1>3 DEF Prefix
<1> QED BY <1>1, <1>4 DEF trailVars, DecisionLevel, HasElem

LEMMA ReasonsSame ==
  ASSUME CoreInv, TrailInv, ReasonPart, UNCHANGED <<trailVars, dbVars>>
  PROVE  ReasonPart'
<1>1. Live' = Live /\ lits' = lits /\ watch' = watch /\ UNCHANGED <<trail, level, reason>>
  BY DEF dbVars, trailVars, Live
<1>2. ReasonClausesKept(Len(trail))
  BY <1>1 DEF ReasonClausesKept
<1> QED BY <1>1, <1>2, TrailSame, ReasonsSteady

LEMMA QuietSearch ==
  ASSUME CoreInv, SearchInv, UNCHANGED <<trailVars, dbVars, implVars, anaVars>>,
         pc \notin {"capture", "minimize", "learn"}, pc' \notin {"capture", "minimize", "learn"},
         ControlPart'
  PROVE  SearchInv'
<1>1. TrailInv' /\ ReasonPart'
  BY TrailSame, ReasonsSame DEF SearchInv
<1>2. AnalysisPart'
  BY AnalysisIdle DEF SearchInv, anaVars
<1> QED BY <1>1, <1>2 DEF SearchInv

LEMMA NewVariableSearch == ASSUME CoreInv, SearchInv, NewVariable PROVE SearchInv'
<1>1. pc = "idle" /\ pc' = pc /\ UNCHANGED <<trailVars, dbVars, implVars, anaVars>>
  BY DEF NewVariable, ctlVars
<1>2. DecisionLevel' = DecisionLevel /\ HasElem' = HasElem
  BY TrailSame, <1>1 DEF SearchInv
<1>3. ControlPart'
  BY <1>1, <1>2 DEF NewVariable, SearchInv, ControlPart, PlacePart, LevelPart, QueuePart, ModelPart,
     Inside, Adding, Refuted, ctlVars, implVars, trailVars
<1> QED BY <1>1, <1>3, QuietSearch

LEMMA SetBudgetSearch == ASSUME CoreInv, SearchInv, NEW b \in Budgets, SetBudget(b) PROVE SearchInv'
<1>1. pc = "idle" /\ pc' = pc /\ UNCHANGED <<trailVars, dbVars, implVars, anaVars>>
  BY DEF SetBudget, ctlVars
<1>2. DecisionLevel' = DecisionLevel /\ HasElem' = HasElem
  BY TrailSame, <1>1 DEF SearchInv
<1>3. ControlPart'
  BY <1>1, <1>2 DEF SetBudget, SearchInv, ControlPart, PlacePart, LevelPart, QueuePart, ModelPart,
     Inside, Adding, Refuted, ctlVars, implVars, trailVars
<1> QED BY <1>1, <1>3, QuietSearch

LEMMA SolveSearch == ASSUME CoreInv, SearchInv, NEW A \in Assumptions, Solve(A) PROVE SearchInv'
<1>1. pc = "idle" /\ pc' = "entry" /\ UNCHANGED <<trailVars, dbVars, implVars, anaVars>>
  BY DEF Solve, GoTo
<1>2. DecisionLevel' = DecisionLevel /\ HasElem' = HasElem
  BY TrailSame, <1>1 DEF SearchInv
<1>3. ControlPart'
  BY <1>1, <1>2 DEF Solve, AllocVar, SearchInv, ControlPart, PlacePart, LevelPart, QueuePart,
     ModelPart, Inside, Adding, Refuted, implVars, trailVars
<1> QED BY <1>1, <1>3, QuietSearch

LEMMA SolveInitSearch == ASSUME CoreInv, SearchInv, SolveInit PROVE SearchInv'
<1>1. /\ pc = "entry" /\ UNCHANGED <<trailVars, dbVars, implVars, anaVars, varVars>> /\ finals' = {}
      /\ IF sane THEN pc' = "imply" /\ cont' = "init" ELSE pc' = "idle"
      /\ sane' = sane
  BY DEF SolveInit, GoTo
<1>2. DecisionLevel' = DecisionLevel /\ HasElem' = HasElem /\ pl = 0
  BY TrailSame, <1>1, PlaceFacts DEF SearchInv
<1>3. ControlPart'
  BY <1>1, <1>2 DEF SearchInv, ControlPart, PlacePart, LevelPart, QueuePart,
     ModelPart, Inside, Adding, Refuted, implVars, varVars, trailVars
<1> QED BY <1>1, <1>3, QuietSearch

LEMMA SkipSweepSearch == ASSUME CoreInv, SearchInv, SkipSweep PROVE SearchInv'
<1>1. /\ pc = "sweep" /\ UNCHANGED <<trailVars, dbVars, implVars, anaVars, varVars, sane, answerVars>>
      /\ pc' \in {"search", "reduce"}
  BY DEF SkipSweep, SweepExit, GoTo
<1>2. DecisionLevel' = DecisionLevel /\ HasElem' = HasElem /\ pl = 0
  BY TrailSame, <1>1, PlaceFacts DEF SearchInv
<1>3. ControlPart'
  BY <1>1, <1>2 DEF SearchInv, ControlPart, PlacePart, LevelPart, QueuePart,
     ModelPart, Inside, Adding, Refuted, implVars, varVars, trailVars, answerVars
<1> QED BY <1>1, <1>3, QuietSearch

LEMMA StartSearchSearch == ASSUME CoreInv, SearchInv, StartSearch PROVE SearchInv'
<1>1. /\ pc = "search" /\ UNCHANGED <<trailVars, dbVars, implVars, anaVars, varVars, sane, answerVars>>
      /\ pc' = "imply" /\ cont' = "search"
  BY DEF StartSearch, GoTo
<1>2. DecisionLevel' = DecisionLevel /\ HasElem' = HasElem /\ pl = 0
  BY TrailSame, <1>1, PlaceFacts DEF SearchInv
<1>3. ControlPart'
  BY <1>1, <1>2 DEF SearchInv, ControlPart, PlacePart, LevelPart, QueuePart,
     ModelPart, Inside, Adding, Refuted, implVars, varVars, trailVars, answerVars
<1> QED BY <1>1, <1>3, QuietSearch

LEMMA GoAheadSearch == ASSUME CoreInv, SearchInv, GoAhead PROVE SearchInv'
<1>1. /\ pc = "check" /\ UNCHANGED <<trailVars, dbVars, implVars, anaVars, varVars, sane, answerVars>>
      /\ IF DecisionLevel = 0 THEN pc' = "sweep" /\ cont' = "top" ELSE pc' = "reduce"
  BY DEF GoAhead, GoTo
<1>2. DecisionLevel' = DecisionLevel /\ HasElem' = HasElem /\ pl = 0
  BY TrailSame, <1>1, PlaceFacts DEF SearchInv
<1>3. ControlPart'
  BY <1>1, <1>2 DEF SearchInv, ControlPart, PlacePart, LevelPart, QueuePart,
     ModelPart, Inside, Adding, Refuted, implVars, varVars, trailVars, answerVars
<1> QED BY <1>1, <1>3, QuietSearch

LEMMA RestartSearch == ASSUME CoreInv, SearchInv, Restart PROVE SearchInv'
<1>1. /\ pc = "stat" /\ UNCHANGED <<trailVars, dbVars, implVars, anaVars, varVars, sane, answerVars>>
      /\ (pc' = "search" /\ stat = "unknown") \/ pc' = "finish"
  BY DEF Restart, GoTo
<1>2. DecisionLevel' = DecisionLevel /\ HasElem' = HasElem /\ pl = 0
  BY TrailSame, <1>1, PlaceFacts DEF SearchInv
<1>3. ControlPart'
  BY <1>1, <1>2 DEF SearchInv, ControlPart, PlacePart, LevelPart, QueuePart,
     ModelPart, Inside, Adding, Refuted, implVars, varVars, trailVars, answerVars
<1> QED BY <1>1, <1>3, QuietSearch

LEMMA RefuteAssumptionSearch == ASSUME CoreInv, SearchInv, RefuteAssumption PROVE SearchInv'
<1>1. /\ pc = "decide" /\ UNCHANGED <<trailVars, dbVars, implVars, anaVars, varVars, sane>>
      /\ pc' = "stat" /\ stat' = "unsat" /\ finals' # {}
  BY DEF RefuteAssumption, Assuming, Finals, GoTo
<1>2. DecisionLevel' = DecisionLevel /\ HasElem' = HasElem /\ pl = 0
  BY TrailSame, <1>1, PlaceFacts DEF SearchInv
<1>3. ControlPart'
  BY <1>1, <1>2 DEF SearchInv, ControlPart, PlacePart, LevelPart, QueuePart,
     ModelPart, Inside, Adding, Refuted, implVars, varVars, trailVars
<1> QED BY <1>1, <1>3, QuietSearch

(* An empty heap means that every decision variable has a value.           *)
LEMMA NothingToDecideSearch == ASSUME CoreInv, SearchInv, NothingToDecide PROVE SearchInv'
<1>1. /\ pc = "decide" /\ UNCHANGED <<trailVars, dbVars, implVars, anaVars, varVars, sane, finals>>
      /\ pc' = "stat" /\ stat' = "sat"
  BY DEF NothingToDecide, Deciding, GoTo
<1>2. DecisionLevel' = DecisionLevel /\ HasElem' = HasElem /\ pl = 0
  BY TrailSame, <1>1, PlaceFacts DEF SearchInv
<1>3. ASSUME NEW v \in DecVar, v <= varNum
      PROVE  val[v] # 0
  <2>1. oldVarNum = varNum
    BY <1>1 DEF SearchInv, ControlPart, PlacePart
  <2>2. heap \subseteq Assigned(heap)
    BY DEF NothingToDecide
  <2> QED BY <1>3, <2>1, <2>2 DEF CoreInv, SelPart, HeapCovers, Assigned
<1>4. ControlPart'
  BY <1>1, <1>2, <1>3 DEF SearchInv, ControlPart, PlacePart, LevelPart, QueuePart,
     ModelPart, Inside, Adding, Refuted, implVars, varVars, trailVars
<1> QED BY <1>1, <1>4, QuietSearch

(* stop(), and steps that change nothing.                                  *)
LEMMA SameKeepsSearch ==
  ASSUME CoreInv, SearchInv,
         UNCHANGED <<trailVars, dbVars, implVars, anaVars, varVars, sane, answerVars, ctlVars>>
  PROVE  SearchInv'
<1>1. TrailInv' /\ ReasonPart' /\ DecisionLevel' = DecisionLevel /\ HasElem' = HasElem
  BY TrailSame, ReasonsSame DEF SearchInv
<1>2. ControlPart'
  BY <1>1 DEF SearchInv, ControlPart, PlacePart, LevelPart, QueuePart,
     ModelPart, Inside, Adding, Refuted, implVars, varVars, trailVars, answerVars, ctlVars
<1>3. AnalysisPart'
  BY <1>1 DEF SearchInv, AnalysisPart, NoAnalysis, LowerPart, CapturePart, MinimizePart, LearnPart,
     anaVars, captureVars, ctlVars, trailVars, Among, LevelOf, Eval, AtLevel
<1> QED BY <1>1, <1>2, <1>3 DEF SearchInv

LEMMA StopSearch == ASSUME CoreInv, SearchInv, Stop PROVE SearchInv'
BY SameKeepsSearch DEF Stop

LEMMA StutterSearch == ASSUME CoreInv, SearchInv, UNCHANGED vars PROVE SearchInv'
BY SameKeepsSearch DEF vars, answerVars
-----------------------------------------------------------------------------
(***************************************************************************)
(* Steps that undo assignments or delete clauses.                          *)
(***************************************************************************)
LEMMA BacktrackKeepsReasons ==
  ASSUME CoreInv, TrailInv, ReasonPart, NEW k \in Nat, Backtrack(k), UNCHANGED dbVars
  PROVE  ReasonPart'
<1>1. TrailInv' /\ Prefix(Len(trail'))
  BY BacktrackFacts
<1>2. Len(trail') \in Nat
  BY <1>1 DEF TrailInv, TrailTypeOK
<1>3. Live' = Live /\ lits' = lits /\ watch' = watch
  BY DEF dbVars, Live
<1>4. ReasonClausesKept(Len(trail'))
  BY <1>3 DEF ReasonClausesKept
<1>5. \A i \in 1 .. Len(trail') : Justified(i)'
  BY <1>1, <1>2, <1>4, ReasonsKept
<1> QED BY <1>5 DEF ReasonPart

(* backtrack(0).                                                           *)
LEMMA ToTop ==
  ASSUME CoreInv, SearchInv, BacktrackTo(0), UNCHANGED dbVars
  PROVE  TrailInv' /\ ReasonPart' /\ DecisionLevel' = 0 /\ (~HasElem => ~HasElem')
<1>1. TrailInv /\ ReasonPart /\ Backtrack(0) /\ DecisionLevel \in Nat
  BY TrailFacts DEF SearchInv, BacktrackTo
<1>2. 0 \in Nat
  OBVIOUS
<1>3. /\ TrailInv' /\ DecisionLevel' = IF 0 < DecisionLevel THEN 0 ELSE DecisionLevel
      /\ 0 < DecisionLevel => ~HasElem'
      /\ ~(0 < DecisionLevel) => UNCHANGED trailVars
  BY <1>1, <1>2, BacktrackFacts
<1>4. ReasonPart'
  BY <1>1, <1>2, BacktrackKeepsReasons
<1>5. ~HasElem => ~HasElem'
  BY <1>3 DEF trailVars, HasElem
<1> QED BY <1>1, <1>3, <1>4, <1>5

LEMMA GiveUpSearch == ASSUME CoreInv, SearchInv, GiveUp PROVE SearchInv'
<1>1. /\ pc = "check" /\ pc' = "stat" /\ stat' = "unknown" /\ finals' = finals
      /\ BacktrackTo(0) /\ UNCHANGED <<dbVars, implVars, anaVars, varVars, sane>>
  BY DEF GiveUp, GoTo
<1>2. TrailInv' /\ ReasonPart' /\ DecisionLevel' = 0 /\ (~HasElem => ~HasElem')
  BY <1>1, ToTop
<1>3. pl = 0 /\ ~HasElem
  BY <1>1, PlaceFacts DEF SearchInv, ControlPart, QueuePart
<1>4. ControlPart'
  BY <1>1, <1>2, <1>3 DEF SearchInv, ControlPart, PlacePart, LevelPart, QueuePart,
     ModelPart, Inside, Adding, Refuted, implVars, varVars
<1>5. AnalysisPart'
  BY <1>1, AnalysisIdle DEF SearchInv, anaVars
<1> QED BY <1>2, <1>4, <1>5 DEF SearchInv

(* The model has no hole, and the solver is left at level 0.               *)
LEMMA FinishSearch == ASSUME CoreInv, SearchInv, Finish PROVE SearchInv'
<1>1. pc = "finish" /\ BacktrackTo(0) /\ UNCHANGED <<dbVars, implVars, anaVars, varVars, stat, finals>>
      /\ sane' = (sane /\ ~(stat = "unsat" /\ finals = {}))
  BY DEF Finish
<1>2. ~ModelFails
  <2>1. stat = "sat" => \A v \in DecVar : v <= varNum => val[v] # 0
    BY <1>1 DEF SearchInv, ControlPart, ModelPart
  <2> QED BY <2>1 DEF ModelFails, Model
<1>3. pc' = "idle"
  BY <1>2 DEF Finish, GoTo
<1>4. TrailInv' /\ ReasonPart' /\ DecisionLevel' = 0 /\ (~HasElem => ~HasElem')
  BY <1>1, ToTop
<1>5. pl = 0 /\ (~Refuted => ~HasElem)
  BY <1>1, PlaceFacts DEF SearchInv, ControlPart, QueuePart
<1>6. sane' => ~Refuted
  BY <1>1, Zenon DEF Refuted
<1>7. ControlPart'
  <2>1. PlacePart' /\ LevelPart' /\ ModelPart'
    BY <1>1, <1>3, <1>4 DEF PlacePart, LevelPart, ModelPart, Inside, Adding, Refuted
  <2>2. QueuePart'
    BY <1>1, <1>3, <1>4, <1>5, <1>6 DEF QueuePart, implVars, Refuted
  <2> QED BY <2>1, <2>2 DEF ControlPart
<1>8. AnalysisPart'
  BY <1>1, <1>3, AnalysisIdle DEF SearchInv, anaVars
<1> QED BY <1>4, <1>7, <1>8 DEF SearchInv

(* Clauses may be deleted as long as they are not locked.                  *)
LEMMA DetachKeepsReasons ==
  ASSUME CoreInv, TrailInv, ReasonPart, NEW D \in SUBSET Live, NEW both \in BOOLEAN,
         DetachClauses(D, both), both => DecisionLevel = 0, \A c \in D : ~Locked(c),
         UNCHANGED trailVars
  PROVE  ReasonPart'
<1>1. /\ lits' = [c \in ClauseId |-> IF c \in D THEN <<>> ELSE lits[c]]
      /\ Live' = Live \ D
      /\ watch' = [l \in Lit |-> [w \in Watcher |->
           IF \/ w \in D /\ l \in {-wl0(w), -wl1(w)}
              \/ both /\ w \in Lit /\ Eval(l) # 0 /\ Eval(w) = 1
           THEN 0 ELSE watch[l][w]]]
  BY DEF DetachClauses, Live
<1>2. Live \subseteq ClauseId
  BY DEF CoreInv, DbPart, ImplTypeOK, Live
<1>3. ASSUME NEW c \in Live, NEW j \in 1 .. Len(trail),
             reason[VarOf(trail[j])] = c, wl0(c) = trail[j]
      PROVE  c \in Live' /\ lits'[c] = lits[c]
  BY <1>1, <1>2, <1>3 DEF Locked
<1>4. ASSUME NEW a \in Lit, NEW b \in Lit, DecisionLevel > 0, watch[a][b] > 0
      PROVE  watch'[a][b] > 0
  <2>1. ~both /\ b \notin D /\ b \in Watcher
    BY <1>2, <1>4, WatcherKinds
  <2>2. watch'[a][b] = watch[a][b]
    BY <1>1, <2>1
  <2> QED BY <1>4, <2>2
<1>5. ReasonClausesKept(Len(trail))
  BY <1>3, <1>4 DEF ReasonClausesKept
<1> QED BY <1>5, TrailSame, ReasonsSteady DEF trailVars

LEMMA ReduceSearch == ASSUME CoreInv, SearchInv, Reduce PROVE SearchInv'
<1>1. /\ pc = "reduce" /\ pc' = "decide"
      /\ UNCHANGED <<trailVars, implVars, anaVars, varVars, sane, answerVars>>
  BY DEF Reduce, GoTo
<1>2. TrailInv' /\ DecisionLevel' = DecisionLevel /\ HasElem' = HasElem /\ pl = 0
  BY <1>1, TrailSame, PlaceFacts DEF SearchInv
<1>3. ReasonPart'
  <2>1. CASE UNCHANGED dbVars
    BY <1>1, <2>1, ReasonsSame DEF SearchInv
  <2>2. ASSUME NEW F \in SUBSET learnts, NEW E \in SUBSET learnts,
               DetachClauses({c \in F \cup E : ~Locked(c)}, FALSE)
        PROVE  ReasonPart'
    <3> DEFINE D == {c \in F \cup E : ~Locked(c)}
    <3>1. D \in SUBSET Live /\ FALSE \in BOOLEAN /\ \A c \in D : ~Locked(c)
      BY DEF Live
    <3>2. DetachClauses(D, FALSE)
      BY <2>2
    <3> HIDE DEF D
    <3> QED BY <1>1, <3>1, <3>2, DetachKeepsReasons DEF SearchInv
  <2> QED BY <2>1, <2>2 DEF Reduce
<1>4. ControlPart'
  BY <1>1, <1>2 DEF SearchInv, ControlPart, PlacePart, LevelPart, QueuePart,
     ModelPart, Inside, Adding, Refuted, implVars, varVars, trailVars, answerVars
<1>5. AnalysisPart'
  BY <1>1, AnalysisIdle DEF SearchInv, anaVars
<1> QED BY <1>2, <1>3, <1>4, <1>5 DEF SearchInv

LEMMA SweepSearch == ASSUME CoreInv, SearchInv, Sweep PROVE SearchInv'
<1>1. /\ pc = "sweep" /\ pc' \in {"search", "reduce"}
      /\ UNCHANGED <<trailVars, implVars, anaVars, varVars, sane, answerVars>>
      /\ DetachClauses(Sweepable, TRUE)
  BY DEF Sweep, SweepExit, GoTo
<1>2. TrailInv' /\ DecisionLevel' = DecisionLevel /\ HasElem' = HasElem /\ pl = 0 /\ DecisionLevel = 0
  BY <1>1, TrailSame, PlaceFacts DEF SearchInv, ControlPart, LevelPart
<1>3. ReasonPart'
  <2>1. Sweepable \in SUBSET Live /\ TRUE \in BOOLEAN /\ \A c \in Sweepable : ~Locked(c)
    BY DEF Sweepable
  <2> QED BY <1>1, <1>2, <2>1, DetachKeepsReasons DEF SearchInv
<1>4. ControlPart'
  BY <1>1, <1>2 DEF SearchInv, ControlPart, PlacePart, LevelPart, QueuePart,
     ModelPart, Inside, Adding, Refuted, implVars, varVars, trailVars, answerVars
<1>5. AnalysisPart'
  BY <1>1, AnalysisIdle DEF SearchInv, anaVars
<1> QED BY <1>2, <1>3, <1>4, <1>5 DEF SearchInv

LEMMA ImplicationDoneSearch == ASSUME CoreInv, SearchInv, ImplicationDone PROVE SearchInv'
<1>1. /\ pc = "imply" /\ EndImplication
      /\ UNCHANGED <<anaVars, varVars, sane, answerVars>>
  BY DEF ImplicationDone
<1>2. UNCHANGED <<trailVars, dbVars>> /\ pl' = 0 /\ ~HasElem
  BY <1>1 DEF EndImplication, Quiescent
<1>3. /\ cont = "add" => pc' = "idle"
      /\ cont = "init" => pc' = "sweep" /\ cont' = "init"
      /\ cont \notin {"add", "init"} => pc' = "check"
  <2>1. CASE cont = "add"
    BY <2>1 DEF ImplicationDone, GoTo
  <2>2. CASE cont = "init"
    BY <2>2 DEF ImplicationDone, GoTo
  <2>3. CASE cont \notin {"add", "init"}
    BY <2>3 DEF ImplicationDone, GoTo
  <2> QED BY <2>1, <2>2, <2>3
<1>4. TrailInv' /\ ReasonPart' /\ DecisionLevel' = DecisionLevel /\ HasElem' = HasElem
  BY <1>2, TrailSame, ReasonsSame DEF SearchInv
<1>5. ControlPart'
  BY <1>1, <1>2, <1>3, <1>4 DEF SearchInv, ControlPart, PlacePart, LevelPart, QueuePart,
     ModelPart, Inside, Adding, Refuted, varVars, trailVars, answerVars
<1>6. AnalysisPart'
  BY <1>1, <1>3, AnalysisIdle DEF SearchInv, anaVars
<1> QED BY <1>4, <1>5, <1>6 DEF SearchInv
-----------------------------------------------------------------------------
(***************************************************************************)
(* Decisions and conflict analysis.                                        *)
(***************************************************************************)
LEMMA GrownKeepsReasons ==
  ASSUME CoreInv, TrailInv, ReasonPart, NEW l \in Lit, NEW k \in Nat, NEW r \in Reason,
         Grown(l, k, r), ReasonClausesKept(Len(trail)),
         NEW n \in Nat, n = Len(trail) + 1, Justified(n)'
  PROVE  ReasonPart'
<1>1. Len(trail) \in Nat /\ Len(trail') = n /\ Prefix(Len(trail))
  BY TrailFacts DEF Grown
<1>2. \A i \in 1 .. Len(trail) : Justified(i)'
  BY <1>1, ReasonsKept
<1>3. \A i \in 1 .. n : i \in 1 .. Len(trail) \/ i = n
  BY <1>1
<1>4. \A i \in 1 .. n : Justified(i)'
  BY <1>2, <1>3
<1> QED BY <1>1, <1>4 DEF ReasonPart

LEMMA SameClauses ==
  ASSUME UNCHANGED dbVars, NEW n
  PROVE  ReasonClausesKept(n)
BY DEF ReasonClausesKept, dbVars, Live

(* A decision opens its level.                                             *)
LEMMA DecideKeepsReasons ==
  ASSUME CoreInv, TrailInv, ReasonPart, ~HasElem, NEW l \in Lit, Eval(l) = 0, Decide(l),
         UNCHANGED dbVars
  PROVE  TrailInv' /\ ReasonPart' /\ DecisionLevel' = DecisionLevel + 1
<1>1. /\ TrailInv' /\ Grown(l, DecisionLevel + 1, None)
      /\ DecisionLevel' = DecisionLevel + 1
      /\ marker' = Append(marker, Len(trail))
  BY DecideFacts
<1>2. /\ Len(trail) \in Nat /\ DecisionLevel \in Nat /\ DecisionLevel + 1 \in Nat
      /\ Len(marker) = DecisionLevel + 1 /\ marker \in Seq(Nat) /\ None \in Reason
  BY TrailFacts, ReasonKinds DEF TrailInv, TrailTypeOK
<1>3. /\ trail'[Len(trail) + 1] = l /\ level'[VarOf(l)] = DecisionLevel + 1
      /\ reason'[VarOf(l)] = None
  BY <1>1 DEF Grown
<1>4. marker'[(DecisionLevel + 1) + 1] = Len(trail)
  BY <1>1, <1>2
<1>5. None \notin ClauseId /\ None \notin Lit
  BY WatcherKinds DEF None
<1>6. PICK n \in Nat : n = Len(trail) + 1
  BY <1>2
<1>7. ReasonPart'
  <2>1. Justified(n)'
    BY <1>3, <1>4, <1>5, <1>6 DEF Justified, LevelOf
  <2> QED BY <1>1, <1>2, <1>6, <2>1, SameClauses, GrownKeepsReasons
<1> QED BY <1>1, <1>7

LEMMA DecisionSearch ==
  ASSUME CoreInv, SearchInv, pc = "decide", NEW l \in Lit, Eval(l) = 0, Decide(l),
         pc' = "imply", cont' = "search",
         UNCHANGED <<dbVars, implVars, anaVars, varVars, sane, answerVars>>
  PROVE  SearchInv'
<1>1. ~HasElem /\ pl = 0 /\ TrailInv /\ ReasonPart
  BY PlaceFacts DEF SearchInv, ControlPart, QueuePart
<1>2. TrailInv' /\ ReasonPart' /\ DecisionLevel' = DecisionLevel + 1
  BY <1>1, DecideKeepsReasons
<1>3. ControlPart'
  BY <1>1 DEF SearchInv, ControlPart, PlacePart, LevelPart, QueuePart,
     ModelPart, Inside, Adding, Refuted, implVars, varVars, answerVars
<1>4. AnalysisPart'
  BY AnalysisIdle DEF SearchInv, anaVars
<1> QED BY <1>2, <1>3, <1>4 DEF SearchInv

LEMMA DecideAssumptionSearch == ASSUME CoreInv, SearchInv, DecideAssumption PROVE SearchInv'
<1>1. Assumed \in Lit
  BY AssumedIsLit DEF DecideAssumption
<1> QED BY <1>1, DecisionSearch DEF DecideAssumption, Assuming, GoTo

(* A free decision is about an unassigned decision variable.               *)
LEMMA FreeDecision ==
  ASSUME CoreInv, TrailInv, NEW v \in heap \ Assigned(heap), NEW s \in PhasesOf(v)
  PROVE  s * v \in Lit /\ Eval(s * v) = 0
<1>1. v \in Var /\ val[v] = 0 /\ v \in Int /\ v # 0 /\ v > 0
  BY ClientAssumption DEF CoreInv, SelPart, Assigned, Var
<1>2. s \in {-1, 1}
  <2>1. prev[v] \in {-1, 0, 1}
    BY <1>1 DEF CoreInv, SelPart, Bool3
  <2> QED BY <2>1, ParamAssumption DEF PhasesOf
<1>3. (s * v = v \/ s * v = -v) /\ v \in Lit /\ -v \in Lit
  BY <1>1, <1>2, SizeAssumption DEF Var, Lit
<1>4. Eval(v) = 0 /\ Eval(-v) = 0
  <2>1. VarOf(v) = v /\ VarOf(-v) = v
    BY <1>1 DEF VarOf
  <2>2. val \in [Var -> Bool3]
    BY DEF TrailInv, TrailTypeOK
  <2> QED BY <1>1, <1>3, <2>1, <2>2, ValueFacts DEF Eval
<1> QED BY <1>3, <1>4

LEMMA DecideFreeSearch == ASSUME CoreInv, SearchInv, DecideFree PROVE SearchInv'
<1>0. PICK v \in heap \ Assigned(heap) : \E s \in PhasesOf(v) : Decide(s * v)
  BY DEF DecideFree
<1>1. PICK s \in PhasesOf(v) : Decide(s * v)
  BY <1>0
<1>2. s * v \in Lit /\ Eval(s * v) = 0
  BY FreeDecision DEF SearchInv
<1>3. /\ pc = "decide" /\ pc' = "imply" /\ cont' = "search"
      /\ UNCHANGED <<dbVars, implVars, anaVars, varVars, sane, answerVars>>
  BY DEF DecideFree, Deciding, GoTo
<1> QED BY <1>1, <1>2, <1>3, DecisionSearch

LEMMA SkipAssumptionSearch == ASSUME CoreInv, SearchInv, SkipAssumption PROVE SearchInv'
<1>1. /\ pc = "decide" /\ SetMarker /\ pc' = pc
      /\ UNCHANGED <<dbVars, implVars, anaVars, varVars, sane, answerVars>>
  BY DEF SkipAssumption, Assuming, ctlVars
<1>2. ~HasElem /\ pl = 0 /\ TrailInv /\ ReasonPart
  BY <1>1, PlaceFacts DEF SearchInv, ControlPart, QueuePart
<1>3. /\ TrailInv' /\ Prefix(Len(trail))
      /\ trail' = trail /\ level' = level /\ reason' = reason /\ head' = head
  BY <1>1, <1>2, SetMarkerFacts
<1>4. ReasonPart'
  BY <1>1, <1>2, <1>3, SameClauses, ReasonsSteady
<1>5. ControlPart'
  BY <1>1, <1>2, <1>3 DEF SearchInv, ControlPart, PlacePart, LevelPart, QueuePart,
     ModelPart, Inside, Adding, Refuted, implVars, varVars, answerVars, HasElem
<1>6. AnalysisPart'
  BY <1>1, AnalysisIdle DEF SearchInv, anaVars
<1> QED BY <1>3, <1>4, <1>5, <1>6 DEF SearchInv

LEMMA CaptureSearch == ASSUME CoreInv, SearchInv, Capture PROVE SearchInv'
<1>1. pc = "capture" /\ UNCHANGED <<trailVars, dbVars, implVars, varVars, sane, answerVars>>
  BY DEF Capture
<1>2. PICK i \in 1 .. last : \/ ResolveAt(i) /\ GoTo("capture", cont)
                             \/ FoundUIP(i) /\ GoTo("minimize", cont)
  BY <1>1, CaptureSucceeds DEF Capture
<1>3. AnalysisPart' /\ pc' \in {"capture", "minimize"}
  BY <1>1, <1>2, ResolveKeepsAnalysis, FoundKeepsAnalysis DEF GoTo
<1>4. TrailInv' /\ ReasonPart' /\ DecisionLevel' = DecisionLevel /\ HasElem' = HasElem /\ pl = 0
  BY <1>1, TrailSame, ReasonsSame, PlaceFacts DEF SearchInv
<1>5. ControlPart'
  BY <1>1, <1>3, <1>4 DEF SearchInv, ControlPart, PlacePart, LevelPart, QueuePart,
     ModelPart, Inside, Adding, Refuted, implVars, varVars, trailVars, answerVars
<1> QED BY <1>3, <1>4, <1>5 DEF SearchInv

LEMMA BackjumpSearch == ASSUME CoreInv, SearchInv, Backjump PROVE SearchInv'
<1>1. /\ pc = "minimize" /\ pc' = "learn"
      /\ UNCHANGED <<dbVars, implVars, varVars, sane, answerVars>>
      /\ EndAnalysis
  BY DEF Backjump, GoTo
<1>2. PICK s \in LearntOrders : learnt' = s /\ Backtrack(BackjumpLevel(s))
  BY DEF Backjump, BacktrackTo
<1>3. TrailInv' /\ ~HasElem' /\ LearnPart'
  BY <1>1, <1>2, BackjumpKeepsLearn
<1>4. ReasonPart' /\ pl = 0
  <2>1. BackjumpLevel(s) \in Nat
    BY <1>1, LearntFacts
  <2> QED BY <1>1, <1>2, <2>1, BacktrackKeepsReasons, PlaceFacts DEF SearchInv
<1>5. ControlPart'
  BY <1>1, <1>3, <1>4 DEF SearchInv, ControlPart, PlacePart, LevelPart, QueuePart,
     ModelPart, Inside, Adding, Refuted, implVars, varVars, answerVars
<1>6. AnalysisPart'
  <2>1. NoAnalysis'
    BY <1>1 DEF EndAnalysis, NoAnalysis
  <2>2. LowerPart'
    BY <1>1 DEF EndAnalysis, LowerPart
  <2> QED BY <1>1, <1>3, <2>1, <2>2 DEF AnalysisPart, CapturePart, MinimizePart
<1> QED BY <1>3, <1>4, <1>5, <1>6 DEF SearchInv
-----------------------------------------------------------------------------
(***************************************************************************)
(* Implied literals.                                                       *)
(***************************************************************************)

(* A literal implied by a binary clause.                                   *)
LEMMA JustifiedByLit ==
  ASSUME TrailInv, NEW l \in Lit, NEW r \in Lit, NEW k \in Nat, NEW n \in Nat,
         n = Len(trail) + 1, Grown(l, k, r), Eval(l) = 0, Eval(r) = -1,
         k > 0 => watch'[-r][l] > 0 /\ LevelOf(r) = k
  PROVE  Justified(n)'
<1>1. /\ trail'[n] = l /\ level'[VarOf(l)] = k /\ reason'[VarOf(l)] = r
      /\ Prefix(n - 1) /\ n - 1 = Len(trail) /\ n - 1 \in Nat
      /\ \A v \in Var : v # VarOf(l) => level'[v] = level[v]
  BY TrailFacts DEF Grown
<1>2. r # None /\ r \notin ClauseId
  BY WatcherKinds, LitFacts DEF None
<1>3. VarOf(r) # VarOf(l) /\ VarOf(r) \in Var
  <2>1. l # r /\ l # -r
    <3>1. Eval(-r) = 1
      BY TrueIsOnTrail
    <3> QED BY <3>1
  <2> QED BY <2>1, SameVar, LitFacts
<1>4. \E j \in 1 .. n - 1 : trail'[j] = -r
  <2>1. PICK j \in 1 .. n - 1 : trail[j] = -r
    BY <1>1, TrueIsOnTrail DEF Among
  <2> QED BY <2>1, <1>1 DEF Prefix
<1>5. level'[VarOf(r)] = level[VarOf(r)]
  BY <1>1, <1>3
<1> QED BY <1>1, <1>2, <1>4, <1>5 DEF Justified, Antecedents, LevelOf, Among

(* A literal implied by a longer clause, whose second literal is of the    *)
(* current level.                                                          *)
LEMMA JustifiedByClause ==
  ASSUME TrailInv, NEW l \in Lit, NEW c \in ClauseId, NEW k \in Nat, NEW n \in Nat,
         n = Len(trail) + 1, Grown(l, k, c), Eval(l) = 0,
         NEW s \in Seq(Lit), Len(s) > 1, s[1] = l, c \in Live', lits'[c] = s,
         \A i \in 2 .. Len(s) : Eval(s[i]) = -1, LevelOf(s[2]) = k
  PROVE  Justified(n)'
<1>1. /\ trail'[n] = l /\ level'[VarOf(l)] = k /\ reason'[VarOf(l)] = c
      /\ Prefix(n - 1) /\ n - 1 = Len(trail) /\ n - 1 \in Nat
      /\ \A v \in Var : v # VarOf(l) => level'[v] = level[v]
  BY TrailFacts DEF Grown
<1>2. c # None /\ c \notin Lit
  BY WatcherKinds DEF None
<1>3. ASSUME NEW q \in Elems(s), q # l
      PROVE  q \in Lit /\ Eval(q) = -1 /\ Among(-q, n - 1)'
  <2>1. PICK i \in 1 .. Len(s) : q = s[i]
    BY DEF Elems
  <2>2. i \in 2 .. Len(s) /\ q \in Lit
    BY <1>3, <2>1
  <2>3. Eval(q) = -1
    BY <2>1, <2>2
  <2>4. PICK j \in 1 .. n - 1 : trail[j] = -q
    BY <1>1, <2>2, <2>3, TrueIsOnTrail DEF Among
  <2>5. trail'[j] = -q
    BY <2>4, <1>1 DEF Prefix
  <2> QED BY <2>2, <2>3, <2>5 DEF Among
<1>4. s[2] \in Elems(s) /\ s[2] # l /\ s[2] \in Lit
  BY DEF Elems
<1>5. level'[VarOf(s[2])] = k
  <2>1. VarOf(s[2]) # VarOf(l) /\ VarOf(s[2]) \in Var
    <3>1. l # s[2] /\ l # -s[2]
      <4>1. Eval(s[2]) = -1
        BY <1>3, <1>4
      <4>2. Eval(-s[2]) = 1
        BY <1>4, <4>1, TrueIsOnTrail
      <4> QED BY <4>1, <4>2
    <3> QED BY <3>1, <1>4, SameVar, LitFacts
  <2> QED BY <2>1, <1>1 DEF LevelOf
<1>6. Antecedents(c)' = Elems(s) \ {l} /\ wl0(c)' = l
  BY <1>2 DEF Antecedents, wl0
<1>7. \A q \in Elems(s) \ {l} : Among(-q, n - 1)'
  BY <1>3
<1>8. \E q \in Elems(s) \ {l} : level'[VarOf(q)] = k
  BY <1>4, <1>5
<1> QED BY <1>1, <1>2, <1>6, <1>7, <1>8 DEF Justified, LevelOf

(* A clause with a true literal in front may not be reordered.             *)
LEMMA RewriteKeepsReasons ==
  ASSUME CoreInv, TrailInv, NEW c \in Live, NEW s, lits' = [lits EXCEPT ![c] = s],
         Eval(wl0(c)) = 1 => s = lits[c], constr' = constr, learnts' = learnts,
         \A a, b \in Lit : watch'[a][b] = watch[a][b]
  PROVE  ReasonClausesKept(Len(trail))
<1>1. Live' = Live /\ lits \in [ClauseId -> Seq(Lit)] /\ Live \subseteq ClauseId
  BY DEF CoreInv, DbPart, ImplTypeOK, Live
<1>2. ASSUME NEW d \in Live, NEW j \in 1 .. Len(trail), wl0(d) = trail[j]
      PROVE  lits'[d] = lits[d]
  <2>1. Eval(wl0(d)) = 1
    BY <1>2 DEF TrailInv, TrailIsAssignment
  <2> QED BY <2>1, <1>1
<1> QED BY <1>1, <1>2 DEF ReasonClausesKept

LEMMA OrientedMore ==
  ASSUME DbPart, NEW c \in Live, pl \in Lit, pl = -wl0(c) \/ pl = -wl1(c)
  PROVE  /\ Elems(Oriented(c)) = Elems(lits[c])
         /\ wl0(c) # -pl => Oriented(c) = lits[c]
<1>1. /\ lits[c] \in Seq(Lit) /\ Len(lits[c]) \in Nat /\ Len(lits[c]) >= 3
  BY ClauseFacts
<1>2. wl0(c) # -pl => Oriented(c) = lits[c]
  BY DEF Oriented
<1> DEFINE s == lits[c]
           u == Swapped(s, 1, 2)
<1>3. Elems(u) = Elems(s)
  <2>1. 1 \in 1 .. Len(s) /\ 2 \in 1 .. Len(s)
    BY <1>1
  <2>2. /\ u \in Seq(Lit) /\ Len(u) = Len(s) /\ u[2] = s[1] /\ u[1] = s[2]
        /\ \A k \in 1 .. Len(s) : k # 1 /\ k # 2 => u[k] = s[k]
    BY <1>1, <2>1, SwappedFacts
  <2>3. DOMAIN u = 1 .. Len(s) /\ DOMAIN s = 1 .. Len(s)
    BY <1>1, <2>2
  <2> HIDE DEF u, s
  <2>4. \A k \in 1 .. Len(s) : (\E m \in 1 .. Len(s) : u[k] = s[m]) /\ (\E m \in 1 .. Len(s) : s[k] = u[m])
    <3>1. ASSUME NEW k \in 1 .. Len(s)
          PROVE  (\E m \in 1 .. Len(s) : u[k] = s[m]) /\ (\E m \in 1 .. Len(s) : s[k] = u[m])
      <4>1. CASE k = 1
        BY <2>1, <2>2, <4>1
      <4>2. CASE k = 2
        BY <2>1, <2>2, <4>2
      <4>3. CASE k # 1 /\ k # 2
        BY <2>2, <4>3
      <4> QED BY <4>1, <4>2, <4>3
    <3> QED BY <3>1
  <2>5. Elems(u) = {u[k] : k \in 1 .. Len(s)} /\ Elems(s) = {s[k] : k \in 1 .. Len(s)}
    BY <2>3 DEF Elems
  <2> QED BY <2>4, <2>5
<1> QED BY <1>2, <1>3 DEF Oriented

(* The literal whose list is read is true and of the current level.        *)
LEMMA ReadFacts ==
  ASSUME CoreInv, SearchInv, NEW w \in Watcher, todo[w] > 0
  PROVE  /\ pc = "imply" /\ cont # "init" /\ pl # 0
         /\ pl \in Lit /\ -pl \in Lit /\ -(-pl) = pl /\ Eval(pl) = 1 /\ Eval(-pl) = -1
         /\ LevelOf(-pl) = DecisionLevel
         /\ head \in 1 .. Len(trail) /\ trail[head] = pl
         /\ head > marker[Len(marker)]
         /\ watch[pl][w] > 0
         /\ w \in ClauseId =>
              /\ w \in Live /\ (pl = -wl0(w) \/ pl = -wl1(w))
              /\ Eval(wl0(w)) = 1 => Oriented(w) = lits[w]
<1>1. /\ pl \in Lit /\ watch[pl][w] > 0
      /\ w \in ClauseId => w \in Live /\ (pl = -wl0(w) \/ pl = -wl1(w))
  BY TakenFacts DEF CoreInv
<1>2. pl # 0 /\ -pl \in Lit /\ -(-pl) = pl /\ VarOf(-pl) = VarOf(pl)
  BY <1>1, LitFacts
<1>3. pc = "imply" /\ cont # "init"
  BY <1>2 DEF CoreInv, Reading, SearchInv, ControlPart, QueuePart
<1>4. TrailInv /\ head > marker[Len(marker)] /\ trail[head] = pl
  BY <1>2 DEF SearchInv, ControlPart, QueuePart
<1>5. /\ head \in 1 .. Len(trail) /\ Len(marker) = DecisionLevel + 1 /\ DecisionLevel \in 0 .. DecisionLevel
      /\ LevelOf(trail[head]) \in 0 .. DecisionLevel
  <2>1. /\ head \in Nat /\ head <= Len(trail) /\ Len(trail) \in Nat
        /\ Len(marker) = DecisionLevel + 1 /\ DecisionLevel \in Nat
        /\ \A k \in 1 .. DecisionLevel + 1 : marker[k] \in Nat
    BY <1>4, TrailFacts
  <2>2. marker[Len(marker)] \in Nat
    BY <2>1
  <2>3. head \in 1 .. Len(trail)
    BY <2>1, <2>2, <1>4
  <2> QED BY <2>1, <2>3, <1>4, TrailFacts
<1>6. LevelOf(pl) = DecisionLevel
  BY <1>4, <1>5, AboveMarker
<1>7. Eval(pl) = 1 /\ Eval(-pl) = -1
  BY <1>1, <1>4, <1>5, TrueIsOnTrail DEF Among
<1>8. w \in ClauseId /\ Eval(wl0(w)) = 1 => Oriented(w) = lits[w]
  <2> SUFFICES ASSUME w \in ClauseId, Eval(wl0(w)) = 1 PROVE Oriented(w) = lits[w]
    OBVIOUS
  <2>1. wl0(w) # -pl
    BY <1>7
  <2> QED BY <1>1, <2>1, OrientedMore DEF CoreInv
<1> QED BY <1>1, <1>2, <1>3, <1>4, <1>5, <1>6, <1>7, <1>8 DEF LevelOf

(* What a step of implication() leaves.                                    *)
PropagateLeaves ==
  /\ TrailInv' /\ ReasonPart' /\ DecisionLevel' = DecisionLevel
  /\ pl' # 0 => head' > marker'[Len(marker')] /\ trail'[head'] = pl'

LEMMA NextLiteralLeaves ==
  ASSUME CoreInv, SearchInv, NextLiteral
  PROVE  PropagateLeaves
<1>1. TrailInv /\ ReasonPart
  BY DEF SearchInv
<1>2. GetNext /\ UNCHANGED dbVars /\ pl' = trail[head + 1]
  BY DEF NextLiteral
<1>3. UNCHANGED <<val, level, reason, trail, marker>> /\ head' = head + 1
  BY <1>2 DEF GetNext
<1>4. /\ Len(trail) \in Nat /\ head \in Nat /\ Len(marker) = DecisionLevel + 1
      /\ DecisionLevel \in Nat /\ \A k \in 1 .. DecisionLevel + 1 : marker[k] \in Nat
  BY <1>1, TrailFacts
<1>5. marker[Len(marker)] <= head /\ marker[Len(marker)] \in Nat
  <2>1. Len(marker) \in 1 .. Len(marker)
    BY <1>4
  <2> QED BY <1>1, <1>4, <2>1 DEF TrailInv, MarkersOrdered
<1>6. TrailInv'
  BY <1>1, <1>2, GetNextKeepsInv
<1>7. Prefix(Len(trail))
  BY <1>3, <1>4 DEF Prefix
<1>8. ReasonPart'
  BY <1>1, <1>2, <1>3, <1>7, SameClauses, ReasonsSteady
<1> QED BY <1>2, <1>3, <1>4, <1>5, <1>6, <1>8 DEF PropagateLeaves, DecisionLevel

(* A watcher is read and nothing is assigned.                              *)
LEMMA ReadLeaves ==
  ASSUME CoreInv, SearchInv, NEW w \in Watcher, todo[w] > 0, UNCHANGED trailVars, pl' = pl,
         ReasonClausesKept(Len(trail))
  PROVE  PropagateLeaves
<1>1. TrailInv' /\ DecisionLevel' = DecisionLevel /\ Prefix(Len(trail)) /\ TrailInv /\ ReasonPart
  BY TrailSame DEF SearchInv
<1>2. ReasonPart'
  BY <1>1, ReasonsSteady DEF trailVars
<1> QED BY <1>1, <1>2, ReadFacts DEF PropagateLeaves, trailVars

(* A watcher is read and l is assigned.                                    *)
LEMMA AssignLeaves ==
  ASSUME CoreInv, SearchInv, NEW w \in Watcher, todo[w] > 0, pl' = pl,
         NEW l \in Lit, NEW r \in Reason, Eval(l) = 0, Assign(l, r),
         ReasonClausesKept(Len(trail)),
         NEW n \in Nat, n = Len(trail) + 1, Justified(n)'
  PROVE  PropagateLeaves
<1>0. TrailInv /\ ReasonPart /\ DecisionLevel \in Nat
  BY TrailFacts DEF SearchInv
<1>1. /\ TrailInv' /\ Grown(l, DecisionLevel, r)
      /\ marker' = marker /\ DecisionLevel' = DecisionLevel
  BY <1>0, AssignFacts
<1>2. ReasonPart'
  BY <1>0, <1>1, GrownKeepsReasons
<1>3. head \in 1 .. Len(trail) /\ trail[head] = pl /\ head > marker[Len(marker)]
  BY ReadFacts
<1>4. trail'[head] = trail[head] /\ head' = head
  BY <1>1, <1>3 DEF Grown, Prefix
<1> QED BY <1>1, <1>2, <1>3, <1>4 DEF PropagateLeaves

LEMMA BinaryLeaves ==
  ASSUME CoreInv, SearchInv, NEW w \in Lit, todo[w] > 0, SkipBinary(w) \/ ImplyBinary(w)
  PROVE  PropagateLeaves
<1>0. w \in Watcher /\ TrailInv
  BY WatcherKinds DEF SearchInv
<1>1. CASE SkipBinary(w)
  <2>1. UNCHANGED trailVars /\ UNCHANGED dbVars /\ pl' = pl
    BY <1>1 DEF SkipBinary, Take
  <2> QED BY <1>0, <2>1, SameClauses, ReadLeaves
<1>2. CASE ImplyBinary(w)
  <2>1. Eval(w) = 0 /\ Assign(w, -pl) /\ UNCHANGED dbVars /\ pl' = pl
    BY <1>2 DEF ImplyBinary, Take
  <2>2. /\ -pl \in Lit /\ -(-pl) = pl /\ Eval(-pl) = -1 /\ LevelOf(-pl) = DecisionLevel
        /\ watch[pl][w] > 0
    BY <1>0, ReadFacts
  <2>3. -pl \in Reason /\ DecisionLevel \in Nat
    BY <1>0, <2>2, ReasonKinds, TrailFacts
  <2>4. PICK n \in Nat : n = Len(trail) + 1
    BY <1>0, TrailFacts
  <2>5. Grown(w, DecisionLevel, -pl)
    BY <1>0, <2>1, <2>3, AssignFacts
  <2>6. watch'[-(-pl)][w] > 0
    BY <2>1, <2>2 DEF dbVars
  <2>7. Justified(n)'
    BY <1>0, <2>1, <2>2, <2>3, <2>4, <2>5, <2>6, JustifiedByLit
  <2> QED BY <1>0, <2>1, <2>3, <2>4, <2>7, SameClauses, AssignLeaves
<1> QED BY <1>1, <1>2

LEMMA ClauseLeaves ==
  ASSUME CoreInv, SearchInv, NEW c \in ClauseId, todo[c] > 0,
         SkipClause(c) \/ MoveWatch(c) \/ ImplyClause(c)
  PROVE  PropagateLeaves
<1>0. c \in Watcher /\ TrailInv /\ DbPart /\ watch \in [Lit -> [Watcher -> Nat]]
  BY WatcherKinds DEF SearchInv, CoreInv, DbPart, ImplTypeOK
<1>1. /\ c \in Live /\ pl \in Lit /\ (pl = -wl0(c) \/ pl = -wl1(c))
      /\ Eval(wl0(c)) = 1 => Oriented(c) = lits[c]
      /\ Eval(-pl) = -1 /\ LevelOf(-pl) = DecisionLevel
  BY <1>0, ReadFacts
<1> DEFINE s == Oriented(c)
<1>2. s \in Seq(Lit) /\ Len(s) = Len(lits[c]) /\ s[1] \in Lit /\ s[2] = -pl /\ Len(s) >= 3
      /\ Len(s) \in Nat
  BY <1>0, <1>1, OrientedFacts, ClauseFacts
<1>3. CASE SkipClause(c)
  <2>1. UNCHANGED trailVars /\ lits' = [lits EXCEPT ![c] = s] /\ UNCHANGED <<constr, learnts, watch>>
        /\ pl' = pl
    BY <1>3 DEF SkipClause, Take
  <2> HIDE DEF s
  <2>2. ReasonClausesKept(Len(trail))
    BY <1>0, <1>1, <2>1, RewriteKeepsReasons DEF s
  <2> QED BY <1>0, <2>1, <2>2, ReadLeaves
<1>4. CASE MoveWatch(c)
  <2>1. PICK i \in 3 .. Len(lits[c]) :
          /\ lits' = [lits EXCEPT ![c] = Swapped(s, 2, i)]
          /\ watch' = Moved(c, -s[i])
    BY <1>4 DEF MoveWatch
  <2>2. UNCHANGED trailVars /\ UNCHANGED <<constr, learnts>> /\ pl' = pl /\ Eval(s[1]) # 1
    BY <1>4 DEF MoveWatch, Take
  <2>3. Eval(wl0(c)) # 1
    BY <1>1, <2>2 DEF wl0
  <2>4. \A a, b \in Lit : watch'[a][b] = watch[a][b]
    <3> TAKE a, b \in Lit
    <3>1. c \notin Lit /\ b # c /\ b \in Watcher
      BY WatcherKinds
    <3>2. s[i] \in Lit /\ -s[i] \in Lit
      BY <1>2, ElementOfSeq, LitFacts
    <3> HIDE DEF s
    <3> QED BY <1>0, <1>1, <2>1, <3>1, <3>2 DEF Moved
  <2> HIDE DEF s
  <2>5. ReasonClausesKept(Len(trail))
    BY <1>0, <1>1, <2>1, <2>2, <2>3, <2>4, RewriteKeepsReasons
  <2> QED BY <1>0, <2>2, <2>5, ReadLeaves
<1>5. CASE ImplyClause(c)
  <2>1. /\ Assign(s[1], c) /\ lits' = [lits EXCEPT ![c] = s] /\ UNCHANGED <<constr, learnts, watch>>
        /\ pl' = pl /\ Eval(s[1]) = 0 /\ NoReplacement(s)
    BY <1>5 DEF ImplyClause, Take
  <2> HIDE DEF s
  <2>2. ReasonClausesKept(Len(trail))
    BY <1>0, <1>1, <2>1, RewriteKeepsReasons DEF s
  <2>3. \A i \in 2 .. Len(s) : Eval(s[i]) = -1
    <3> TAKE i \in 2 .. Len(s)
    <3>1. CASE i = 2
      BY <3>1, <1>1, <1>2
    <3>2. CASE i # 2
      <4>1. i \in 3 .. Len(s)
        BY <3>2, <1>2
      <4> QED BY <4>1, <2>1 DEF NoReplacement
    <3> QED BY <3>1, <3>2
  <2>4. c \in Live' /\ lits'[c] = s
    BY <1>0, <1>1, <2>1 DEF Live, DbPart, ImplTypeOK
  <2>5. PICK n \in Nat : n = Len(trail) + 1
    BY <1>0, TrailFacts
  <2>6. c \in Reason /\ DecisionLevel \in Nat
    BY <1>0, ReasonKinds, TrailFacts
  <2>7. Grown(s[1], DecisionLevel, c)
    BY <1>0, <1>2, <2>1, <2>6, AssignFacts
  <2>8. Justified(n)'
    <3>1. Len(s) > 1 /\ LevelOf(s[2]) = DecisionLevel /\ Eval(s[1]) = 0 /\ s[1] \in Lit
          /\ s \in Seq(Lit)
      BY <1>1, <1>2, <2>1
    <3> DEFINE l == s[1]
               k == DecisionLevel
    <3>2. /\ l \in Lit /\ s[1] = l /\ Eval(l) = 0 /\ Grown(l, k, c) /\ k \in Nat
          /\ LevelOf(s[2]) = k
      BY <3>1, <2>6, <2>7
    <3> HIDE DEF l, k
    <3> QED BY <1>0, <2>3, <2>4, <2>5, <3>1, <3>2, JustifiedByClause
  <2> QED BY <1>0, <1>2, <2>1, <2>2, <2>5, <2>6, <2>8, AssignLeaves
<1> QED BY <1>3, <1>4, <1>5

LEMMA PropagateSearch == ASSUME CoreInv, SearchInv, PropagateStep PROVE SearchInv'
<1>1. /\ pc = "imply" /\ Propagate
      /\ UNCHANGED <<anaVars, varVars, sane, answerVars, ctlVars>>
  BY DEF PropagateStep
<1>2. PropagateLeaves
  <2>1. CASE NextLiteral
    BY <2>1, NextLiteralLeaves
  <2>2. ASSUME NEW w \in Watcher, todo[w] > 0,
               IF w \in Lit THEN SkipBinary(w) \/ ImplyBinary(w)
               ELSE SkipClause(w) \/ MoveWatch(w) \/ ImplyClause(w)
        PROVE  PropagateLeaves
    <3>1. CASE w \in Lit
      BY <2>2, <3>1, BinaryLeaves
    <3>2. CASE w \notin Lit
      BY <2>2, <3>2, ClauseLeaves DEF Watcher
    <3> QED BY <3>1, <3>2
  <2> QED BY <1>1, <2>1, <2>2 DEF Propagate
<1>3. cont # "init"
  <2>1. CASE NextLiteral
    BY <1>1, <2>1 DEF NextLiteral, GetNext, SearchInv, ControlPart, QueuePart
  <2>2. CASE ~NextLiteral
    <3>1. PICK w \in Watcher : todo[w] > 0
      BY <1>1, <2>2 DEF Propagate
    <3> QED BY <3>1, ReadFacts
  <2> QED BY <2>1, <2>2
<1>4. ControlPart'
  BY <1>1, <1>2, <1>3 DEF SearchInv, ControlPart, PlacePart, LevelPart, QueuePart,
     ModelPart, Inside, Adding, Refuted, varVars, answerVars, ctlVars, PropagateLeaves
<1>5. AnalysisPart'
  BY <1>1, AnalysisIdle DEF SearchInv, anaVars, ctlVars
<1> QED BY <1>2, <1>4, <1>5 DEF SearchInv, PropagateLeaves

(* A conflict is a false clause with a literal of the current level.       *)
LEMMA ConflictFacts ==
  ASSUME CoreInv, SearchInv, NEW w \in Watcher, Conflict(w)
  PROVE  /\ ConflictLits(w) \in SUBSET Lit
         /\ \A q \in ConflictLits(w) : Eval(q) = -1
         /\ -pl \in ConflictLits(w) /\ LevelOf(-pl) = DecisionLevel
         /\ ReasonClausesKept(Len(trail))
         /\ UNCHANGED trailVars /\ pl' = 0 /\ todo[w] > 0
<1>0. /\ todo[w] > 0 /\ UNCHANGED trailVars /\ pl' = 0 /\ ConflictAt(w)
      /\ UNCHANGED <<constr, learnts, watch>>
      /\ lits' = IF w \in Lit THEN lits ELSE [lits EXCEPT ![w] = Oriented(w)]
  BY DEF Conflict, ConflictAt
<1>1. /\ -pl \in Lit /\ Eval(-pl) = -1 /\ LevelOf(-pl) = DecisionLevel /\ pl \in Lit
  BY <1>0, ReadFacts
<1>2. CASE w \in Lit
  <2>1. Eval(w) = -1 /\ ConflictLits(w) = {w, -pl}
    BY <1>0, <1>2 DEF ConflictAt, ConflictLits
  <2>2. ReasonClausesKept(Len(trail))
    BY <1>0, <1>2, SameClauses DEF dbVars
  <2> QED BY <1>0, <1>1, <1>2, <2>1, <2>2
<1>3. CASE w \notin Lit
  <2>0. w \in ClauseId /\ DbPart /\ TrailInv
    BY <1>3 DEF Watcher, CoreInv, SearchInv
  <2> DEFINE s == Oriented(w)
  <2>1. /\ w \in Live /\ (pl = -wl0(w) \/ pl = -wl1(w))
        /\ Eval(wl0(w)) = 1 => s = lits[w]
    BY <2>0, <1>0, ReadFacts
  <2>2. /\ s \in Seq(Lit) /\ Len(s) >= 3 /\ Len(s) \in Nat /\ s[2] = -pl
        /\ Elems(s) = Elems(lits[w])
    BY <2>0, <2>1, <1>1, OrientedFacts, OrientedMore, ClauseFacts
  <2>3. Eval(s[1]) = -1 /\ NoReplacement(s) /\ ConflictLits(w) = Elems(lits[w])
    BY <1>0, <1>3 DEF ConflictAt, ConflictLits
  <2>4. lits' = [lits EXCEPT ![w] = s]
    BY <1>0, <1>3
  <2> HIDE DEF s
  <2>5. ReasonClausesKept(Len(trail))
    BY <1>0, <2>0, <2>1, <2>4, RewriteKeepsReasons
  <2>6. ASSUME NEW i \in 1 .. Len(s)
        PROVE  Eval(s[i]) = -1 /\ s[i] \in Lit
    <3>1. CASE i = 1
      BY <3>1, <2>2, <2>3
    <3>2. CASE i = 2
      BY <3>2, <1>1, <2>2
    <3>3. CASE i # 1 /\ i # 2
      <4>1. i \in 3 .. Len(s)
        BY <3>3, <2>2
      <4> QED BY <4>1, <2>2, <2>3 DEF NoReplacement
    <3> QED BY <3>1, <3>2, <3>3
  <2>7. Elems(s) = {s[i] : i \in 1 .. Len(s)} /\ 2 \in 1 .. Len(s)
    BY <2>2 DEF Elems
  <2> QED BY <1>0, <1>1, <2>2, <2>3, <2>5, <2>6, <2>7
<1> QED BY <1>2, <1>3

LEMMA ConflictSearch == ASSUME CoreInv, SearchInv, ConflictStep PROVE SearchInv'
<1>1. PICK w \in Watcher :
        /\ Conflict(w)
        /\ IF cont = "search" /\ DecisionLevel > 0
             THEN StartAnalysis(ConflictLits(w))
             ELSE UNCHANGED anaVars
  BY DEF ConflictStep
<1>2. /\ \A q \in ConflictLits(w) : Eval(q) = -1
      /\ -pl \in ConflictLits(w) /\ LevelOf(-pl) = DecisionLevel
      /\ ReasonClausesKept(Len(trail))
      /\ UNCHANGED trailVars /\ pl' = 0 /\ todo[w] > 0
      /\ ConflictLits(w) \in SUBSET Lit
  BY <1>1, ConflictFacts
<1>3. pc = "imply" /\ cont # "init" /\ UNCHANGED <<varVars, finals>>
  BY <1>2, ReadFacts DEF ConflictStep
<1>4. /\ cont = "add" => pc' = "idle" /\ sane' = FALSE
      /\ cont = "search" /\ DecisionLevel = 0 => pc' = "stat" /\ stat' = "unsat" /\ UNCHANGED sane
      /\ cont = "search" /\ DecisionLevel # 0 => pc' = "capture" /\ UNCHANGED sane
      /\ cont \in {"add", "search"}
  <2>0. cont \in {"add", "search"}
    BY <1>3 DEF SearchInv, ControlPart, PlacePart
  <2>1. CASE cont = "add"
    <3>1. GoTo("idle", "none") /\ sane' = FALSE
      BY <2>1 DEF ConflictStep
    <3> QED BY <2>0, <2>1, <3>1 DEF GoTo
  <2>2. CASE cont = "search" /\ DecisionLevel = 0
    <3>1. GoTo("stat", "none") /\ stat' = "unsat" /\ UNCHANGED sane
      BY <2>2 DEF ConflictStep
    <3> QED BY <2>0, <2>2, <3>1 DEF GoTo
  <2>3. CASE cont = "search" /\ DecisionLevel # 0
    <3>1. GoTo("capture", "none") /\ UNCHANGED sane
      BY <2>3 DEF ConflictStep
    <3> QED BY <2>0, <2>3, <3>1 DEF GoTo
  <2> QED BY <2>0, <2>1, <2>2, <2>3
<1>5. /\ TrailInv' /\ DecisionLevel' = DecisionLevel /\ HasElem' = HasElem /\ Prefix(Len(trail))
      /\ TrailInv /\ DecisionLevel \in Nat
  BY <1>2, TrailSame, TrailFacts DEF SearchInv
<1>6. ReasonPart'
  BY <1>2, <1>5, ReasonsSteady DEF SearchInv, trailVars
<1>7. ControlPart'
  <2>1. PlacePart' /\ ModelPart'
    <3>1. PlacePart /\ sane
      BY <1>3, Zenon DEF SearchInv, ControlPart, PlacePart, Inside
    <3>2. oldVarNum' = varNum'
      BY <1>3, <3>1 DEF PlacePart, varVars
    <3>3. CASE cont = "add"
      BY <1>4, <3>2, <3>3 DEF PlacePart, ModelPart, Inside, Adding
    <3>4. CASE cont = "search"
      <4>1. sane' /\ (pc' = "capture" \/ (pc' = "stat" /\ stat' = "unsat"))
        <5>1. CASE DecisionLevel = 0
          BY <1>4, <3>1, <3>4, <5>1, Zenon
        <5>2. CASE DecisionLevel # 0
          BY <1>4, <3>1, <3>4, <5>2, Zenon
        <5> QED BY <5>1, <5>2
      <4>2. finals' = {}
        BY <1>3, <3>1, <3>4 DEF PlacePart, Adding
      <4> QED BY <3>2, <4>1, <4>2 DEF PlacePart, ModelPart, Inside, Adding
    <3> QED BY <1>4, <3>3, <3>4
  <2>2. LevelPart' /\ QueuePart'
    BY <1>2, <1>3, <1>4, <1>5 DEF SearchInv, ControlPart, PlacePart, LevelPart, QueuePart, Refuted, Adding
  <2> QED BY <2>1, <2>2 DEF ControlPart
<1>8. AnalysisPart'
  <2>1. CASE cont = "search" /\ DecisionLevel # 0
    <3>1. StartAnalysis(ConflictLits(w)) /\ pc' = "capture"
      BY <1>1, <1>4, <1>5, <2>1
    <3>2. resolving' = ConflictLits(w) /\ last' = Len(trail)
          /\ mark' = mark /\ lower' = lower /\ count' = count
      BY <3>1 DEF StartAnalysis
    <3>3. mark = {} /\ lower = {} /\ count = 0
      BY <1>3 DEF SearchInv, AnalysisPart, NoAnalysis
    <3>4. \A q \in resolving' : Among(-q, last)'
      <4> TAKE q \in resolving'
      <4>1. q \in Lit /\ Eval(q) = -1
        BY <1>2, <3>2
      <4>2. Among(-q, Len(trail))
        BY <1>5, <4>1, TrueIsOnTrail
      <4> QED BY <4>2, <1>2, <3>2 DEF Among, trailVars
    <3>5. AtLevel(mark, DecisionLevel)' = {}
      BY <3>2, <3>3 DEF AtLevel
    <3>6. Cardinality({}) = 0
      BY FS_EmptySet
    <3>7. \E q \in resolving' : level'[VarOf(q)] = DecisionLevel' /\ VarOf(q) \notin mark'
      BY <1>2, <1>5, <3>2, <3>3 DEF LevelOf, trailVars
    <3>8. CapturePart'
      BY <3>2, <3>3, <3>4, <3>5, <3>6, <3>7 DEF CapturePart, LevelOf, Among
    <3>9. LowerPart'
      BY <3>2, <3>3 DEF LowerPart
    <3> QED BY <3>1, <3>8, <3>9 DEF AnalysisPart, MinimizePart, LearnPart
  <2>2. CASE ~(cont = "search" /\ DecisionLevel # 0)
    <3>1. UNCHANGED captureVars /\ pc' \in {"idle", "stat"}
      BY <1>1, <1>4, <1>5, <2>2 DEF anaVars
    <3> QED BY <1>3, <3>1, AnalysisIdle DEF SearchInv
  <2> QED BY <2>1, <2>2
<1> QED BY <1>5, <1>6, <1>7, <1>8 DEF SearchInv

(* New clauses and watchers leave the others alone.                        *)
LEMMA AttachKeepsReasons ==
  ASSUME CoreInv, NEW s \in Seq(Lit),
         \/ AttachBinary(s)
         \/ \E c \in ClauseId :
              FreshId(c) /\ AttachClause(c, s) /\ Live' = Live \cup {c}
  PROVE  \A n : ReasonClausesKept(n)
<1>0. watch \in [Lit -> [Watcher -> Nat]] /\ lits \in [ClauseId -> Seq(Lit)] /\ Live \subseteq ClauseId
  BY DEF CoreInv, DbPart, ImplTypeOK, Live
<1>1. ASSUME NEW l1, NEW w1, NEW l2, NEW w2, NEW a \in Lit, NEW b \in Lit, watch[a][b] > 0
      PROVE  AddWatchers(l1, w1, l2, w2)[a][b] > 0
  <2>1. b \in Watcher /\ watch[a][b] \in Nat
    BY <1>0, WatcherKinds
  <2> QED BY <1>1, <2>1 DEF AddWatchers
<1>2. CASE AttachBinary(s)
  <2>1. Live' = Live /\ lits' = lits /\ watch' = AddWatchers(-s[1], s[2], -s[2], s[1])
    BY <1>2 DEF AttachBinary, Live
  <2> QED BY <1>1, <2>1 DEF ReasonClausesKept
<1>3. ASSUME NEW c \in ClauseId, FreshId(c), AttachClause(c, s), Live' = Live \cup {c}
      PROVE  \A n : ReasonClausesKept(n)
  <2>1. lits' = [lits EXCEPT ![c] = s] /\ watch' = AddWatchers(-s[1], c, -s[2], c) /\ c \notin Live
    BY <1>3 DEF AttachClause, FreshId
  <2>2. \A d \in Live : d \in Live' /\ lits'[d] = lits[d]
    BY <1>0, <1>3, <2>1
  <2>3. \A a, b \in Lit : watch[a][b] > 0 => watch'[a][b] > 0
    BY <1>1, <2>1
  <2> QED BY <2>2, <2>3 DEF ReasonClausesKept
<1> QED BY <1>2, <1>3

LEMMA LearnSearch == ASSUME CoreInv, SearchInv, Learn PROVE SearchInv'
<1>1. /\ pc = "learn" /\ UNCHANGED <<implVars, captureVars, varVars, sane, answerVars>>
      /\ TrailInv /\ ReasonPart /\ LearnPart /\ pl = 0
      /\ DbPart /\ learnt \in Seq(Lit) /\ Len(learnt) \in Nat
  BY PlaceFacts DEF Learn, SearchInv, AnalysisPart, CoreInv, AnaPart, AnaTypeOK
<1>2. /\ learnt # <<>> /\ Eval(learnt[1]) = 0
      /\ \A i \in 2 .. Len(learnt) : Eval(learnt[i]) = -1
      /\ Len(learnt) > 1 => LevelOf(learnt[2]) = DecisionLevel /\ DecisionLevel > 0
      /\ Len(learnt) = 1 => DecisionLevel = 0
  BY <1>1 DEF LearnPart
<1>3. /\ CASE Len(learnt) = 1 -> LearnUnit(learnt[1])
           [] Len(learnt) = 2 -> LearnBinary(learnt)
           [] OTHER           -> LearnLong(learnt)
      /\ pc' = "imply" /\ cont' = "search"
  BY <1>2 DEF Learn, GoTo
<1>4. Len(learnt) \in Nat /\ Len(learnt) > 0
  BY <1>1, <1>2
<1> DEFINE l == learnt[1]
<1>5. l \in Lit /\ Eval(l) = 0
  BY <1>1, <1>2, <1>4
<1>6. PICK n \in Nat : n = Len(trail) + 1
  BY <1>1, TrailFacts
<1>7. DecisionLevel \in Nat
  BY <1>1, TrailFacts
<1> HIDE DEF l
<1>8. \E r \in Reason : Assign(l, r) /\ ReasonClausesKept(Len(trail)) /\ Justified(n)'
  <2>1. CASE Len(learnt) = 1
    <3>1. Assign(l, None) /\ UNCHANGED dbVars
      BY <1>2, <1>3, <2>1 DEF LearnUnit, l
    <3>2. Grown(l, DecisionLevel, None) /\ DecisionLevel = 0
      BY <1>1, <1>2, <1>5, <2>1, <3>1, ReasonKinds, AssignFacts
    <3>3. trail'[n] = l /\ level'[VarOf(l)] = 0 /\ reason'[VarOf(l)] = None
      BY <1>6, <3>2 DEF Grown
    <3>4. Justified(n)'
      BY <3>3, WatcherKinds DEF Justified, LevelOf, None
    <3> QED BY <3>1, <3>4, ReasonKinds, SameClauses
  <2>2. CASE Len(learnt) = 2
    <3> DEFINE r == learnt[2]
               k == DecisionLevel
    <3>1. AttachBinary(learnt) /\ Assign(l, r)
      BY <1>3, <2>2 DEF LearnBinary, l
    <3>2. r \in Lit /\ Eval(r) = -1 /\ LevelOf(r) = k /\ k \in Nat
      BY <1>1, <1>2, <1>7, <2>2
    <3>3. watch'[-r][l] > 0
      <4>1. watch' = AddWatchers(-l, r, -r, l) /\ watch \in [Lit -> [Watcher -> Nat]]
        BY <1>1, <3>1 DEF AttachBinary, l, DbPart, ImplTypeOK
      <4>2. -r \in Lit /\ l \in Watcher /\ watch[-r][l] \in Nat
        BY <4>1, <3>2, <1>5, LitFacts, WatcherKinds
      <4> HIDE DEF r
      <4> QED BY <4>1, <4>2 DEF AddWatchers
    <3> HIDE DEF r, k
    <3>4. r \in Reason
      BY <3>2, ReasonKinds
    <3>5. Grown(l, k, r)
      BY <1>1, <1>5, <3>1, <3>4, AssignFacts DEF k
    <3>6. Justified(n)'
      BY <1>1, <1>5, <1>6, <3>2, <3>3, <3>5, JustifiedByLit
    <3>7. ReasonClausesKept(Len(trail))
      BY <1>1, <3>1, AttachKeepsReasons
    <3> QED BY <3>1, <3>4, <3>6, <3>7
  <2>3. CASE Len(learnt) # 1 /\ Len(learnt) # 2
    <3> DEFINE k == DecisionLevel
    <3>1. LearnLong(learnt)
      BY <1>3, <2>3
    <3>2. PICK c \in ClauseId : /\ FreshId(c) /\ AttachClause(c, learnt)
                                /\ learnts' = learnts \cup {c} /\ UNCHANGED constr
                                /\ Assign(l, c)
      BY <3>1 DEF LearnLong, l
    <3>3. Live' = Live \cup {c} /\ lits'[c] = learnt
      <4>1. lits \in [ClauseId -> Seq(Lit)]
        BY <1>1 DEF DbPart, ImplTypeOK
      <4> QED BY <3>2, <4>1 DEF Live, AttachClause
    <3>4. Len(learnt) > 1 /\ LevelOf(learnt[2]) = k /\ k \in Nat /\ learnt[1] = l
      <4>1. Len(learnt) \in Nat /\ Len(learnt) # 0
        BY <1>4
      <4>2. Len(learnt) # 1 /\ Len(learnt) # 2
        BY <2>3
      <4>3. Len(learnt) >= 3
        BY <4>1, <4>2, ThreeOrMore
      <4>4. Len(learnt) > 1
        BY <4>1, <4>3
      <4> QED BY <1>2, <1>7, <4>4 DEF l
    <3> HIDE DEF k
    <3>5. c \in Reason /\ c \in Live'
      BY <3>3, ReasonKinds
    <3>6. Grown(l, k, c)
      BY <1>1, <1>5, <3>2, <3>5, AssignFacts DEF k
    <3>7. Justified(n)'
      BY <1>1, <1>2, <1>5, <1>6, <3>3, <3>4, <3>5, <3>6, JustifiedByClause
    <3>8. ReasonClausesKept(Len(trail))
      BY <1>1, <3>2, <3>3, AttachKeepsReasons
    <3> QED BY <3>2, <3>5, <3>7, <3>8
  <2> QED BY <2>1, <2>2, <2>3
<1>9. PICK r \in Reason : Assign(l, r) /\ ReasonClausesKept(Len(trail)) /\ Justified(n)'
  BY <1>8
<1>10. TrailInv' /\ Grown(l, DecisionLevel, r)
  BY <1>1, <1>5, <1>9, AssignFacts
<1>11. ReasonPart'
  BY <1>1, <1>5, <1>6, <1>7, <1>9, <1>10, GrownKeepsReasons
<1>12. ControlPart'
  BY <1>1, <1>3 DEF SearchInv, ControlPart, PlacePart, LevelPart, QueuePart,
     ModelPart, Inside, Adding, Refuted, implVars, varVars, answerVars
<1>13. AnalysisPart'
  BY <1>1, <1>3, AnalysisIdle DEF SearchInv
<1> QED BY <1>10, <1>11, <1>12, <1>13 DEF SearchInv
-----------------------------------------------------------------------------
(***************************************************************************)
(* add_clause().                                                           *)
(***************************************************************************)

(* The loop of add_clause() keeps the literals that are not false.         *)
LEMMA CompactedFacts ==
  ASSUME NEW s0 \in Seq(Lit), NEW s \in Compacted(s0)
  PROVE  s \in Seq(Lit) /\ Elems(s) = {l \in Elems(s0) : Eval(l) # -1}
<1> DEFINE kept == {i \in DOMAIN s0 : Eval(s0[i]) # -1}
           n == Cardinality(kept)
<1>1. DOMAIN s0 = 1 .. Len(s0) /\ Len(s0) \in Nat
  OBVIOUS
<1>2. n \in Nat /\ IsFiniteSet(kept) /\ kept \in SUBSET (1 .. Len(s0))
  <2>1. IsFiniteSet(1 .. Len(s0)) /\ kept \in SUBSET (1 .. Len(s0))
    BY <1>1, FS_Interval
  <2> HIDE DEF kept
  <2>2. IsFiniteSet(kept)
    BY <2>1, FS_Subset
  <2> QED BY <2>1, <2>2, FS_CardinalityType
<1>3. PICK f \in [1 .. n -> kept] :
        /\ \A i, j \in 1 .. n : i < j => f[i] < f[j]
        /\ s = [k \in 1 .. n |-> s0[f[k]]]
  BY DEF Compacted
<1>4. \A x \in kept : \E k \in 1 .. n : f[k] = x
  <2> DEFINE R == {f[k] : k \in 1 .. n}
             I == 1 .. n
  <2>1. f \in Injection(I, R)
    <3>1. f \in [I -> R]
      BY <1>3
    <3>2. ASSUME NEW i \in I, NEW j \in I, f[i] = f[j]
          PROVE  i = j
      <4>1. f[i] \in Int /\ f[j] \in Int
        <5> HIDE DEF kept, n
        <5>1. f[i] \in kept /\ f[j] \in kept
          BY <1>3
        <5>2. \A x \in kept : x \in Int
          BY <1>1, <1>2
        <5> QED BY <5>1, <5>2
      <4>2. ~(i < j) /\ ~(j < i)
        BY <1>3, <3>2, <4>1
      <4> HIDE DEF n
      <4> QED BY <1>2, <4>2
    <3> QED BY <3>1, <3>2 DEF Injection, IsInjective
  <2>2. f \in Surjection(I, R)
    BY <1>3 DEF Surjection
  <2>3. IsFiniteSet(I) /\ Cardinality(I) = n
    <3> HIDE DEF n
    <3> QED BY <1>2, FS_Interval
  <2>4. Cardinality(R) = n
    <3>1. f \in Bijection(I, R)
      BY <2>1, <2>2 DEF Bijection
    <3> HIDE DEF R, I, n
    <3> QED BY <2>3, <3>1, FS_Bijection DEF ExistsBijection
  <2>5. R \in SUBSET kept
    BY <1>3
  <2>6. R = kept
    <3> HIDE DEF R
    <3> QED BY <1>2, <2>4, <2>5, FS_Subset
  <2> QED BY <2>6
<1>5. \A k \in 1 .. n : s[k] = s0[f[k]] /\ f[k] \in kept
  BY <1>3
<1>6. s \in Seq(Lit) /\ DOMAIN s = 1 .. n
  BY <1>3, CompactedAreSeqs
<1>7. Elems(s) = {s[k] : k \in 1 .. n} /\ Elems(s0) = {s0[i] : i \in 1 .. Len(s0)}
  BY <1>1, <1>6 DEF Elems
<1>8. ASSUME NEW l \in Elems(s)
      PROVE  l \in Elems(s0) /\ Eval(l) # -1
  <2>1. PICK k \in 1 .. n : l = s[k]
    BY <1>7
  <2> QED BY <2>1, <1>1, <1>5, <1>7
<1>9. ASSUME NEW l \in Elems(s0), Eval(l) # -1
      PROVE  l \in Elems(s)
  <2>1. PICK i \in kept : l = s0[i]
    BY <1>1, <1>7, <1>9
  <2>2. PICK k \in 1 .. n : f[k] = i
    BY <1>4
  <2> QED BY <2>1, <2>2, <1>5, <1>7
<1> QED BY <1>6, <1>8, <1>9

(* The unit clause left over, if one is, is open.                          *)
LEMMA AddClauseCases ==
  ASSUME CoreInv, TrailInv, NEW i \in DOMAIN Menu, AddClause(i)
  PROVE  \/ AddTrue
         \/ AddEmpty
         \/ \E l \in Lit : Eval(l) = 0 /\ AddUnit(l)
         \/ \E s \in Seq(Lit) : AddBinary(s) \/ AddLong(s)
<1>1. Menu[i] \in Seq(Lit)
  BY ClientAssumption
<1>2. CASE \E l \in Elems(Menu[i]) : Eval(l) = 1
  BY <1>2 DEF AddClause
<1>3. CASE ~\E l \in Elems(Menu[i]) : Eval(l) = 1
  <2>1. PICK s \in Compacted(Menu[i]) :
          CASE Len(s) = 0 -> AddEmpty
            [] Len(s) = 1 -> AddUnit(s[1])
            [] Len(s) = 2 -> AddBinary(s)
            [] OTHER      -> AddLong(s)
    BY <1>3 DEF AddClause
  <2>2. s \in Seq(Lit) /\ Elems(s) = {l \in Elems(Menu[i]) : Eval(l) # -1}
    BY <1>1, CompactedFacts
  <2>3. CASE Len(s) = 1
    <3>1. s[1] \in Lit /\ s[1] \in Elems(s)
      BY <2>2, <2>3 DEF Elems
    <3>2. Eval(s[1]) = 0
      BY <1>3, <2>2, <3>1, TrueIsOnTrail
    <3> QED BY <2>1, <2>3, <3>1, <3>2
  <2>4. CASE Len(s) # 1
    BY <2>1, <2>2, <2>4
  <2> QED BY <2>3, <2>4
<1> QED BY <1>2, <1>3

LEMMA AddClauseSearch ==
  ASSUME CoreInv, SearchInv, NEW i \in DOMAIN Menu, AddClause(i)
  PROVE  SearchInv'
<1>1. /\ pc = "idle" /\ sane /\ AllocVar
      /\ UNCHANGED <<implVars, anaVars, finals>>
  BY DEF AddClause
<1>2. /\ TrailInv /\ ReasonPart /\ DecisionLevel = 0 /\ ~HasElem /\ pl = 0
  BY <1>1, PlaceFacts DEF SearchInv, ControlPart, LevelPart, QueuePart
<1>3. /\ TrailInv' /\ ReasonPart' /\ DecisionLevel' = 0
      /\ \/ pc' = "idle" /\ (sane' => ~HasElem')
         \/ pc' = "imply" /\ cont' = "add" /\ sane' = sane
  <2>1. CASE AddTrue \/ AddEmpty
    <3>1. UNCHANGED <<trailVars, dbVars>> /\ pc' = "idle"
      BY <2>1 DEF AddTrue, AddEmpty, GoTo
    <3> QED BY <1>2, <3>1, TrailSame, ReasonsSame
  <2>2. ASSUME NEW l \in Lit, Eval(l) = 0, AddUnit(l)
        PROVE  <1>3!:
    <3>1. Assign(l, None) /\ UNCHANGED dbVars /\ pc' = "imply" /\ cont' = "add" /\ sane' = sane
      BY <2>2 DEF AddUnit, GoTo
    <3>2. TrailInv' /\ Grown(l, 0, None) /\ DecisionLevel' = 0
      BY <1>2, <2>2, <3>1, ReasonKinds, AssignFacts
    <3>3. PICK n \in Nat : n = Len(trail) + 1
      BY <1>2, TrailFacts
    <3>4. trail'[n] = l /\ level'[VarOf(l)] = 0 /\ reason'[VarOf(l)] = None
      BY <3>2, <3>3 DEF Grown
    <3>5. Justified(n)'
      BY <3>4, WatcherKinds DEF Justified, LevelOf, None
    <3>6. ReasonPart'
      BY <1>2, <3>1, <3>2, <3>3, <3>5, ReasonKinds, SameClauses, GrownKeepsReasons
    <3> QED BY <3>1, <3>2, <3>6
  <2>3. ASSUME NEW s \in Seq(Lit), AddBinary(s) \/ AddLong(s)
        PROVE  <1>3!:
    <3>1. UNCHANGED trailVars /\ pc' = "idle"
      BY <2>3 DEF AddBinary, AddLong, GoTo
    <3>2. \/ AttachBinary(s)
          \/ \E c \in ClauseId :
              FreshId(c) /\ AttachClause(c, s) /\ Live' = Live \cup {c}
      <4>1. CASE AddBinary(s)
        BY <4>1 DEF AddBinary
      <4>2. CASE AddLong(s)
        <5>1. PICK c \in ClauseId : FreshId(c) /\ AttachClause(c, s) /\ constr' = constr \cup {c}
          BY <4>2 DEF AddLong
        <5>2. Live' = Live \cup {c}
          BY <4>2, <5>1 DEF AddLong, Live
        <5> QED BY <5>1, <5>2
      <4> QED BY <2>3, <4>1, <4>2
    <3>3. ReasonClausesKept(Len(trail))
      BY <3>2, AttachKeepsReasons
    <3>4. TrailInv' /\ DecisionLevel' = DecisionLevel /\ HasElem' = HasElem /\ Prefix(Len(trail))
      BY <1>2, <3>1, TrailSame
    <3>5. ReasonPart'
      BY <1>2, <3>1, <3>3, <3>4, ReasonsSteady DEF trailVars
    <3> QED BY <1>2, <3>1, <3>4, <3>5
  <2> QED BY <1>2, <2>1, <2>2, <2>3, AddClauseCases
<1>4. ControlPart'
  <2>1. oldVarNum' = varNum' /\ pl' = 0 /\ finals' = finals
    BY <1>1, <1>2 DEF AllocVar, implVars
  <2>2. CASE pc' = "idle" /\ (sane' => ~HasElem')
    BY <1>3, <2>1, <2>2 DEF ControlPart, PlacePart, LevelPart, QueuePart, ModelPart,
                            Inside, Adding, Refuted
  <2>3. CASE pc' = "imply" /\ cont' = "add" /\ sane' = sane
    <3>1. sane'
      BY <1>1, <2>3, Zenon
    <3> QED BY <1>3, <2>1, <2>3, <3>1 DEF ControlPart, PlacePart, LevelPart, QueuePart, ModelPart,
                            Inside, Adding, Refuted
  <2> QED BY <1>3, <2>2, <2>3
<1>5. AnalysisPart'
  BY <1>1, <1>3, AnalysisIdle DEF SearchInv, anaVars
<1> QED BY <1>3, <1>4, <1>5 DEF SearchInv
-----------------------------------------------------------------------------
(***************************************************************************)
(* The invariant holds, and the trail's contract is kept.                  *)
(***************************************************************************)
LEMMA SearchInitOK == Init => SearchInv
<1> SUFFICES ASSUME Init PROVE SearchInv
  OBVIOUS
<1>1. TrailInv
  BY TrailInitOK DEF Init
<1>2. /\ trail = <<>> /\ head = 0 /\ marker = <<0>>
      /\ pl = 0 /\ pc = "idle" /\ lower = {} /\ mark = {} /\ resolving = {} /\ count = 0
  BY DEF Init, TrailInit, ImplInit, AnaInit
<1>3. ReasonPart
  BY <1>2 DEF ReasonPart
<1>4. ControlPart
  BY <1>2 DEF ControlPart, PlacePart, LevelPart, QueuePart, ModelPart, Inside, Adding, Refuted,
              DecisionLevel, HasElem
<1>5. AnalysisPart
  BY <1>2 DEF AnalysisPart, NoAnalysis, LowerPart, CapturePart, MinimizePart, LearnPart
<1> QED BY <1>1, <1>3, <1>4, <1>5 DEF SearchInv

LEMMA SearchNextKeeps == CoreInv /\ SearchInv /\ [Next]_vars => SearchInv'
<1> SUFFICES ASSUME CoreInv, SearchInv, [Next]_vars PROVE SearchInv'
  OBVIOUS
<1>1. CASE UNCHANGED vars
  BY <1>1, StutterSearch
<1>2. CASE Client
  BY <1>2, NewVariableSearch, AddClauseSearch, SetBudgetSearch, SolveSearch DEF Client
<1>3. CASE Stop
  BY <1>3, StopSearch
<1>4. CASE Rest
  BY <1>4, StutterSearch DEF Rest
<1>5. CASE Search
  BY <1>5, SolveInitSearch, PropagateSearch, ConflictSearch, ImplicationDoneSearch,
     SkipSweepSearch, SweepSearch, StartSearchSearch, CaptureSearch, BackjumpSearch, LearnSearch,
     GiveUpSearch, GoAheadSearch, ReduceSearch, SkipAssumptionSearch, DecideAssumptionSearch,
     RefuteAssumptionSearch, DecideFreeSearch, NothingToDecideSearch, RestartSearch, FinishSearch
     DEF Search
<1> QED BY <1>1, <1>2, <1>3, <1>4, <1>5 DEF Next

LEMMA BacktrackIsTrailStep ==
  ASSUME TrailInv, NEW k \in Nat, Backtrack(k)
  PROVE  [TrailNext]_trailVars
<1>1. CASE k < DecisionLevel
  <2>1. k \in 0 .. DecisionLevel - 1
    BY <1>1, TrailFacts
  <2> QED BY <2>1 DEF TrailNext
<1>2. CASE ~(k < DecisionLevel)
  BY <1>2 DEF Backtrack
<1> QED BY <1>1, <1>2

LEMMA PropagateIsTrailStep ==
  ASSUME CoreInv, SearchInv, Propagate
  PROVE  [TrailNext]_trailVars
<1>1. CASE NextLiteral
  BY <1>1 DEF NextLiteral, TrailNext
<1>2. ASSUME NEW w \in Lit, SkipBinary(w) \/ ImplyBinary(w), todo[w] > 0
      PROVE  [TrailNext]_trailVars
  <2>1. -pl \in Reason
    BY <1>2, ReadFacts, ReasonKinds, WatcherKinds
  <2> QED BY <1>2, <2>1 DEF SkipBinary, ImplyBinary, TrailNext
<1>3. ASSUME NEW c \in ClauseId, SkipClause(c) \/ MoveWatch(c) \/ ImplyClause(c), todo[c] > 0
      PROVE  [TrailNext]_trailVars
  <2>1. c \in Live /\ pl \in Lit /\ (pl = -wl0(c) \/ pl = -wl1(c)) /\ DbPart
    BY <1>3, ReadFacts, WatcherKinds DEF CoreInv
  <2>2. Oriented(c)[1] \in Lit /\ c \in Reason
    BY <2>1, OrientedFacts, ReasonKinds
  <2> QED BY <1>3, <2>2 DEF SkipClause, MoveWatch, ImplyClause, TrailNext
<1> QED BY <1>1, <1>2, <1>3 DEF Propagate, Watcher

LEMMA LearnIsTrailStep ==
  ASSUME CoreInv, SearchInv, Learn
  PROVE  [TrailNext]_trailVars
<1>1. /\ pc = "learn" /\ learnt # <<>> /\ Eval(learnt[1]) = 0
      /\ learnt \in Seq(Lit)
  BY DEF Learn, SearchInv, AnalysisPart, LearnPart, CoreInv, AnaPart, AnaTypeOK
<1>2. /\ Len(learnt) = 1 => LearnUnit(learnt[1])
      /\ Len(learnt) = 2 => LearnBinary(learnt)
      /\ Len(learnt) # 1 /\ Len(learnt) # 2 => LearnLong(learnt)
  <2>1. /\ CASE Len(learnt) = 1 -> LearnUnit(learnt[1])
             [] Len(learnt) = 2 -> LearnBinary(learnt)
             [] OTHER           -> LearnLong(learnt)
        /\ TRUE
    BY <1>1 DEF Learn
  <2>2. CASE Len(learnt) = 1
    BY <2>1, <2>2
  <2>3. CASE Len(learnt) = 2
    BY <2>1, <2>3
  <2>4. CASE Len(learnt) # 1 /\ Len(learnt) # 2
    BY <2>1, <2>4
  <2> QED BY <2>2, <2>3, <2>4
<1>3. learnt[1] \in Lit
  <2>1. 1 \in 1 .. Len(learnt)
    BY <1>1
  <2> QED BY <1>1, <2>1, ElementOfSeq
<1>4. \E r \in Reason : Assign(learnt[1], r)
  <2>1. CASE Len(learnt) = 1
    BY <1>1, <1>2, <2>1, ReasonKinds DEF LearnUnit
  <2>2. CASE Len(learnt) = 2
    <3>1. learnt[2] \in Reason
      <4>1. 2 \in 1 .. Len(learnt)
        BY <2>2
      <4> QED BY <4>1, <1>1, ElementOfSeq, ReasonKinds
    <3> QED BY <1>2, <2>2, <3>1 DEF LearnBinary
  <2>3. CASE Len(learnt) # 1 /\ Len(learnt) # 2
    <3>1. LearnLong(learnt)
      BY <1>2, <2>3
    <3> QED BY <3>1, ReasonKinds DEF LearnLong
  <2> QED BY <2>1, <2>2, <2>3
<1> QED BY <1>1, <1>3, <1>4 DEF TrailNext

LEMMA AddClauseIsTrailStep ==
  ASSUME CoreInv, SearchInv, NEW i \in DOMAIN Menu, AddClause(i)
  PROVE  [TrailNext]_trailVars
<1>1. TrailInv
  BY DEF SearchInv
<1>2. ASSUME NEW l \in Lit, Eval(l) = 0, AddUnit(l)
      PROVE  [TrailNext]_trailVars
  BY <1>2, ReasonKinds DEF AddUnit, TrailNext
<1>3. ASSUME AddTrue \/ AddEmpty \/ \E s \in Seq(Lit) : AddBinary(s) \/ AddLong(s)
      PROVE  [TrailNext]_trailVars
  BY <1>3 DEF AddTrue, AddEmpty, AddBinary, AddLong
<1> QED BY <1>1, <1>2, <1>3, AddClauseCases

LEMMA DecisionIsTrailStep ==
  ASSUME CoreInv, SearchInv, DecideAssumption \/ DecideFree \/ SkipAssumption
  PROVE  [TrailNext]_trailVars
<1>1. ~HasElem /\ TrailInv
  BY DEF DecideAssumption, DecideFree, SkipAssumption, Assuming, Deciding,
         SearchInv, ControlPart, QueuePart
<1>2. CASE DecideAssumption
  BY <1>1, <1>2, AssumedIsLit DEF DecideAssumption, TrailNext
<1>3. CASE DecideFree
  <2>1. PICK v \in heap \ Assigned(heap) : \E s \in PhasesOf(v) : Decide(s * v)
    BY <1>3 DEF DecideFree
  <2>2. PICK s \in PhasesOf(v) : Decide(s * v)
    BY <2>1
  <2> QED BY <1>1, <2>2, FreeDecision DEF TrailNext
<1>4. CASE SkipAssumption
  BY <1>1, <1>4 DEF SkipAssumption, TrailNext
<1> QED BY <1>2, <1>3, <1>4

LEMMA EngineStepIsTrailStep == CoreInv /\ SearchInv /\ [Next]_vars => [TrailNext]_trailVars
<1> SUFFICES ASSUME CoreInv, SearchInv, [Next]_vars PROVE [TrailNext]_trailVars
  OBVIOUS
<1>0. TrailInv
  BY DEF SearchInv
<1>1. CASE UNCHANGED vars
  BY <1>1 DEF vars
<1>2. CASE Client
  <2>1. CASE \E i \in DOMAIN Menu : AddClause(i)
    BY <2>1, AddClauseIsTrailStep
  <2>2. CASE NewVariable \/ (\E b \in Budgets : SetBudget(b)) \/ (\E A \in Assumptions : Solve(A))
    BY <2>2 DEF NewVariable, SetBudget, Solve
  <2> QED BY <1>2, <2>1, <2>2 DEF Client
<1>3. CASE Stop \/ Rest
  BY <1>3 DEF Stop, Rest, vars
<1>4. CASE Search
  <2>1. CASE SolveInit \/ SkipSweep \/ Sweep \/ StartSearch \/ GoAhead \/ Reduce
             \/ RefuteAssumption \/ NothingToDecide \/ Restart \/ Capture
    BY <2>1 DEF SolveInit, SkipSweep, Sweep, StartSearch, GoAhead, Reduce,
                RefuteAssumption, NothingToDecide, Restart, Capture
  <2>2. CASE PropagateStep
    BY <2>2, PropagateIsTrailStep DEF PropagateStep
  <2>3. CASE ConflictStep \/ ImplicationDone
    BY <2>3 DEF ConflictStep, Conflict, ImplicationDone, EndImplication
  <2>4. CASE Learn
    BY <2>4, LearnIsTrailStep
  <2>5. CASE DecideAssumption \/ DecideFree \/ SkipAssumption
    BY <2>5, DecisionIsTrailStep
  <2>6. CASE GiveUp \/ Finish
    <3>1. Backtrack(0) /\ 0 \in Nat
      BY <2>6 DEF GiveUp, Finish, BacktrackTo
    <3> QED BY <1>0, <3>1, BacktrackIsTrailStep
  <2>7. CASE Backjump
    <3>1. PICK s \in LearntOrders : Backtrack(BackjumpLevel(s))
      BY <2>7 DEF Backjump, BacktrackTo
    <3>2. BackjumpLevel(s) \in Nat
      BY <2>7, LearntFacts DEF Backjump
    <3> QED BY <1>0, <3>1, <3>2, BacktrackIsTrailStep
  <2> QED BY <1>4, <2>1, <2>2, <2>3, <2>4, <2>5, <2>6, <2>7 DEF Search
<1> QED BY <1>1, <1>2, <1>3, <1>4 DEF Next

(* The position of an assigned variable on the trail.                      *)
LEMMA PositionIs ==
  ASSUME TrailInv, NEW q \in Lit, NEW j \in 1 .. Len(trail), VarOf(trail[j]) = VarOf(q)
  PROVE  Position(q) = j
<1>1. \E i \in 1 .. Len(trail) : VarOf(trail[i]) = VarOf(q)
  OBVIOUS
<1>2. Position(q) \in 1 .. Len(trail) /\ VarOf(trail[Position(q)]) = VarOf(q)
  BY <1>1 DEF Position
<1> QED BY <1>2 DEF TrailInv, TrailIsAssignment

LEMMA ReasonPartImplies == CoreInv /\ SearchInv => ReasonsHold
<1> SUFFICES ASSUME CoreInv, SearchInv, NEW i \in 1 .. Len(trail),
                    reason[VarOf(trail[i])] # None
             PROVE  LET r == reason[VarOf(trail[i])] IN
                    /\ r \in ClauseId => r \in Live /\ wl0(r) = trail[i]
                    /\ r \in Lit /\ LevelOf(r) > 0 => watch[-r][trail[i]] > 0
                    /\ \A q \in Antecedents(r) : Eval(q) = -1 /\ Position(q) < i
  BY DEF ReasonsHold
<1> DEFINE r == reason[VarOf(trail[i])]
<1>0. TrailInv /\ ReasonPart /\ Justified(i)
  BY DEF SearchInv, ReasonPart
<1>1. /\ Antecedents(r) \in SUBSET Lit
      /\ \A q \in Antecedents(r) :
           Among(-q, i - 1) /\ Eval(q) = -1 /\ LevelOf(q) \in 0 .. LevelOf(trail[i])
  BY <1>0, ReasonFacts
<1>2. r \in ClauseId => r \in Live /\ wl0(r) = trail[i]
  BY <1>0 DEF Justified
<1>3. r \in Lit /\ LevelOf(r) > 0 => watch[-r][trail[i]] > 0
  <2> SUFFICES ASSUME r \in Lit, LevelOf(r) > 0 PROVE watch[-r][trail[i]] > 0
    OBVIOUS
  <2>1. LevelOf(r) \in 0 .. LevelOf(trail[i]) /\ LevelOf(trail[i]) \in 0 .. DecisionLevel
    BY <1>0, <1>1, TrailFacts DEF Antecedents
  <2>2. LevelOf(trail[i]) > 0
    BY <2>1
  <2> QED BY <2>2, <1>0 DEF Justified
<1>4. ASSUME NEW q \in Antecedents(r)
      PROVE  Position(q) < i
  <2>1. i - 1 \in Nat /\ i - 1 <= Len(trail) /\ i \in Int /\ q \in Lit /\ Among(-q, i - 1)
    BY <1>0, <1>1, TrailFacts
  <2>2. PICK j \in 1 .. i - 1 : j \in 1 .. Len(trail) /\ VarOf(trail[j]) = VarOf(q)
    BY <1>0, <2>1, AmongFacts
  <2>3. Position(q) = j
    BY <1>0, <2>1, <2>2, PositionIs
  <2> QED BY <2>1, <2>2, <2>3
<1> QED BY <1>1, <1>2, <1>3, <1>4

LEMMA LearnPartImplies == CoreInv /\ SearchInv => LearntAsserts
<1> SUFFICES ASSUME CoreInv, SearchInv PROVE LearntAsserts
  OBVIOUS
<1> QED BY DEF SearchInv, AnalysisPart, LearnPart, LearntAsserts

(* A reason survives as long as its literal stays assigned.                *)
LEMMA ReasonStep ==
  ASSUME CoreInv, SearchInv, CoreInv', SearchInv', [TrailNext]_trailVars,
         NEW v \in Var, val[v] # 0, val'[v] = val[v]
  PROVE  /\ reason'[v] = reason[v]
         /\ reason[v] \in ClauseId =>
              lits'[reason[v]] # <<>> /\ wl0(reason[v])' = wl0(reason[v])
<1>0. TrailInv /\ TrailInv' /\ ReasonPart /\ ReasonPart'
      /\ val \in [Var -> Bool3] /\ reason \in [Var -> Reason]
  BY DEF SearchInv, TrailInv, TrailTypeOK
<1>1. reason'[v] = reason[v]
  <2>1. ASSUME NEW l \in Lit, Eval(l) = 0, NEW k, NEW r, Put(l, k, r)
        PROVE  reason'[v] = reason[v]
    <3>1. val[VarOf(l)] = 0
      BY <1>0, <2>1, ValueFacts DEF Eval
    <3> QED BY <3>1, <1>0, <2>1 DEF Put
  <2>2. CASE \E l \in Lit, r \in Reason : Eval(l) = 0 /\ Assign(l, r)
    BY <2>1, <2>2 DEF Assign
  <2>3. CASE \E l \in Lit : Eval(l) = 0 /\ ~HasElem /\ Decide(l)
    BY <2>1, <2>3 DEF Decide
  <2>4. CASE SetMarker \/ GetNext \/ UNCHANGED trailVars
    BY <2>4 DEF SetMarker, GetNext, trailVars
  <2>5. CASE \E k \in 0 .. DecisionLevel - 1 : Backtrack(k)
    BY <2>5 DEF Backtrack, trailVars
  <2> QED BY <2>2, <2>3, <2>4, <2>5 DEF TrailNext
<1>2. PICK i \in 1 .. Len(trail) : VarOf(trail[i]) = v
  BY <1>0 DEF TrailInv, TrailIsAssignment
<1>3. PICK j \in 1 .. Len(trail') : VarOf(trail'[j]) = v
  BY <1>0 DEF TrailInv, TrailIsAssignment
<1>4. trail'[j] = trail[i]
  <2>1. trail[i] \in Lit /\ trail'[j] \in Lit
    BY <1>0 DEF TrailInv, TrailTypeOK
  <2>2. ValueOf(val, trail[i]) = 1 /\ ValueOf(val', trail'[j]) = 1
    BY <1>0 DEF TrailInv, TrailIsAssignment, Eval
  <2>3. val' \in [Var -> Bool3]
    BY <1>0 DEF TrailInv, TrailTypeOK
  <2>4. trail'[j] = trail[i] \/ trail'[j] = -trail[i]
    BY <1>2, <1>3, <2>1, SameVar
  <2>5. ValueOf(val', -trail[i]) = -ValueOf(val', trail[i])
    BY <2>1, <2>3, ValueFacts
  <2>6. ValueOf(val', trail[i]) = ValueOf(val, trail[i])
    BY <1>0, <1>2, <2>1, <2>3, ValueFacts
  <2>7. ValueOf(val', -trail[i]) # 1
    BY <2>2, <2>5, <2>6
  <2> QED BY <2>2, <2>4, <2>7
<1>5. ASSUME reason[v] \in ClauseId
      PROVE  lits'[reason[v]] # <<>> /\ wl0(reason[v])' = wl0(reason[v])
  <2> DEFINE r == reason[v]
  <2>1. wl0(r) = trail[i]
    BY <1>0, <1>2, <1>5 DEF ReasonPart, Justified
  <2>2. r \in Live' /\ lits'[r][1] = trail'[j]
    BY <1>0, <1>1, <1>3, <1>5 DEF ReasonPart, Justified, wl0
  <2>3. Len(lits'[r]) >= 3 /\ lits'[r] \in Seq(Lit)
    BY <1>5, <2>2 DEF CoreInv, DbPart, LongClauses, ImplTypeOK
  <2>4. lits'[r] # <<>>
    BY <2>3
  <2>5. lits'[reason'[v]][1] = lits[r][1]
    BY <1>1, <1>4, <2>1, <2>2 DEF wl0
  <2> QED BY <2>4, <2>5 DEF wl0
<1> QED BY <1>1, <1>5
-----------------------------------------------------------------------------
(***************************************************************************)
(* The theorems.                                                           *)
(***************************************************************************)

(* The inductive invariant of the search, in every behaviour.              *)
THEOREM SearchAlwaysInv == Spec => [](CoreInv /\ SearchInv)
<1>1. Init => CoreInv /\ SearchInv
  BY InitOK, SearchInitOK
<1>2. (CoreInv /\ SearchInv) /\ [Next]_vars => (CoreInv /\ SearchInv)'
  BY NextKeeps, SearchNextKeeps
<1> QED BY <1>1, <1>2, PTL DEF Spec

(* Nothing in the engine throws or trips an assertion: implication() never *)
(* conflicts in reduce_CNF(), capture() never runs out of marked literals  *)
(* nor dereferences a missing reason, add_learnt_clause() is never given   *)
(* an empty or false clause, and solve() never reads a hole in its model.  *)
THEOREM EngineNeverFails == Spec => []NoError
<1>1. SearchInv => NoError
  BY DEF SearchInv, ControlPart, PlacePart, NoError
<1> QED BY <1>1, SearchAlwaysInv, PTL

(* The reason of every implied literal is a clause still in the store that *)
(* implied it: reduce_CNF() and reduce_learnt_clause() delete none in use, *)
(* and implication() never moves the implied literal away from wl0.        *)
THEOREM EngineReasonsHold == Spec => []ReasonsHold
BY SearchAlwaysInv, ReasonPartImplies, PTL

(* After analyze() and backtrack() the first literal of the learnt clause  *)
(* is open and the others are false, at no higher level than the current.  *)
THEOREM EngineLearntAsserts == Spec => []LearntAsserts
BY SearchAlwaysInv, LearnPartImplies, PTL

(* The trail of the engine is the list of its true literals, and its       *)
(* markers and mDecisionLevel agree, at every step of solve().             *)
THEOREM EngineTrail == Spec => [](TrailIsAssignment /\ MarkersOrdered /\ LevelsMatchMarkers)
<1>1. SearchInv => TrailIsAssignment /\ MarkersOrdered /\ LevelsMatchMarkers
  BY DEF SearchInv, TrailInv
<1> QED BY <1>1, SearchAlwaysInv, PTL

(* SatCore uses AssignList as its contract allows: it assigns only open    *)
(* literals and opens a level only when the queue is empty.                *)
THEOREM EngineImplementsTrail == Spec => ImplementsTrail
<1>1. Init => TrailInit
  BY DEF Init
<1>2. CoreInv /\ SearchInv /\ [Next]_vars => [TrailNext]_trailVars
  BY EngineStepIsTrailStep
<1> QED BY <1>1, <1>2, SearchAlwaysInv, PTL DEF Spec, TrailSpec, ImplementsTrail

(* A clause in use as a reason is never deleted or taken apart, from the   *)
(* assignment of its literal until backtrack() undoes it.                  *)
THEOREM EngineReasonStays == Spec => ReasonStays
<1> DEFINE A == \A v \in Var : val[v] # 0 /\ val'[v] = val[v] =>
                  /\ reason'[v] = reason[v]
                  /\ reason[v] \in ClauseId =>
                       lits'[reason[v]] # <<>> /\ wl0(reason[v])' = wl0(reason[v])
<1>1. CoreInv /\ SearchInv /\ CoreInv' /\ SearchInv' /\ [Next]_vars => A
  BY EngineStepIsTrailStep, ReasonStep
<1>2. Spec => [][A]_vars
  <2> HIDE DEF A
  <2>1. CoreInv /\ SearchInv /\ (CoreInv /\ SearchInv)' /\ [Next]_vars => [A]_vars
    BY <1>1
  <2> QED BY <2>1, SearchAlwaysInv, PTL DEF Spec
<1> QED BY <1>2 DEF ReasonStays
=============================================================================
