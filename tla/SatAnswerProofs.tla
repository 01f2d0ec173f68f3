--------------------------- MODULE SatAnswerProofs ---------------------------
(***************************************************************************)
(* The engine is right, for every number of variables and clauses, every   *)
(* client and every moment of stop(): what it learns follows from the      *)
(* clauses of the client, an unsatisfiable answer is true and the          *)
(* conflicting literals explain it, propagation reaches its fixpoint, a    *)
(* satisfiable answer comes with a model, and so the engine implements     *)
(* SatOracle.                                                              *)
(***************************************************************************)
EXTENDS SatSearchProofs

(* The clause C follows from the clauses added so far.                     *)
Follows(C) == Entails(cnf, C)

(* The clauses stored, the binary clauses in the watcher lists, and the    *)
(* literals of level 0 all follow.                                         *)
ClausesFollow == \A c \in Live : Follows(Elems(lits[c]))
BinariesFollow == \A l, w \in Lit : watch[l][w] > 0 => Follows({-l, w})
TopFollows == \A i \in 1 .. Len(trail) : LevelOf(trail[i]) = 0 => Follows({trail[i]})
DbFollows == ClausesFollow /\ BinariesFollow /\ TopFollows

(* What capture() resolves: the literals of the clause at hand with the    *)
(* negations of the marked literals it has not passed yet.                 *)
Resolvent ==
  resolving \cup {-trail[j] : j \in {i \in 1 .. last : VarOf(trail[i]) \in mark}}
AnalysisFollows ==
  /\ pc = "capture" => Follows(Resolvent)
  /\ pc = "minimize" => Follows(lower \cup {uip})
  /\ pc = "learn" => Follows(Elems(learnt))

NoModelPart == ~sane \/ Refuted => Models(cnf) = {}

(* During a search, the decisions of the first levels are the assumptions, *)
(* and the assumptions decided or skipped so far are true.                 *)
InSearch == Inside /\ ~Adding
Assumes(i) ==
  LET k == LevelOf(trail[i]) IN
    reason[VarOf(trail[i])] = None /\ k \in 1 .. Len(assumps) => trail[i] = assumps[k]
DecisionsPart == InSearch => \A i \in 1 .. Len(trail) : Assumes(i)

(* The conflicting literals, once analyze_final() has found them.          *)
FinalsPart ==
  pc \in {"stat", "finish"} /\ stat = "unsat" /\ finals # {} =>
    /\ Follows(finals)
    /\ \A l \in finals :
         \/ -l \in Elems(assumps)
         \/ l \in Elems(assumps) /\ Eval(l) = -1 /\ LevelOf(l) = 0

EntailInv == DbFollows /\ AnalysisFollows /\ NoModelPart /\ DecisionsPart /\ FinalsPart
-----------------------------------------------------------------------------
(***************************************************************************)
(* Models.                                                                 *)
(***************************************************************************)
LEMMA ModelFacts ==
  ASSUME NEW F, NEW a \in Models(F)
  PROVE  /\ a \in Assignment
         /\ \A l \in Lit : ValueOf(a, l) \in {-1, 1} /\ ValueOf(a, -l) = -ValueOf(a, l)
         /\ \A l \in Lit : ValueOf(a, l) # 1 <=> ValueOf(a, -l) = 1
<1>1. a \in Assignment
  BY DEF Models
<1>2. a \in [Var -> Bool3] /\ \A v \in Var : a[v] \in {-1, 1}
  BY <1>1 DEF Assignment, Bool3
<1>3. ASSUME NEW l \in Lit
      PROVE  /\ ValueOf(a, l) \in {-1, 1} /\ ValueOf(a, -l) = -ValueOf(a, l)
             /\ ValueOf(a, l) # 1 <=> ValueOf(a, -l) = 1
  <2>1. a[VarOf(l)] \in {-1, 1}
    BY <1>2, LitFacts
  <2>2. /\ ValueOf(a, l) = IF l > 0 THEN a[VarOf(l)] ELSE -a[VarOf(l)]
        /\ ValueOf(a, -l) = -ValueOf(a, l)
    BY <1>2, ValueFacts
  <2> QED BY <2>1, <2>2
<1> QED BY <1>1, <1>3

(* Every model satisfies some literal of a clause that follows.            *)
LEMMA FollowsMeans ==
  ASSUME NEW C
  PROVE  Follows(C) <=> \A a \in Models(cnf) : \E l \in C : ValueOf(a, l) = 1
BY DEF Follows, Entails, Satisfies

(* More clauses have fewer models, so what followed still does.            *)
LEMMA MoreClauses ==
  ASSUME NEW F, NEW G, F \subseteq G
  PROVE  Models(G) \subseteq Models(F)
BY DEF Models

LEMMA StillFollows ==
  ASSUME cnf \subseteq cnf', NEW C, Entails(cnf, C)
  PROVE  Entails(cnf', C)
BY MoreClauses DEF Entails

LEMMA Weaken ==
  ASSUME NEW C, NEW D, C \subseteq D, Follows(C)
  PROVE  Follows(D)
BY FollowsMeans

(* A literal false at level 0 is false in every model.                     *)
LEMMA FalseAtTop ==
  ASSUME TrailInv, TopFollows, NEW q \in Lit, Eval(q) = -1, LevelOf(q) = 0,
         NEW a \in Models(cnf)
  PROVE  ValueOf(a, q) # 1
<1>1. Among(-q, Len(trail)) /\ Len(trail) \in Nat
  BY TrueIsOnTrail, TrailFacts
<1>2. PICK j \in 1 .. Len(trail) : trail[j] = -q
  BY <1>1 DEF Among
<1>3. LevelOf(trail[j]) = 0
  BY <1>2, LitFacts DEF LevelOf
<1>4. Follows({trail[j]})
  BY <1>3 DEF TopFollows
<1>5. ValueOf(a, -q) = 1
  BY <1>2, <1>4, FollowsMeans
<1> QED BY <1>5, ModelFacts

(* At level 0 a clause that is false refutes the formula, and a clause all *)
(* of whose other literals are false implies the last one.                 *)
LEMMA RefutedAtTop ==
  ASSUME TrailInv, TopFollows, DecisionLevel = 0, NEW C \in SUBSET Lit, Follows(C),
         \A q \in C : Eval(q) = -1
  PROVE  Models(cnf) = {}
<1> SUFFICES ASSUME NEW a \in Models(cnf) PROVE FALSE
  OBVIOUS
<1>1. PICK q \in C : ValueOf(a, q) = 1
  BY FollowsMeans
<1>2. Among(-q, Len(trail)) /\ Len(trail) \in Nat
  BY TrueIsOnTrail, TrailFacts
<1>3. LevelOf(q) = 0
  BY <1>2, AmongFacts
<1> QED BY <1>1, <1>3, FalseAtTop

LEMMA UnitAtTop ==
  ASSUME TrailInv, TopFollows, DecisionLevel = 0, NEW C \in SUBSET Lit, Follows(C),
         NEW l \in C, \A q \in C : q = l \/ Eval(q) = -1
  PROVE  Follows({l})
<1> SUFFICES ASSUME NEW a \in Models(cnf) PROVE ValueOf(a, l) = 1
  BY FollowsMeans
<1>1. PICK q \in C : ValueOf(a, q) = 1
  BY FollowsMeans
<1>2. CASE Eval(q) = -1
  <2>1. Among(-q, Len(trail)) /\ Len(trail) \in Nat
    BY <1>2, TrueIsOnTrail, TrailFacts
  <2>2. LevelOf(q) = 0
    BY <2>1, AmongFacts
  <2> QED BY <1>1, <1>2, <2>2, FalseAtTop
<1> QED BY <1>1, <1>2

(* The clause a literal was implied by follows.                            *)
LEMMA ReasonFollows ==
  ASSUME CoreInv, TrailInv, ReasonPart, DbFollows, NEW i \in 1 .. Len(trail),
         reason[VarOf(trail[i])] # None
  PROVE  Follows(Antecedents(reason[VarOf(trail[i])]) \cup {trail[i]})
<1> DEFINE l == trail[i]
           r == reason[VarOf(l)]
<1>1. /\ r \in Reason /\ l \in Lit /\ LevelOf(l) \in Nat /\ Justified(i)
      /\ Antecedents(r) \in SUBSET Lit
  BY ReasonFacts, TrailFacts DEF ReasonPart
<1>2. CASE r \in ClauseId
  <2>1. r \in Live /\ wl0(r) = l /\ r \notin Lit
    BY <1>1, <1>2, WatcherKinds DEF Justified
  <2>2. Follows(Elems(lits[r]))
    BY <2>1 DEF DbFollows, ClausesFollow
  <2>3. Elems(lits[r]) \subseteq Antecedents(r) \cup {l}
    BY <2>1 DEF Antecedents
  <2> QED BY <2>2, <2>3, Weaken
<1>3. CASE r \in Lit /\ LevelOf(l) > 0
  <2>1. watch[-r][l] > 0 /\ -r \in Lit /\ -(-r) = r
    BY <1>1, <1>3, LitFacts DEF Justified
  <2>2. Follows({r, l})
    BY <1>1, <2>1 DEF DbFollows, BinariesFollow
  <2>3. {r, l} \subseteq Antecedents(r) \cup {l}
    BY <1>3 DEF Antecedents
  <2> QED BY <2>2, <2>3, Weaken
<1>4. CASE LevelOf(l) = 0
  <2>1. Follows({l})
    BY <1>4 DEF DbFollows, TopFollows
  <2> QED BY <2>1, Weaken
<1>5. r \in ClauseId \/ r \in Lit
  BY <1>1, ReasonKinds
<1> QED BY <1>1, <1>2, <1>3, <1>4, <1>5
-----------------------------------------------------------------------------
(***************************************************************************)
(* Conflict analysis: what is learnt follows.                              *)
(***************************************************************************)

(* A false literal is the negation of the literal of its variable on the   *)
(* trail.                                                                  *)
LEMMA FalseOnTrail ==
  ASSUME TrailInv, NEW q \in Lit, Eval(q) = -1,
         NEW j \in 1 .. Len(trail), VarOf(trail[j]) = VarOf(q)
  PROVE  q = -trail[j]
<1>1. trail[j] \in Lit /\ Eval(trail[j]) = 1
  BY TrailFacts DEF TrailInv, TrailIsAssignment
<1>2. q = trail[j] \/ q = -trail[j]
  BY <1>1, SameVar
<1> QED BY <1>1, <1>2

LEMMA OncePerVariable ==
  ASSUME TrailInv, NEW i \in 1 .. Len(trail), NEW j \in 1 .. Len(trail),
         VarOf(trail[i]) = VarOf(trail[j])
  PROVE  i = j
BY DEF TrailInv, TrailIsAssignment

(* put_lit() over the clause at hand, then the latest marked literal: a    *)
(* model that does not satisfy it there satisfies the negation of another  *)
(* marked literal.                                                         *)
LEMMA CaptureFollows ==
  ASSUME CoreInv, SearchInv, EntailInv, pc = "capture", NEW i \in 1 .. last, CaptureAt(i),
         NEW a \in Models(cnf), ValueOf(a, trail[i]) = 1
  PROVE  \E j \in 1 .. i - 1 : VarOf(trail[j]) \in mark' /\ ValueOf(a, -trail[j]) = 1
<1>1. /\ TrailInv /\ CapturePart /\ TopFollows /\ Follows(Resolvent)
  BY DEF SearchInv, AnalysisPart, EntailInv, DbFollows, AnalysisFollows
<1>2. /\ Latest(i) /\ mark' = Marked \ {VarOf(trail[i])}
      /\ last \in Nat /\ last <= Len(trail) /\ Len(trail) \in Nat
      /\ i \in 1 .. Len(trail) /\ trail[i] \in Lit
      /\ resolving \in SUBSET Lit
      /\ \A v \in Marked : v # VarOf(trail[i]) => \E j \in 1 .. i - 1 : VarOf(trail[j]) = v
  <2>1. Latest(i) /\ mark' = Marked \ {VarOf(trail[i])}
    BY DEF CaptureAt
  <2> QED BY <2>1, MarkedFacts, LatestFacts DEF CoreInv, AnaPart, AnaTypeOK
<1>3. PICK q \in Resolvent : ValueOf(a, q) = 1
  BY <1>1, FollowsMeans
<1>4. \E j \in 1 .. last : VarOf(trail[j]) \in Marked /\ q = -trail[j]
  <2>1. CASE q \in resolving
    <3>1. Among(-q, last) /\ q \in Lit
      BY <1>1, <1>2, <2>1 DEF CapturePart
    <3>2. PICK j \in 1 .. last : j \in 1 .. Len(trail) /\ VarOf(trail[j]) = VarOf(q)
      BY <1>1, <1>2, <3>1, AmongFacts
    <3>3. Eval(q) = -1 /\ LevelOf(q) \in 0 .. DecisionLevel /\ DecisionLevel \in Nat
      BY <1>1, <1>2, <3>1, AmongFacts, TrailFacts
    <3>4. q = -trail[j]
      BY <1>1, <3>1, <3>2, <3>3, FalseOnTrail
    <3>5. LevelOf(q) # 0
      BY <1>1, <1>3, <3>1, <3>3, FalseAtTop
    <3>6. VarOf(q) \in Marked
      BY <2>1, <3>3, <3>5 DEF Marked, NewLits, Vars
    <3> QED BY <3>2, <3>4, <3>6
  <2>2. CASE q \notin resolving
    <3>1. PICK j \in 1 .. last : VarOf(trail[j]) \in mark /\ q = -trail[j]
      BY <2>2 DEF Resolvent
    <3> QED BY <3>1 DEF Marked
  <2> QED BY <2>1, <2>2
<1>5. PICK j \in 1 .. last : VarOf(trail[j]) \in Marked /\ q = -trail[j]
  BY <1>4
<1>6. j \in 1 .. Len(trail)
  BY <1>2
<1>7. VarOf(trail[j]) # VarOf(trail[i])
  <2> SUFFICES ASSUME VarOf(trail[j]) = VarOf(trail[i]) PROVE FALSE
    OBVIOUS
  <2>1. j = i
    BY <1>1, <1>2, <1>6, OncePerVariable
  <2> QED BY <1>2, <1>3, <1>5, <2>1, ModelFacts
<1>8. PICK k \in 1 .. i - 1 : VarOf(trail[k]) = VarOf(trail[j])
  BY <1>2, <1>5, <1>7
<1>9. k \in 1 .. Len(trail)
  BY <1>2
<1>10. k = j
  BY <1>1, <1>6, <1>8, <1>9, OncePerVariable
<1> QED BY <1>2, <1>3, <1>5, <1>7, <1>8, <1>10

LEMMA ResolveFollows ==
  ASSUME CoreInv, SearchInv, EntailInv, pc = "capture", NEW i \in 1 .. last, ResolveAt(i),
         UNCHANGED trailVars
  PROVE  Entails(cnf, Resolvent')
<1>1. /\ CaptureAt(i) /\ reason[VarOf(trail[i])] # None /\ Latest(i) /\ last' = i
      /\ resolving' = Antecedents(reason[VarOf(trail[i])])
      /\ TrailInv /\ ReasonPart /\ DbFollows
  BY DEF ResolveAt, CaptureAt, SearchInv, EntailInv
<1>2. i \in 1 .. Len(trail) /\ trail' = trail /\ i \in Nat
  BY <1>1, LatestFacts DEF trailVars
<1>3. Follows(Antecedents(reason[VarOf(trail[i])]) \cup {trail[i]})
  BY <1>1, <1>2, ReasonFollows
<1>4. ASSUME NEW a \in Models(cnf)
      PROVE  \E q \in Resolvent' : ValueOf(a, q) = 1
  <2>1. CASE ValueOf(a, trail[i]) = 1
    <3>1. PICK j \in 1 .. i - 1 : VarOf(trail[j]) \in mark' /\ ValueOf(a, -trail[j]) = 1
      BY <1>1, <2>1, CaptureFollows
    <3>2. j \in 1 .. i
      BY <1>2
    <3>3. -trail[j] \in Resolvent'
      BY <1>1, <1>2, <3>1, <3>2 DEF Resolvent
    <3> QED BY <3>1, <3>3
  <2>2. CASE ValueOf(a, trail[i]) # 1
    <3>1. PICK q \in Antecedents(reason[VarOf(trail[i])]) : ValueOf(a, q) = 1
      BY <1>3, <2>2, FollowsMeans
    <3> QED BY <1>1, <3>1 DEF Resolvent
  <2> QED BY <2>1, <2>2
<1> QED BY <1>4 DEF Entails, Satisfies

LEMMA FoundFollows ==
  ASSUME CoreInv, SearchInv, EntailInv, pc = "capture", NEW i \in 1 .. last, FoundUIP(i),
         UNCHANGED trailVars
  PROVE  Entails(cnf, lower' \cup {uip'})
<1>1. CaptureAt(i) /\ NewCount = 1 /\ Latest(i) /\ TrailInv
  BY DEF FoundUIP, CaptureAt, SearchInv
<1>2. i \in 1 .. Len(trail) /\ trail' = trail /\ i \in Nat /\ Len(trail) \in Nat /\ trail[i] \in Lit
  BY <1>1, LatestFacts, TrailFacts DEF trailVars
<1>3. /\ uip' = -trail[i] /\ LowerPart'
      /\ \A v \in mark' : v \in Vars(lower')
  BY <1>1, CaptureAtFacts
<1>4. lower' \in SUBSET Lit
  BY <1>1, CaptureTypes DEF CoreInv
<1>5. ASSUME NEW a \in Models(cnf)
      PROVE  \E q \in lower' \cup {uip'} : ValueOf(a, q) = 1
  <2>1. CASE ValueOf(a, trail[i]) = 1
    <3>1. PICK j \in 1 .. i - 1 : VarOf(trail[j]) \in mark' /\ ValueOf(a, -trail[j]) = 1
      BY <1>1, <2>1, CaptureFollows
    <3>2. j \in 1 .. Len(trail)
      BY <1>2
    <3>3. PICK q \in lower' : VarOf(trail[j]) = VarOf(q)
      BY <1>3, <3>1 DEF Vars
    <3>4. Among(-q, Len(trail)) /\ q \in Lit
      BY <1>2, <1>3, <1>4 DEF LowerPart, Among
    <3>5. q = -trail[j]
      BY <1>1, <3>2, <3>3, <3>4, TrueIsOnTrail, FalseOnTrail
    <3> QED BY <3>1, <3>5
  <2>2. CASE ValueOf(a, trail[i]) # 1
    BY <1>2, <1>3, <2>2, ModelFacts
  <2> QED BY <2>1, <2>2
<1> QED BY <1>5 DEF Entails, Satisfies

(* What the redundant variables were implied by is learnt, redundant too,  *)
(* or of level 0.                                                          *)
LEMMA RedundantFacts ==
  ASSUME NEW v \in Var, Redundant(v)
  PROVE  /\ reason[v] # None
         /\ \A q \in Antecedents(reason[v]) :
              VarOf(q) \in mark \/ Redundant(VarOf(q)) \/ LevelOf(q) = 0
<1>1. PICK S \in SUBSET Var :
        /\ v \in S
        /\ \A u \in S :
             /\ reason[u] # None
             /\ level[u] % LevelBits \in Bitmap
             /\ \A q \in Antecedents(reason[u]) : VarOf(q) \in mark \cup S \/ LevelOf(q) = 0
  BY DEF Redundant
<1>2. \A u \in S : Redundant(u)
  BY <1>1 DEF Redundant
<1> QED BY <1>1, <1>2

(* The literal written for q follows from q.                               *)
LEMMA WrittenFollows ==
  ASSUME CoreInv, SearchInv, EntailInv, pc = "minimize", NEW q \in lower,
         NEW a \in Models(cnf), ValueOf(a, q) = 1
  PROVE  ValueOf(a, Written(q)) = 1
<1> DEFINE r == reason[VarOf(q)]
<1>1. CASE Written(q) = q
  BY <1>1
<1>2. CASE Written(q) # q
  <2>1. Written(q) = r /\ r \in Lit
    BY <1>2 DEF Written
  <2>2. /\ TrailInv /\ ReasonPart /\ DbFollows /\ q \in Lit /\ Eval(q) = -1 /\ Len(trail) \in Nat
    BY WrittenFacts, TrailFacts DEF SearchInv, EntailInv
  <2>3. PICK i \in 1 .. Len(trail) : trail[i] = -q
    BY <2>2, TrueIsOnTrail DEF Among
  <2>4. VarOf(trail[i]) = VarOf(q) /\ r # None
    BY <2>1, <2>2, <2>3, LitFacts DEF None
  <2>5. Antecedents(r) = {r}
    BY <2>1 DEF Antecedents
  <2>6. Follows({r} \cup {-q})
    BY <2>2, <2>3, <2>4, <2>5, ReasonFollows
  <2>7. PICK m \in {r} \cup {-q} : ValueOf(a, m) = 1
    BY <2>6, FollowsMeans
  <2>8. m # -q
    BY <2>2, <2>7, ModelFacts
  <2> QED BY <2>1, <2>7, <2>8
<1> QED BY <1>1, <1>2

(* A model that satisfies none of the literals kept would have to disagree *)
(* with the trail on a marked or redundant variable; the first such        *)
(* disagreement has none to come from.                                     *)
LEMMA MinimizedFollows ==
  ASSUME CoreInv, SearchInv, EntailInv, pc = "minimize"
  PROVE  Follows({Written(q) : q \in Minimal})
<1>0. /\ TrailInv /\ ReasonPart /\ MinimizePart /\ DbFollows /\ TopFollows
      /\ Follows(lower \cup {uip}) /\ Len(trail) \in Nat
  BY TrailFacts DEF SearchInv, AnalysisPart, EntailInv, DbFollows, AnalysisFollows
<1> SUFFICES ASSUME NEW a \in Models(cnf),
                    \A q \in Minimal : ValueOf(a, Written(q)) # 1
             PROVE  FALSE
  BY FollowsMeans
<1> DEFINE Away(j) == /\ ValueOf(a, -trail[j]) = 1
                      /\ \/ VarOf(trail[j]) \in mark \cup {VarOf(uip)}
                         \/ Redundant(VarOf(trail[j]))
           T == {j \in 1 .. Len(trail) : Away(j)}
<1>1. \A q \in lower \cup {uip} :
        /\ q \in Lit /\ Eval(q) = -1
        /\ Written(q) \in Lit /\ Eval(Written(q)) = -1
        /\ ValueOf(a, q) = 1 => ValueOf(a, Written(q)) = 1
  BY WrittenFacts, WrittenFollows
(* A satisfied literal that is not kept gives a redundant disagreement.    *)
<1>2. ASSUME NEW q \in lower \cup {uip}, ValueOf(a, q) = 1
      PROVE  /\ Redundant(VarOf(Written(q)))
             /\ \E j \in 1 .. Len(trail) : trail[j] = -Written(q) /\ Away(j)
  <2>1. ValueOf(a, Written(q)) = 1 /\ Written(q) \in Lit /\ Eval(Written(q)) = -1
    BY <1>1, <1>2
  <2>2. Redundant(VarOf(Written(q)))
    BY <1>2, <2>1 DEF Minimal
  <2>3. PICK j \in 1 .. Len(trail) : trail[j] = -Written(q)
    BY <1>0, <2>1, TrueIsOnTrail DEF Among
  <2>4. -trail[j] = Written(q) /\ VarOf(trail[j]) = VarOf(Written(q))
    BY <2>1, <2>3, LitFacts
  <2> QED BY <2>1, <2>2, <2>3, <2>4
<1>3. T # {}
  <2>1. PICK q \in lower \cup {uip} : ValueOf(a, q) = 1
    BY <1>0, FollowsMeans
  <2> QED BY <1>2, <2>1
<1>4. PICK j \in T : \A k \in T : j <= k
  <2>1. T \in SUBSET Nat
    OBVIOUS
  <2> HIDE DEF T
  <2> QED BY <1>3, <2>1, LeastOf
<1> DEFINE l == trail[j]
           v == VarOf(l)
           r == reason[v]
<1>5. /\ j \in 1 .. Len(trail) /\ Away(j) /\ l \in Lit /\ v \in Var /\ Eval(l) = 1
      /\ \A k \in 1 .. j - 1 : ~Away(k)
  <2>1. j \in 1 .. Len(trail) /\ Away(j)
    BY <1>4
  <2>2. \A k \in 1 .. j - 1 : k \in 1 .. Len(trail) /\ ~(j <= k)
    BY <2>1, <1>0
  <2>3. \A k \in 1 .. j - 1 : ~Away(k)
    BY <2>2, <1>4
  <2>4. l \in Lit /\ v \in Var /\ Eval(l) = 1
    BY <1>0, <2>1, TrailFacts, LitFacts DEF TrailInv, TrailIsAssignment
  <2> QED BY <2>1, <2>3, <2>4
(* An antecedent that the model satisfies is an earlier disagreement.      *)
<1>6. ASSUME r # None, NEW q \in Antecedents(r), ValueOf(a, q) = 1,
             VarOf(q) \in mark \/ Redundant(VarOf(q)) \/ LevelOf(q) = 0
      PROVE  FALSE
  <2>1. /\ q \in Lit /\ Among(-q, j - 1) /\ Eval(q) = -1
    BY <1>0, <1>5, <1>6, ReasonFacts
  <2>2. LevelOf(q) # 0
    BY <1>0, <1>6, <2>1, FalseAtTop
  <2>3. PICK k \in 1 .. j - 1 : trail[k] = -q
    BY <2>1 DEF Among
  <2>4. -trail[k] = q /\ VarOf(trail[k]) = VarOf(q)
    BY <2>1, <2>3, LitFacts
  <2>5. Away(k)
    BY <1>6, <2>2, <2>4
  <2> QED BY <1>5, <2>5
<1>7. CASE Redundant(v)
  <2>1. r # None /\ \A q \in Antecedents(r) : VarOf(q) \in mark \/ Redundant(VarOf(q)) \/ LevelOf(q) = 0
    BY <1>5, <1>7, RedundantFacts
  <2>2. Follows(Antecedents(r) \cup {l})
    BY <1>0, <1>5, <2>1, ReasonFollows
  <2>3. PICK q \in Antecedents(r) \cup {l} : ValueOf(a, q) = 1
    BY <2>2, FollowsMeans
  <2>4. q # l
    BY <1>5, <2>3, ModelFacts
  <2> QED BY <1>6, <2>1, <2>3, <2>4
<1>8. CASE ~Redundant(v)
  <2>1. PICK q \in lower \cup {uip} : VarOf(q) = v
    <3>1. v \in mark \cup {VarOf(uip)}
      BY <1>5, <1>8
    <3> QED BY <1>0, <3>1 DEF MinimizePart, Vars
  <2>2. q = -l
    BY <1>0, <1>1, <1>5, <2>1, FalseOnTrail
  <2>3. ValueOf(a, q) = 1
    BY <1>5, <2>2
  <2>4. Redundant(VarOf(Written(q))) /\ ValueOf(a, Written(q)) = 1
    BY <1>1, <1>2, <2>3
  <2>5. Written(q) # q
    BY <1>8, <2>1, <2>4
  <2>6. Written(q) = r /\ r \in Lit
    BY <2>1, <2>5 DEF Written
  <2>7. r # None /\ r \in Antecedents(r)
    BY <2>6, LitFacts DEF Antecedents, None
  <2> QED BY <1>6, <2>4, <2>6, <2>7
<1> QED BY <1>7, <1>8
-----------------------------------------------------------------------------
(***************************************************************************)
(* analyze_final(): the conflicting literals explain the failed assumption.*)
(***************************************************************************)
LEMMA TracedFacts ==
  ASSUME CoreInv, TrailInv, NEW v \in Var
  PROVE  /\ v \in Traced(v)
         /\ \A u \in Traced(v) :
              /\ u \in Var
              /\ u = v \/ level[u] > 0
              /\ reason[u] # None =>
                   \A q \in Antecedents(reason[u]) : LevelOf(q) > 0 => VarOf(q) \in Traced(v)
<1>0. ASSUME NEW w \in Var, reason[w] # None, NEW q \in Antecedents(reason[w])
      PROVE  VarOf(q) \in Var
  <2>1. reason[w] \in Reason
    BY DEF TrailInv, TrailTypeOK
  <2>2. q \in Lit
    BY <1>0, <2>1, AntecedentsAreLits DEF CoreInv
  <2> QED BY <2>2, LitFacts
<1>1. v \in Traced(v)
  BY DEF Traced
<1>2. ASSUME NEW u \in Traced(v)
      PROVE  u = v \/ level[u] > 0
  <2> DEFINE M == {v} \cup {w \in Var : level[w] > 0}
  <2>1. TracesBack(M)
    <3> SUFFICES ASSUME NEW w \in M, NEW q \in Antecedents(reason[w]), LevelOf(q) > 0,
                        reason[w] # None
                 PROVE  VarOf(q) \in M
      BY DEF TracesBack
    <3>1. VarOf(q) \in Var
      BY <1>0
    <3> QED BY <3>1 DEF LevelOf
  <2>2. u \in M
    BY <2>1 DEF Traced
  <2> QED BY <2>2
<1>3. ASSUME NEW u \in Traced(v), reason[u] # None, NEW q \in Antecedents(reason[u]),
             LevelOf(q) > 0
      PROVE  VarOf(q) \in Traced(v)
  <2>1. u \in Var
    BY DEF Traced
  <2>2. VarOf(q) \in Var
    BY <1>0, <1>3, <2>1
  <2> QED BY <1>3, <2>2 DEF Traced, TracesBack
<1> QED BY <1>1, <1>2, <1>3 DEF Traced

LEMMA FinalsExplain ==
  ASSUME CoreInv, SearchInv, EntailInv, Assuming, Eval(Assumed) = -1
  PROVE  /\ Follows(Finals(-Assumed))
         /\ \A m \in Finals(-Assumed) :
              \/ -m \in Elems(assumps)
              \/ m \in Elems(assumps) /\ Eval(m) = -1 /\ LevelOf(m) = 0
<1> DEFINE A == Assumed
           l == -A
           v == VarOf(l)
<1>0. /\ TrailInv /\ ReasonPart /\ DbFollows /\ TopFollows /\ Len(trail) \in Nat
      /\ DecisionLevel \in Nat
  BY TrailFacts DEF SearchInv, EntailInv, DbFollows
<1>1. /\ A \in Lit /\ l \in Lit /\ -l = A /\ v \in Var /\ VarOf(A) = v
  BY AssumedIsLit, LitFacts
<1>2. PICK i0 \in 1 .. Len(trail) : trail[i0] = l
  BY <1>0, <1>1, TrueIsOnTrail DEF Among
<1>3. /\ pc = "decide" /\ DecisionLevel < Len(assumps) /\ assumps \in Seq(Lit)
      /\ Len(assumps) \in Nat
  BY DEF Assuming, CoreInv, QueryPart
<1>4. A \in Elems(assumps)
  <2>1. DecisionLevel + 1 \in DOMAIN assumps
    BY <1>0, <1>3
  <2> QED BY <2>1 DEF Assumed, Elems
<1>5. Follows(Finals(l))
  <2> SUFFICES ASSUME NEW a \in Models(cnf), \A q \in Finals(l) : ValueOf(a, q) # 1
               PROVE  FALSE
    BY FollowsMeans
  <2> DEFINE T == {j \in 1 .. Len(trail) :
                     VarOf(trail[j]) \in Traced(v) /\ ValueOf(a, trail[j]) # 1}
  <2>1. i0 \in T
    <3>1. l \in Finals(l)
      BY DEF Finals
    <3>2. v \in Traced(v)
      BY <1>0, <1>1, TracedFacts
    <3> QED BY <1>2, <3>1, <3>2
  <2>2. PICK j \in T : \A k \in T : j <= k
    <3>1. T \in SUBSET Nat
      OBVIOUS
    <3> HIDE DEF T
    <3> QED BY <2>1, <3>1, LeastOf
  <2> DEFINE m == trail[j]
             r == reason[VarOf(m)]
  <2>3. /\ j \in 1 .. Len(trail) /\ m \in Lit /\ VarOf(m) \in Traced(v)
        /\ ValueOf(a, m) # 1 /\ ValueOf(a, -m) = 1
        /\ LevelOf(m) # 0 /\ DecisionLevel # 0
    <3>1. j \in 1 .. Len(trail) /\ VarOf(m) \in Traced(v) /\ ValueOf(a, m) # 1
      BY <2>2
    <3>2. m \in Lit /\ LevelOf(m) \in 0 .. DecisionLevel
      BY <1>0, <3>1, TrailFacts
    <3>3. LevelOf(m) # 0
      <4> SUFFICES ASSUME LevelOf(m) = 0 PROVE FALSE
        OBVIOUS
      <4>1. Follows({m})
        BY <1>0, <3>1 DEF TopFollows
      <4> QED BY <3>1, <4>1, FollowsMeans
    <3>4. DecisionLevel # 0
      BY <3>2, <3>3
    <3> QED BY <3>1, <3>2, <3>3, <3>4, ModelFacts
  <2>4. CASE r = None
    <3>1. -m \in Finals(l)
      <4>1. j \in DOMAIN trail
        BY <1>0, <2>3 DEF TrailInv, TrailTypeOK
      <4> QED BY <2>3, <2>4, <4>1 DEF Finals
    <3> QED BY <2>3, <3>1
  <2>5. CASE r # None
    <3>1. Follows(Antecedents(r) \cup {m})
      BY <1>0, <2>3, <2>5, ReasonFollows
    <3>2. PICK q \in Antecedents(r) : ValueOf(a, q) = 1
      BY <2>3, <3>1, FollowsMeans
    <3>3. q \in Lit /\ Among(-q, j - 1) /\ Eval(q) = -1
          /\ LevelOf(q) \in 0 .. LevelOf(m) /\ LevelOf(m) \in 0 .. DecisionLevel
      BY <1>0, <2>3, <2>5, <3>2, ReasonFacts, TrailFacts
    <3>4. LevelOf(q) # 0
      BY <1>0, <3>2, <3>3, FalseAtTop
    <3>5. VarOf(q) \in Traced(v)
      <4>1. LevelOf(q) > 0
        BY <3>3, <3>4
      <4> QED BY <1>0, <1>1, <2>3, <2>5, <3>2, <4>1, TracedFacts
    <3>6. PICK k \in 1 .. j - 1 : trail[k] = -q
      BY <3>3 DEF Among
    <3>7. VarOf(trail[k]) = VarOf(q) /\ ValueOf(a, trail[k]) # 1
      <4>1. VarOf(-q) = VarOf(q) /\ ValueOf(a, -q) # 1
        BY <3>2, <3>3, LitFacts, ModelFacts
      <4> QED BY <3>6, <4>1
    <3>8. k \in 1 .. Len(trail) /\ ~(j <= k)
      BY <1>0, <2>3
    <3>9. k \in T
      BY <3>5, <3>7, <3>8
    <3> QED BY <2>2, <3>8, <3>9
  <2> QED BY <2>4, <2>5
<1>6. ASSUME NEW m \in Finals(l)
      PROVE  \/ -m \in Elems(assumps)
             \/ m \in Elems(assumps) /\ Eval(m) = -1 /\ LevelOf(m) = 0
  <2>1. CASE m = l
    BY <2>1, <1>1, <1>4
  <2>2. CASE m # l
    <3>1. PICK i \in DOMAIN trail :
            /\ m = -trail[i] /\ VarOf(trail[i]) \in Traced(v)
            /\ reason[VarOf(trail[i])] = None
      BY <2>2 DEF Finals
    <3>2. i \in 1 .. Len(trail) /\ trail[i] \in Lit /\ LevelOf(trail[i]) \in 0 .. DecisionLevel
          /\ Eval(trail[i]) = 1
      <4>1. i \in 1 .. Len(trail)
        BY <1>0 DEF TrailInv, TrailTypeOK
      <4> QED BY <4>1, <1>0, TrailFacts DEF TrailInv, TrailIsAssignment
    <3>3. -m = trail[i]
      BY <3>1, <3>2, LitFacts
    <3>4. CASE LevelOf(trail[i]) = 0
      <4>1. VarOf(trail[i]) = v
        BY <1>0, <1>1, <3>1, <3>4, TracedFacts DEF LevelOf
      <4>2. i = i0
        BY <1>0, <1>2, <3>2, <4>1, OncePerVariable
      <4>3. m = A
        BY <1>1, <1>2, <3>1, <4>2
      <4>4. LevelOf(A) = 0
        BY <1>1, <1>2, <3>4, <4>2 DEF LevelOf
      <4> QED BY <1>4, <4>3, <4>4
    <3>5. CASE LevelOf(trail[i]) # 0
      <4> DEFINE k == LevelOf(trail[i])
      <4>1. k \in 1 .. Len(assumps) /\ k \in DOMAIN assumps
        BY <1>0, <1>3, <3>2, <3>5
      <4>2. InSearch
        BY <1>3 DEF InSearch, Inside, Adding
      <4>3. trail[i] = assumps[k]
        BY <3>1, <3>2, <4>1, <4>2 DEF EntailInv, DecisionsPart, Assumes
      <4> QED BY <3>3, <4>1, <4>3 DEF Elems
    <3> QED BY <3>4, <3>5
  <2> QED BY <2>1, <2>2
<1> QED BY <1>5, <1>6
-----------------------------------------------------------------------------
(***************************************************************************)
(* What the changes of the state keep.                                     *)
(***************************************************************************)
LEMMA ClausesStep ==
  ASSUME ClausesFollow, cnf \subseteq cnf',
         \A c \in Live' : \/ c \in Live /\ Elems(lits'[c]) = Elems(lits[c])
                          \/ Entails(cnf', Elems(lits'[c]))
  PROVE  ClausesFollow'
<1> SUFFICES ASSUME NEW c \in Live' PROVE Entails(cnf', Elems(lits'[c]))
  BY DEF ClausesFollow, Follows
<1>1. CASE c \in Live /\ Elems(lits'[c]) = Elems(lits[c])
  <2>1. Entails(cnf, Elems(lits[c]))
    BY <1>1 DEF ClausesFollow, Follows
  <2>2. Entails(cnf', Elems(lits[c]))
    BY <2>1, StillFollows
  <2> QED BY <1>1, <2>2
<1> QED BY <1>1

LEMMA BinariesStep ==
  ASSUME BinariesFollow, cnf \subseteq cnf',
         \A l, w \in Lit : watch'[l][w] > 0 => watch[l][w] > 0 \/ Entails(cnf', {-l, w})
  PROVE  BinariesFollow'
<1> SUFFICES ASSUME NEW l \in Lit, NEW w \in Lit, watch'[l][w] > 0 PROVE Entails(cnf', {-l, w})
  BY DEF BinariesFollow, Follows
<1>1. CASE watch[l][w] > 0
  <2>1. Entails(cnf, {-l, w})
    BY <1>1 DEF BinariesFollow, Follows
  <2> QED BY <2>1, StillFollows
<1> QED BY <1>1

LEMMA TopStep ==
  ASSUME TopFollows, cnf \subseteq cnf',
         \A i \in 1 .. Len(trail') :
           level'[VarOf(trail'[i])] = 0 =>
             \/ \E j \in 1 .. Len(trail) : trail[j] = trail'[i] /\ LevelOf(trail[j]) = 0
             \/ Entails(cnf', {trail'[i]})
  PROVE  TopFollows'
<1> SUFFICES ASSUME NEW i \in 1 .. Len(trail'), level'[VarOf(trail'[i])] = 0
             PROVE  Entails(cnf', {trail'[i]})
  BY DEF TopFollows, Follows, LevelOf
<1>1. ASSUME NEW j \in 1 .. Len(trail), trail[j] = trail'[i], LevelOf(trail[j]) = 0
      PROVE  Entails(cnf', {trail'[i]})
  <2>1. Entails(cnf, {trail[j]})
    BY <1>1 DEF TopFollows, Follows
  <2>2. Entails(cnf', {trail[j]})
    BY <2>1, StillFollows
  <2> QED BY <1>1, <2>2
<1> QED BY <1>1

(* A trail that is a prefix of the old one.                                *)
LEMMA PrefixFollows ==
  ASSUME TrailInv, TopFollows, cnf \subseteq cnf', Prefix(Len(trail')), Len(trail') \in Nat
  PROVE  TopFollows'
<1>1. ASSUME NEW i \in 1 .. Len(trail'), level'[VarOf(trail'[i])] = 0
      PROVE  \E j \in 1 .. Len(trail) : trail[j] = trail'[i] /\ LevelOf(trail[j]) = 0
  <2>1. /\ trail'[i] = trail[i] /\ level'[VarOf(trail[i])] = level[VarOf(trail[i])]
        /\ Len(trail') <= Len(trail) /\ Len(trail) \in Nat
    BY TrailFacts DEF Prefix
  <2>2. i \in 1 .. Len(trail)
    BY <2>1
  <2> QED BY <1>1, <2>1, <2>2 DEF LevelOf
<1> QED BY <1>1, TopStep

(* A trail that has grown by a literal above level 0, or that follows.     *)
LEMMA GrownFollows ==
  ASSUME TrailInv, TopFollows, cnf \subseteq cnf', NEW l, NEW k, NEW r, Grown(l, k, r),
         k = 0 => Entails(cnf', {l})
  PROVE  TopFollows'
<1>1. ASSUME NEW i \in 1 .. Len(trail'), level'[VarOf(trail'[i])] = 0
      PROVE  \/ \E j \in 1 .. Len(trail) : trail[j] = trail'[i] /\ LevelOf(trail[j]) = 0
             \/ Entails(cnf', {trail'[i]})
  <2>1. Len(trail) \in Nat /\ Len(trail') = Len(trail) + 1
    BY TrailFacts DEF Grown
  <2>2. CASE i \in 1 .. Len(trail)
    <3>1. trail'[i] = trail[i] /\ level'[VarOf(trail[i])] = level[VarOf(trail[i])]
      BY <2>2 DEF Grown, Prefix
    <3> QED BY <1>1, <2>2, <3>1 DEF LevelOf
  <2>3. CASE i \notin 1 .. Len(trail)
    <3>1. i = Len(trail) + 1
      BY <2>1, <2>3
    <3>2. trail'[i] = l /\ level'[VarOf(l)] = k
      BY <3>1 DEF Grown
    <3> QED BY <1>1, <3>2
  <2> QED BY <2>2, <2>3
<1> QED BY <1>1, TopStep

(* The same for the decisions of the assumptions.                          *)
LEMMA PrefixDecisions ==
  ASSUME TrailInv, \A i \in 1 .. Len(trail) : Assumes(i), assumps' = assumps,
         Prefix(Len(trail')), Len(trail') \in Nat
  PROVE  \A i \in 1 .. Len(trail') : Assumes(i)'
<1> TAKE i \in 1 .. Len(trail')
<1>1. /\ trail'[i] = trail[i] /\ level'[VarOf(trail[i])] = level[VarOf(trail[i])]
      /\ reason'[VarOf(trail[i])] = reason[VarOf(trail[i])]
      /\ Len(trail') <= Len(trail) /\ Len(trail) \in Nat
  BY TrailFacts DEF Prefix
<1>2. i \in 1 .. Len(trail)
  BY <1>1
<1> QED BY <1>1, <1>2 DEF Assumes, LevelOf

LEMMA GrownDecisions ==
  ASSUME TrailInv, \A i \in 1 .. Len(trail) : Assumes(i), assumps' = assumps,
         NEW l, NEW k, NEW r, Grown(l, k, r),
         r = None /\ k \in 1 .. Len(assumps) => l = assumps[k]
  PROVE  \A i \in 1 .. Len(trail') : Assumes(i)'
<1> TAKE i \in 1 .. Len(trail')
<1>1. Len(trail) \in Nat /\ Len(trail') = Len(trail) + 1
  BY TrailFacts DEF Grown
<1>2. CASE i \in 1 .. Len(trail)
  <2>1. /\ trail'[i] = trail[i] /\ level'[VarOf(trail[i])] = level[VarOf(trail[i])]
        /\ reason'[VarOf(trail[i])] = reason[VarOf(trail[i])]
    BY <1>2 DEF Grown, Prefix
  <2> QED BY <1>2, <2>1 DEF Assumes, LevelOf
<1>3. CASE i \notin 1 .. Len(trail)
  <2>1. i = Len(trail) + 1
    BY <1>1, <1>3
  <2>2. trail'[i] = l /\ level'[VarOf(l)] = k /\ reason'[VarOf(l)] = r
    BY <2>1 DEF Grown
  <2> QED BY <2>2 DEF Assumes, LevelOf
<1> QED BY <1>2, <1>3

(* The trail and the clauses are left alone.                               *)
LEMMA QuietParts ==
  ASSUME TrailInv, EntailInv, UNCHANGED <<trailVars, dbVars, cnf>>,
         InSearch' => (InSearch /\ assumps' = assumps) \/ DecisionLevel = 0
  PROVE  DbFollows' /\ DecisionsPart'
<1>1. DbFollows /\ UNCHANGED <<trail, level, reason, marker, lits, constr, learnts, watch, cnf>>
  BY DEF EntailInv, trailVars, dbVars
<1>2. DbFollows'
  <2>1. ClausesFollow'
    BY <1>1, ClausesStep DEF DbFollows, Live
  <2>2. BinariesFollow'
    BY <1>1, BinariesStep DEF DbFollows
  <2>3. TopFollows'
    BY <1>1, TopStep DEF DbFollows, LevelOf
  <2> QED BY <2>1, <2>2, <2>3 DEF DbFollows
<1>3. DecisionsPart'
  <2> SUFFICES ASSUME InSearch' PROVE \A i \in 1 .. Len(trail) : Assumes(i)'
    BY <1>1 DEF DecisionsPart
  <2>1. CASE InSearch /\ assumps' = assumps
    BY <1>1, <2>1 DEF EntailInv, DecisionsPart, Assumes, LevelOf
  <2>2. CASE DecisionLevel = 0
    <3>1. \A i \in 1 .. Len(trail) : LevelOf(trail[i]) = 0
      BY <2>2, TrailFacts
    <3>2. \A i \in 1 .. Len(trail) : LevelOf(trail[i])' = 0
      BY <1>1, <3>1 DEF LevelOf
    <3> QED BY <1>1, <3>2 DEF Assumes
  <2> QED BY <2>1, <2>2
<1> QED BY <1>2, <1>3

LEMMA QuietEntail ==
  ASSUME CoreInv, SearchInv, EntailInv, UNCHANGED <<trailVars, dbVars, cnf>>,
         pc' \notin {"capture", "minimize", "learn"},
         NoModelPart', FinalsPart',
         InSearch' => (InSearch /\ assumps' = assumps) \/ DecisionLevel = 0
  PROVE  EntailInv'
BY QuietParts DEF EntailInv, SearchInv, AnalysisFollows

(* Nothing is refuted and no conflict is explained where solve() is not at *)
(* its end.                                                                *)
LEMMA NotAtEnd ==
  ASSUME EntailInv, cnf \subseteq cnf', sane' \/ (sane' = sane), pc' \notin {"stat", "finish"}
  PROVE  NoModelPart' /\ FinalsPart'
<1>1. FinalsPart'
  BY DEF FinalsPart
<1>2. ~Refuted'
  BY DEF Refuted
<1>3. ~sane' => Models(cnf') = {}
  BY MoreClauses DEF EntailInv, NoModelPart
<1> QED BY <1>1, <1>2, <1>3 DEF NoModelPart
-----------------------------------------------------------------------------
(***************************************************************************)
(* The steps that leave the trail and the clauses alone.                   *)
(***************************************************************************)
LEMMA SameEntail ==
  ASSUME CoreInv, SearchInv, EntailInv,
         UNCHANGED <<trailVars, dbVars, anaVars, sane, assumps, answerVars, ctlVars, cnf>>
  PROVE  EntailInv'
<1>1. /\ UNCHANGED <<val, level, reason, trail, head, marker>>
      /\ UNCHANGED <<lits, constr, learnts, watch>>
      /\ UNCHANGED <<analyzer, resolving, mark, lower, uip, count, last, learnt>>
      /\ UNCHANGED <<sane, assumps, stat, conflicts, finals, pc, cont, cnf>>
  BY DEF trailVars, dbVars, anaVars, captureVars, answerVars, ctlVars
<1>2. DbFollows'
  BY <1>1 DEF EntailInv, DbFollows, ClausesFollow, BinariesFollow, TopFollows, Follows, Entails, Live, LevelOf
<1>3. AnalysisFollows'
  BY <1>1 DEF EntailInv, AnalysisFollows, Follows, Entails, Resolvent
<1>4. NoModelPart'
  BY <1>1 DEF EntailInv, NoModelPart, Refuted
<1>6. DecisionsPart'
  BY <1>1 DEF EntailInv, DecisionsPart, InSearch, Inside, Adding, Assumes, LevelOf
<1>5. FinalsPart'
  BY <1>1 DEF EntailInv, FinalsPart, Follows, Entails, Eval, LevelOf
<1> QED BY <1>2, <1>3, <1>4, <1>5, <1>6 DEF EntailInv

LEMMA StopEntail == ASSUME CoreInv, SearchInv, EntailInv, Stop PROVE EntailInv'
BY SameEntail DEF Stop, clientVars

LEMMA StutterEntail == ASSUME CoreInv, SearchInv, EntailInv, UNCHANGED vars PROVE EntailInv'
BY SameEntail DEF vars, clientVars

LEMMA NewVariableEntail == ASSUME CoreInv, SearchInv, EntailInv, NewVariable PROVE EntailInv'
<1>1. /\ pc = "idle" /\ UNCHANGED <<trailVars, dbVars, cnf, sane>> /\ pc' = "idle"
  BY DEF NewVariable, clientVars, ctlVars
<1>2. NoModelPart' /\ FinalsPart'
  BY <1>1, NotAtEnd
<1> QED BY <1>1, <1>2, QuietEntail DEF InSearch, Inside

LEMMA SetBudgetEntail ==
  ASSUME CoreInv, SearchInv, EntailInv, NEW b \in Budgets, SetBudget(b)
  PROVE  EntailInv'
BY SameEntail DEF SetBudget, clientVars

LEMMA SolveEntail ==
  ASSUME CoreInv, SearchInv, EntailInv, NEW A \in Assumptions, Solve(A)
  PROVE  EntailInv'
<1>1. /\ UNCHANGED <<trailVars, dbVars, cnf, sane>> /\ pc' = "entry"
  BY DEF Solve, GoTo
<1>2. NoModelPart' /\ FinalsPart'
  BY <1>1, NotAtEnd
<1> QED BY <1>1, <1>2, QuietEntail DEF InSearch, Inside

LEMMA SolveInitEntail == ASSUME CoreInv, SearchInv, EntailInv, SolveInit PROVE EntailInv'
<1>1. /\ UNCHANGED <<trailVars, dbVars, cnf, sane>> /\ pc' \in {"imply", "idle"} /\ DecisionLevel = 0
  BY DEF SolveInit, GoTo, clientVars, SearchInv, ControlPart, LevelPart
<1>2. NoModelPart' /\ FinalsPart'
  BY <1>1, NotAtEnd
<1> QED BY <1>1, <1>2, QuietEntail

LEMMA SkipSweepEntail == ASSUME CoreInv, SearchInv, EntailInv, SkipSweep PROVE EntailInv'
<1>1. /\ UNCHANGED <<trailVars, dbVars, cnf, sane, assumps>> /\ pc = "sweep" /\ pc' \in {"search", "reduce"}
  BY DEF SkipSweep, SweepExit, GoTo, clientVars
<1>2. NoModelPart' /\ FinalsPart'
  BY <1>1, NotAtEnd
<1> QED BY <1>1, <1>2, QuietEntail DEF InSearch, Inside, Adding

LEMMA StartSearchEntail == ASSUME CoreInv, SearchInv, EntailInv, StartSearch PROVE EntailInv'
<1>1. /\ UNCHANGED <<trailVars, dbVars, cnf, sane, assumps>> /\ pc = "search" /\ pc' = "imply"
  BY DEF StartSearch, GoTo, clientVars
<1>2. NoModelPart' /\ FinalsPart'
  BY <1>1, NotAtEnd
<1> QED BY <1>1, <1>2, QuietEntail DEF InSearch, Inside, Adding

LEMMA GoAheadEntail == ASSUME CoreInv, SearchInv, EntailInv, GoAhead PROVE EntailInv'
<1>1. /\ UNCHANGED <<trailVars, dbVars, cnf, sane, assumps>> /\ pc = "check" /\ pc' \in {"sweep", "reduce"}
  BY DEF GoAhead, GoTo, clientVars
<1>2. NoModelPart' /\ FinalsPart'
  BY <1>1, NotAtEnd
<1> QED BY <1>1, <1>2, QuietEntail DEF InSearch, Inside, Adding

LEMMA ImplicationDoneEntail ==
  ASSUME CoreInv, SearchInv, EntailInv, ImplicationDone
  PROVE  EntailInv'
<1>1. /\ UNCHANGED <<trailVars, dbVars, cnf, sane, assumps>> /\ pc = "imply"
      /\ pc' \in {"idle", "sweep", "check"} /\ (cont = "add" => pc' = "idle")
  BY DEF ImplicationDone, EndImplication, GoTo, clientVars
<1>2. NoModelPart' /\ FinalsPart'
  BY <1>1, NotAtEnd
<1> QED BY <1>1, <1>2, QuietEntail DEF InSearch, Inside, Adding

LEMMA RestartEntail == ASSUME CoreInv, SearchInv, EntailInv, Restart PROVE EntailInv'
<1>1. /\ UNCHANGED <<trailVars, dbVars, cnf, sane, assumps, stat, finals>>
      /\ pc = "stat" /\ pc' \in {"search", "finish"}
  BY DEF Restart, GoTo, clientVars, answerVars
<1>2. NoModelPart'
  BY <1>1 DEF EntailInv, NoModelPart, Refuted
<1>3. FinalsPart'
  BY <1>1 DEF EntailInv, FinalsPart, Follows, Entails, Eval, LevelOf, trailVars
<1> QED BY <1>1, <1>2, <1>3, QuietEntail DEF InSearch, Inside, Adding

LEMMA NothingToDecideEntail ==
  ASSUME CoreInv, SearchInv, EntailInv, NothingToDecide
  PROVE  EntailInv'
<1>1. /\ UNCHANGED <<trailVars, dbVars, cnf, sane, assumps>>
      /\ pc = "decide" /\ pc' = "stat" /\ stat' = "sat"
  BY DEF NothingToDecide, Deciding, GoTo, clientVars
<1>2. NoModelPart' /\ FinalsPart'
  BY <1>1 DEF EntailInv, NoModelPart, FinalsPart, Refuted
<1> QED BY <1>1, <1>2, QuietEntail DEF InSearch, Inside, Adding

LEMMA RefuteAssumptionEntail ==
  ASSUME CoreInv, SearchInv, EntailInv, RefuteAssumption
  PROVE  EntailInv'
<1>1. /\ UNCHANGED <<trailVars, dbVars, cnf, sane, assumps>>
      /\ pc = "decide" /\ pc' = "stat" /\ Assuming /\ Eval(Assumed) = -1
      /\ finals' = finals \cup Finals(-Assumed)
  BY DEF RefuteAssumption, Assuming, GoTo, clientVars
<1>2. finals = {}
  BY <1>1 DEF SearchInv, ControlPart, PlacePart, Adding
<1>3. finals' = Finals(-Assumed) /\ finals' # {}
  BY <1>1, <1>2 DEF Finals
<1>4. NoModelPart'
  BY <1>1, <1>3 DEF EntailInv, NoModelPart, Refuted
<1>5. FinalsPart'
  <2>1. /\ Follows(Finals(-Assumed))
        /\ \A m \in Finals(-Assumed) :
             \/ -m \in Elems(assumps)
             \/ m \in Elems(assumps) /\ Eval(m) = -1 /\ LevelOf(m) = 0
    BY <1>1, FinalsExplain
  <2>2. Entails(cnf', finals')
    BY <1>1, <1>3, <2>1 DEF Follows
  <2>3. \A m \in finals' :
          \/ -m \in Elems(assumps')
          \/ m \in Elems(assumps') /\ ValueOf(val', m) = -1 /\ level'[VarOf(m)] = 0
    BY <1>1, <1>3, <2>1 DEF Eval, LevelOf, trailVars
  <2> QED BY <2>2, <2>3 DEF FinalsPart, Follows, Eval, LevelOf
<1> QED BY <1>1, <1>4, <1>5, QuietEntail DEF InSearch, Inside, Adding
-----------------------------------------------------------------------------
(***************************************************************************)
(* Backtracking, deletion and decisions.                                   *)
(***************************************************************************)
LEMMA ToTopEntail ==
  ASSUME CoreInv, SearchInv, EntailInv, BacktrackTo(0), UNCHANGED <<dbVars, cnf>>,
         pc' \notin {"capture", "minimize", "learn"}, NoModelPart', FinalsPart'
  PROVE  EntailInv'
<1>1. /\ TrailInv /\ TrailInv' /\ DecisionLevel' = 0 /\ Backtrack(0) /\ 0 \in Nat
      /\ UNCHANGED <<lits, constr, learnts, watch>> /\ DbFollows
  BY ToTop DEF BacktrackTo, SearchInv, EntailInv, dbVars
<1>2. Prefix(Len(trail')) /\ Len(trail') \in Nat
  BY <1>1, BacktrackFacts DEF TrailInv, TrailTypeOK
<1>3. ClausesFollow' /\ BinariesFollow' /\ TopFollows'
  <2>1. ClausesFollow'
    BY <1>1, ClausesStep DEF DbFollows, Live
  <2>2. BinariesFollow'
    BY <1>1, BinariesStep DEF DbFollows
  <2> QED BY <1>1, <1>2, <2>1, <2>2, PrefixFollows DEF DbFollows
<1>4. DecisionsPart'
  <2>1. ASSUME NEW i \in 1 .. Len(trail')
        PROVE  level'[VarOf(trail'[i])] \in 0 .. 0
    <3>1. trail' \in Seq(Lit) /\ level' \in [Var -> Nat]
      BY <1>1 DEF TrailInv, TrailTypeOK
    <3>2. trail'[i] \in Lit
      BY <3>1
    <3>3. VarOf(trail'[i]) \in Var
      BY <3>2, LitFacts
    <3>4. level'[VarOf(trail'[i])] <= 0
      BY <1>1 DEF TrailInv, LevelsMatchMarkers, LevelOf
    <3> QED BY <3>1, <3>3, <3>4
  <2> QED BY <2>1 DEF DecisionsPart, Assumes, LevelOf
<1> QED BY <1>3, <1>4 DEF EntailInv, DbFollows, AnalysisFollows

LEMMA GiveUpEntail == ASSUME CoreInv, SearchInv, EntailInv, GiveUp PROVE EntailInv'
<1>1. /\ BacktrackTo(0) /\ UNCHANGED <<dbVars, cnf, sane>> /\ pc' = "stat" /\ stat' = "unknown"
  BY DEF GiveUp, GoTo, clientVars
<1>2. NoModelPart' /\ FinalsPart'
  BY <1>1 DEF EntailInv, NoModelPart, FinalsPart, Refuted
<1> QED BY <1>1, <1>2, ToTopEntail

LEMMA FinishEntail == ASSUME CoreInv, SearchInv, EntailInv, Finish PROVE EntailInv'
<1>1. /\ BacktrackTo(0) /\ UNCHANGED <<dbVars, cnf>> /\ pc' \in {"idle", "error"} /\ pc = "finish"
      /\ sane' = (sane /\ ~(stat = "unsat" /\ finals = {}))
  BY DEF Finish, GoTo, clientVars, Halt
<1>2. FinalsPart' /\ ~Refuted'
  BY <1>1 DEF FinalsPart, Refuted
<1>3. ~sane' => Models(cnf') = {}
  <2> SUFFICES ASSUME ~sane' PROVE Models(cnf) = {}
    BY <1>1
  <2>1. ~sane \/ Refuted
    BY <1>1 DEF Refuted
  <2> QED BY <2>1 DEF EntailInv, NoModelPart
<1> QED BY <1>1, <1>2, <1>3, ToTopEntail DEF NoModelPart

LEMMA DetachFollows ==
  ASSUME CoreInv, EntailInv, cnf' = cnf, NEW D \in SUBSET Live, NEW both \in BOOLEAN,
         DetachClauses(D, both)
  PROVE  ClausesFollow' /\ BinariesFollow'
<1>1. /\ \A c \in ClauseId : c \notin D => lits'[c] = lits[c]
      /\ Live' = Live \ D
      /\ \A l, w \in Lit : watch'[l][w] # 0 => watch'[l][w] = watch[l][w]
  BY WatcherKinds DEF DetachClauses, Live
<1>2. Live \subseteq ClauseId /\ watch \in [Lit -> [Watcher -> Nat]]
  BY DEF CoreInv, DbPart, ImplTypeOK, Live
<1>3. ClausesFollow'
  <2>1. \A c \in Live' : c \in Live /\ Elems(lits'[c]) = Elems(lits[c])
    BY <1>1, <1>2
  <2> QED BY <2>1, ClausesStep DEF EntailInv, DbFollows
<1>4. BinariesFollow'
  <2>1. \A l, w \in Lit : watch'[l][w] > 0 => watch[l][w] > 0
    BY <1>1
  <2> QED BY <2>1, BinariesStep DEF EntailInv, DbFollows
<1> QED BY <1>3, <1>4

LEMMA DetachEntail ==
  ASSUME CoreInv, SearchInv, EntailInv, cnf' = cnf, NEW D \in SUBSET Live, NEW both \in BOOLEAN,
         DetachClauses(D, both), UNCHANGED <<trailVars, assumps, sane>>,
         InSearch, pc' \in {"search", "reduce", "decide"}
  PROVE  EntailInv'
<1>1. UNCHANGED <<val, level, reason, trail>> /\ DbFollows
  BY DEF trailVars, EntailInv
<1>2. ClausesFollow' /\ BinariesFollow'
  BY DetachFollows
<1>3. TopFollows'
  BY <1>1, TopStep DEF DbFollows, LevelOf
<1>4. NoModelPart' /\ FinalsPart'
  BY NotAtEnd
<1>5. DecisionsPart'
  BY <1>1 DEF EntailInv, DecisionsPart, Assumes, LevelOf
<1> QED BY <1>2, <1>3, <1>4, <1>5 DEF EntailInv, DbFollows, AnalysisFollows

LEMMA ReduceEntail == ASSUME CoreInv, SearchInv, EntailInv, Reduce PROVE EntailInv'
<1>1. /\ UNCHANGED <<trailVars, cnf, assumps, sane>> /\ pc = "reduce" /\ pc' = "decide"
  BY DEF Reduce, GoTo, clientVars
<1>2. InSearch
  BY <1>1 DEF InSearch, Inside, Adding
<1>3. CASE UNCHANGED dbVars
  <2>1. NoModelPart' /\ FinalsPart'
    BY <1>1, NotAtEnd
  <2> QED BY <1>1, <1>2, <1>3, <2>1, QuietEntail
<1>4. ASSUME NEW F \in SUBSET learnts, NEW E \in SUBSET learnts,
             DetachClauses({c \in F \cup E : ~Locked(c)}, FALSE)
      PROVE  EntailInv'
  <2> DEFINE D == {c \in F \cup E : ~Locked(c)}
  <2>1. D \in SUBSET Live /\ FALSE \in BOOLEAN /\ DetachClauses(D, FALSE)
    BY <1>4 DEF Live
  <2> HIDE DEF D
  <2> QED BY <1>1, <1>2, <2>1, DetachEntail
<1> QED BY <1>3, <1>4 DEF Reduce

LEMMA SweepEntail == ASSUME CoreInv, SearchInv, EntailInv, Sweep PROVE EntailInv'
<1>1. /\ UNCHANGED <<trailVars, cnf, assumps, sane>> /\ pc = "sweep" /\ pc' \in {"search", "reduce"}
      /\ DetachClauses(Sweepable, TRUE)
  BY DEF Sweep, SweepExit, GoTo, clientVars
<1>2. Sweepable \in SUBSET Live /\ InSearch
  BY <1>1 DEF Sweepable, InSearch, Inside, Adding
<1> QED BY <1>1, <1>2, DetachEntail

LEMMA DecisionEntail ==
  ASSUME CoreInv, SearchInv, EntailInv, pc = "decide", NEW l \in Lit, Eval(l) = 0, Decide(l),
         DecisionLevel + 1 \in 1 .. Len(assumps) => l = assumps[DecisionLevel + 1],
         pc' = "imply", cont' = "search", UNCHANGED <<dbVars, cnf, assumps, sane>>
  PROVE  EntailInv'
<1>1. /\ TrailInv /\ ~HasElem /\ DbFollows /\ DecisionLevel \in Nat
      /\ UNCHANGED <<lits, constr, learnts, watch>>
  BY TrailFacts DEF SearchInv, ControlPart, QueuePart, EntailInv, dbVars
<1> DEFINE k == DecisionLevel + 1
<1>2. Grown(l, k, None)
  BY <1>1, DecideFacts
<1>3. k # 0
  BY <1>1
<1> HIDE DEF k
<1>4. TopFollows'
  BY <1>1, <1>2, <1>3, GrownFollows DEF DbFollows
<1>5. ClausesFollow' /\ BinariesFollow'
  BY <1>1, ClausesStep, BinariesStep DEF DbFollows, Live
<1>6. NoModelPart' /\ FinalsPart'
  BY NotAtEnd
<1>7. \A i \in 1 .. Len(trail) : Assumes(i)
  BY DEF EntailInv, DecisionsPart, InSearch, Inside, Adding
<1>8. DecisionsPart'
  <2>1. None = None /\ k \in 1 .. Len(assumps) => l = assumps[k]
    BY DEF k
  <2>2. \A i \in 1 .. Len(trail') : Assumes(i)'
    BY <1>1, <1>2, <1>7, <2>1, GrownDecisions
  <2> QED BY <2>2 DEF DecisionsPart
<1> QED BY <1>4, <1>5, <1>6, <1>8 DEF EntailInv, DbFollows, AnalysisFollows

LEMMA DecideAssumptionEntail ==
  ASSUME CoreInv, SearchInv, EntailInv, DecideAssumption
  PROVE  EntailInv'
<1>1. /\ pc = "decide" /\ Assuming /\ Eval(Assumed) = 0 /\ Decide(Assumed)
      /\ pc' = "imply" /\ cont' = "search" /\ UNCHANGED <<dbVars, cnf, assumps, sane>>
  BY DEF DecideAssumption, Assuming, GoTo, clientVars
<1>2. Assumed \in Lit
  BY <1>1, AssumedIsLit
<1>3. DecisionLevel + 1 \in 1 .. Len(assumps) => Assumed = assumps[DecisionLevel + 1]
  BY DEF Assumed
<1> QED BY <1>1, <1>2, <1>3, DecisionEntail

LEMMA DecideFreeEntail ==
  ASSUME CoreInv, SearchInv, EntailInv, DecideFree
  PROVE  EntailInv'
<1>1. /\ pc = "decide" /\ Deciding
      /\ pc' = "imply" /\ cont' = "search" /\ UNCHANGED <<dbVars, cnf, assumps, sane>>
  BY DEF DecideFree, Deciding, GoTo, clientVars
<1>2. PICK v \in heap \ Assigned(heap) : \E s \in PhasesOf(v) : Decide(s * v)
  BY DEF DecideFree
<1>3. PICK s \in PhasesOf(v) : Decide(s * v)
  BY <1>2
<1> DEFINE l == s * v
<1>4. l \in Lit /\ Eval(l) = 0 /\ Decide(l)
  BY <1>3, FreeDecision DEF SearchInv
<1>5. DecisionLevel + 1 \notin 1 .. Len(assumps)
  <2>1. DecisionLevel \in Nat /\ DecisionLevel >= Len(assumps) /\ Len(assumps) \in Nat
    BY <1>1, TrailFacts DEF SearchInv, Deciding, CoreInv, QueryPart
  <2> QED BY <2>1
<1> HIDE DEF l
<1> QED BY <1>1, <1>4, <1>5, DecisionEntail

LEMMA SkipAssumptionEntail ==
  ASSUME CoreInv, SearchInv, EntailInv, SkipAssumption
  PROVE  EntailInv'
<1>1. /\ SetMarker /\ UNCHANGED <<dbVars, cnf, assumps, sane>> /\ pc = "decide" /\ pc' = "decide"
  BY DEF SkipAssumption, Assuming, clientVars, ctlVars
<1>2. /\ TrailInv /\ DbFollows /\ UNCHANGED <<val, level, reason, trail, lits, constr, learnts, watch>>
  BY <1>1 DEF SetMarker, SearchInv, EntailInv, dbVars
<1>3. TopFollows' /\ ClausesFollow' /\ BinariesFollow'
  BY <1>1, <1>2, TopStep, ClausesStep, BinariesStep DEF DbFollows, Live, LevelOf
<1>4. NoModelPart' /\ FinalsPart'
  BY <1>1, NotAtEnd
<1>5. DecisionsPart'
  BY <1>1, <1>2 DEF EntailInv, DecisionsPart, Assumes, LevelOf, InSearch, Inside, Adding
<1> QED BY <1>1, <1>3, <1>4, <1>5 DEF EntailInv, DbFollows, AnalysisFollows
-----------------------------------------------------------------------------
(***************************************************************************)
(* Propagation.                                                            *)
(***************************************************************************)
LEMMA SwappedElems ==
  ASSUME NEW s \in Seq(Lit), NEW i \in 1 .. Len(s), NEW j \in 1 .. Len(s)
  PROVE  Elems(Swapped(s, i, j)) = Elems(s)
<1> DEFINE t == Swapped(s, i, j)
<1>1. /\ t \in Seq(Lit) /\ Len(t) = Len(s) /\ t[j] = s[i] /\ t[i] = s[j]
      /\ \A k \in 1 .. Len(s) : k # i /\ k # j => t[k] = s[k]
  BY SwappedFacts
<1>2. Elems(s) = {s[k] : k \in 1 .. Len(s)} /\ Elems(t) = {t[k] : k \in 1 .. Len(s)}
  BY <1>1 DEF Elems
<1> HIDE DEF t
<1>3. ASSUME NEW k \in 1 .. Len(s) PROVE t[k] \in Elems(s) /\ s[k] \in Elems(t)
  <2>1. CASE k = i
    BY <1>1, <1>2, <2>1
  <2>2. CASE k = j
    BY <1>1, <1>2, <2>2
  <2>3. CASE k # i /\ k # j
    BY <1>1, <1>2, <2>3
  <2> QED BY <2>1, <2>2, <2>3
<1> QED BY <1>2, <1>3 DEF t

LEMMA SwappedDecided ==
  ASSUME NEW s \in Seq(Lit), NEW i \in 1 .. Len(s), NEW j \in 1 .. Len(s), Decided(s)
  PROVE  Decided(Swapped(s, i, j))
<1> DEFINE t == Swapped(s, i, j)
           from(p) == IF p = i THEN j ELSE IF p = j THEN i ELSE p
<1>1. /\ t \in Seq(Lit) /\ Len(t) = Len(s) /\ t[j] = s[i] /\ t[i] = s[j]
      /\ \A p \in 1 .. Len(s) : p # i /\ p # j => t[p] = s[p]
  BY SwappedFacts
<1>2. DOMAIN t = 1 .. Len(s) /\ DOMAIN s = 1 .. Len(s)
  BY <1>1
<1> HIDE DEF t
<1>3. \A p \in 1 .. Len(s) : t[p] = s[from(p)] /\ from(p) \in 1 .. Len(s)
  BY <1>1
<1>4. \A p, q \in 1 .. Len(s) : p # q => from(p) # from(q)
  OBVIOUS
<1> HIDE DEF from
<1>5. Decided(t)
  BY <1>2, <1>3, <1>4 DEF Decided
<1> QED BY <1>5 DEF t

LEMMA OrientedDecided ==
  ASSUME DbPart, NEW c \in Live, Decided(lits[c])
  PROVE  Decided(Oriented(c))
<1>1. lits[c] \in Seq(Lit) /\ 1 \in 1 .. Len(lits[c]) /\ 2 \in 1 .. Len(lits[c])
  BY ClauseFacts
<1> QED BY <1>1, SwappedDecided DEF Oriented

(* implication() reorders literals of clauses and moves their watchers,    *)
(* and touches no binary clause.                                           *)
RewritesOnly ==
  /\ constr' = constr /\ learnts' = learnts
  /\ \A c \in Live : Elems(lits'[c]) = Elems(lits[c]) /\ (Decided(lits[c]) => Decided(lits'[c]))
  /\ \A a, b \in Lit : watch'[a][b] = watch[a][b]

LEMMA RewritesOne ==
  ASSUME DbPart, NEW c \in Live, NEW s, lits' = [lits EXCEPT ![c] = s], Elems(s) = Elems(lits[c]),
         Decided(lits[c]) => Decided(s),
         constr' = constr, learnts' = learnts, \A a, b \in Lit : watch'[a][b] = watch[a][b]
  PROVE  RewritesOnly
<1> SUFFICES ASSUME NEW d \in Live
             PROVE  Elems(lits'[d]) = Elems(lits[d]) /\ (Decided(lits[d]) => Decided(lits'[d]))
  BY DEF RewritesOnly
<1>1. d \in ClauseId /\ lits \in [ClauseId -> Seq(Lit)]
  BY DEF Live, DbPart, ImplTypeOK
<1>2. lits'[d] = IF d = c THEN s ELSE lits[d]
  BY <1>1
<1>3. CASE d = c
  BY <1>2, <1>3
<1>4. CASE d # c
  BY <1>2, <1>4
<1> QED BY <1>3, <1>4

LEMMA ClauseRewrites ==
  ASSUME CoreInv, SearchInv, NEW c \in ClauseId, todo[c] > 0,
         SkipClause(c) \/ MoveWatch(c) \/ ImplyClause(c)
  PROVE  RewritesOnly
<1>0. c \in Watcher /\ DbPart /\ watch \in [Lit -> [Watcher -> Nat]]
  BY WatcherKinds DEF CoreInv, DbPart, ImplTypeOK
<1>1. c \in Live /\ pl \in Lit /\ (pl = -wl0(c) \/ pl = -wl1(c))
  BY <1>0, ReadFacts
<1> DEFINE s == Oriented(c)
<1>2. s \in Seq(Lit) /\ Len(s) = Len(lits[c]) /\ Len(s) >= 3 /\ Len(s) \in Nat
      /\ Elems(s) = Elems(lits[c]) /\ (Decided(lits[c]) => Decided(s))
  BY <1>0, <1>1, OrientedFacts, ClauseFacts, OrientedMore, OrientedDecided
<1>3. CASE SkipClause(c) \/ ImplyClause(c)
  <2>1. lits' = [lits EXCEPT ![c] = s] /\ UNCHANGED <<constr, learnts, watch>>
    BY <1>3 DEF SkipClause, ImplyClause
  <2> HIDE DEF s
  <2> QED BY <1>0, <1>1, <1>2, <2>1, RewritesOne
<1>4. CASE MoveWatch(c)
  <2>1. PICK i \in 3 .. Len(lits[c]) :
          /\ lits' = [lits EXCEPT ![c] = Swapped(s, 2, i)]
          /\ watch' = Moved(c, -s[i])
    BY <1>4 DEF MoveWatch
  <2>2. UNCHANGED <<constr, learnts>>
    BY <1>4 DEF MoveWatch
  <2>3. \A a, b \in Lit : watch'[a][b] = watch[a][b]
    <3> TAKE a, b \in Lit
    <3>1. c \notin Lit /\ b # c /\ b \in Watcher
      BY WatcherKinds
    <3>2. s[i] \in Lit /\ -s[i] \in Lit
      BY <1>2, ElementOfSeq, LitFacts
    <3> HIDE DEF s
    <3> QED BY <1>0, <1>1, <2>1, <3>1, <3>2 DEF Moved
  <2>4. 2 \in 1 .. Len(s) /\ i \in 1 .. Len(s)
    BY <1>2
  <2> HIDE DEF s
  <2>5. /\ Elems(Swapped(s, 2, i)) = Elems(lits[c])
        /\ Decided(lits[c]) => Decided(Swapped(s, 2, i))
    BY <1>2, <2>4, SwappedElems, SwappedDecided
  <2> QED BY <1>0, <1>1, <2>1, <2>2, <2>3, <2>5, RewritesOne
<1> QED BY <1>3, <1>4

LEMMA PropagateRewrites ==
  ASSUME CoreInv, SearchInv, Propagate
  PROVE  RewritesOnly
<1>1. CASE UNCHANGED dbVars
  BY <1>1 DEF dbVars, RewritesOnly
<1>2. CASE NextLiteral
  BY <1>1, <1>2 DEF NextLiteral
<1>3. ASSUME NEW w \in Watcher, todo[w] > 0,
             IF w \in Lit THEN SkipBinary(w) \/ ImplyBinary(w)
             ELSE SkipClause(w) \/ MoveWatch(w) \/ ImplyClause(w)
      PROVE  RewritesOnly
  <2>1. CASE w \in Lit
    BY <1>1, <1>3, <2>1 DEF SkipBinary, ImplyBinary
  <2>2. CASE w \notin Lit
    BY <1>3, <2>2, ClauseRewrites DEF Watcher
  <2> QED BY <2>1, <2>2
<1> QED BY <1>2, <1>3 DEF Propagate

(* What implication() assigns; at level 0 it follows.                      *)
Implied(l, r) ==
  /\ l \in Lit /\ r \in Watcher /\ Eval(l) = 0 /\ Assign(l, r)
  /\ DecisionLevel = 0 => Follows({l})

LEMMA BinaryImplied ==
  ASSUME CoreInv, SearchInv, EntailInv, NEW w \in Lit, todo[w] > 0, ImplyBinary(w)
  PROVE  Implied(w, -pl)
<1>1. /\ w \in Watcher /\ TrailInv /\ TopFollows /\ Eval(w) = 0 /\ Assign(w, -pl)
  BY WatcherKinds DEF SearchInv, EntailInv, DbFollows, ImplyBinary
<1>2. /\ pl \in Lit /\ -pl \in Lit /\ Eval(-pl) = -1 /\ watch[pl][w] > 0
  BY <1>1, ReadFacts
<1>3. Follows({-pl, w})
  BY <1>2 DEF EntailInv, DbFollows, BinariesFollow
<1>4. DecisionLevel = 0 => Follows({w})
  <2>1. {-pl, w} \in SUBSET Lit /\ w \in {-pl, w} /\ \A q \in {-pl, w} : q = w \/ Eval(q) = -1
    BY <1>2
  <2> QED BY <1>1, <1>3, <2>1, UnitAtTop
<1> QED BY <1>1, <1>2, <1>4, WatcherKinds DEF Implied

LEMMA ClauseImplied ==
  ASSUME CoreInv, SearchInv, EntailInv, NEW c \in ClauseId, todo[c] > 0, ImplyClause(c)
  PROVE  Implied(Oriented(c)[1], c)
<1>0. c \in Watcher /\ DbPart /\ TrailInv /\ TopFollows
  BY WatcherKinds DEF CoreInv, SearchInv, EntailInv, DbFollows
<1>1. /\ c \in Live /\ pl \in Lit /\ (pl = -wl0(c) \/ pl = -wl1(c)) /\ Eval(-pl) = -1
  BY <1>0, ReadFacts
<1> DEFINE s == Oriented(c)
           l == s[1]
<1>2. s \in Seq(Lit) /\ Len(s) >= 3 /\ Len(s) \in Nat /\ l \in Lit /\ s[2] = -pl
      /\ Elems(s) = Elems(lits[c])
  BY <1>0, <1>1, OrientedFacts, ClauseFacts, OrientedMore
<1>3. Eval(l) = 0 /\ NoReplacement(s) /\ Assign(l, c)
  BY DEF ImplyClause
<1> HIDE DEF s
<1>4. \A q \in Elems(s) : q = l \/ Eval(q) = -1
  <2> TAKE q \in Elems(s)
  <2>1. PICK i \in 1 .. Len(s) : q = s[i]
    BY <1>2 DEF Elems
  <2>2. CASE i = 1
    BY <2>1, <2>2
  <2>3. CASE i = 2
    BY <1>1, <1>2, <2>1, <2>3
  <2>4. CASE i # 1 /\ i # 2
    <3>1. i \in 3 .. Len(s)
      BY <1>2, <2>4
    <3> QED BY <1>3, <2>1, <3>1 DEF NoReplacement
  <2> QED BY <2>2, <2>3, <2>4
<1>5. DecisionLevel = 0 => Follows({l})
  <2>1. Follows(Elems(s)) /\ Elems(s) \in SUBSET Lit
    BY <1>1, <1>2, ElemsOfSeq DEF EntailInv, DbFollows, ClausesFollow
  <2>2. l \in Elems(s)
    <3>1. 1 \in DOMAIN s
      BY <1>2
    <3> QED BY <3>1 DEF Elems
  <2> HIDE DEF l
  <2> QED BY <1>0, <1>4, <2>1, <2>2, UnitAtTop
<1> QED BY <1>0, <1>2, <1>3, <1>5 DEF Implied, s

LEMMA PropagateAssigns ==
  ASSUME CoreInv, SearchInv, EntailInv, Propagate
  PROVE  \/ UNCHANGED <<val, level, reason, trail, marker>>
         \/ \E l \in Lit, r \in Watcher : Implied(l, r)
<1>1. CASE NextLiteral
  BY <1>1 DEF NextLiteral, GetNext
<1>2. ASSUME NEW w \in Watcher, todo[w] > 0,
             IF w \in Lit THEN SkipBinary(w) \/ ImplyBinary(w)
             ELSE SkipClause(w) \/ MoveWatch(w) \/ ImplyClause(w)
      PROVE  \/ UNCHANGED <<val, level, reason, trail, marker>>
             \/ \E l \in Lit, r \in Watcher : Implied(l, r)
  <2>1. CASE w \in Lit /\ ImplyBinary(w)
    <3>1. Implied(w, -pl)
      BY <1>2, <2>1, BinaryImplied
    <3> QED BY <3>1 DEF Implied
  <2>2. CASE w \notin Lit /\ ImplyClause(w)
    <3>1. Implied(Oriented(w)[1], w)
      BY <1>2, <2>2, ClauseImplied DEF Watcher
    <3> QED BY <3>1 DEF Implied
  <2>3. CASE UNCHANGED trailVars
    BY <2>3 DEF trailVars
  <2> QED BY <1>2, <2>1, <2>2, <2>3 DEF SkipBinary, SkipClause, MoveWatch
<1> QED BY <1>1, <1>2 DEF Propagate

LEMMA RewritesFollow ==
  ASSUME DbFollows, RewritesOnly, cnf' = cnf
  PROVE  ClausesFollow' /\ BinariesFollow'
<1>1. Live' = Live
  BY DEF RewritesOnly, Live
<1>2. ClausesFollow'
  BY <1>1, ClausesStep DEF DbFollows, RewritesOnly
<1>3. BinariesFollow'
  BY BinariesStep DEF DbFollows, RewritesOnly
<1> QED BY <1>2, <1>3

LEMMA PropagateEntail == ASSUME CoreInv, SearchInv, EntailInv, PropagateStep PROVE EntailInv'
<1>1. /\ pc = "imply" /\ pc' = "imply" /\ cont' = cont /\ Propagate
      /\ UNCHANGED <<cnf, assumps, sane>>
  BY DEF PropagateStep, ctlVars, clientVars
<1>2. TrailInv /\ DbFollows /\ DecisionLevel \in Nat
  BY TrailFacts DEF SearchInv, EntailInv
<1>3. ClausesFollow' /\ BinariesFollow'
  BY <1>1, <1>2, PropagateRewrites, RewritesFollow
<1>4. NoModelPart' /\ FinalsPart'
  BY <1>1, NotAtEnd
<1>5. CASE UNCHANGED <<val, level, reason, trail, marker>>
  <2>1. TopFollows'
    BY <1>1, <1>2, <1>5, TopStep DEF DbFollows, LevelOf
  <2>2. DecisionsPart'
    BY <1>1, <1>5 DEF EntailInv, DecisionsPart, Assumes, LevelOf, InSearch, Inside, Adding
  <2> QED BY <1>1, <1>3, <1>4, <2>1, <2>2 DEF EntailInv, DbFollows, AnalysisFollows
<1>6. ASSUME NEW l \in Lit, NEW r \in Watcher, Implied(l, r)
      PROVE  EntailInv'
  <2>1. r \in Reason /\ r # None
    BY WatcherKinds DEF Reason, None
  <2> DEFINE k == DecisionLevel
  <2>2. Grown(l, k, r) /\ (k = 0 => Entails(cnf', {l}))
    BY <1>1, <1>2, <1>6, <2>1, AssignFacts DEF Implied, Follows
  <2> HIDE DEF k
  <2>3. TopFollows'
    BY <1>1, <1>2, <2>2, GrownFollows DEF DbFollows
  <2>4. DecisionsPart'
    <3> SUFFICES ASSUME InSearch' PROVE \A i \in 1 .. Len(trail') : Assumes(i)'
      BY DEF DecisionsPart
    <3>1. \A i \in 1 .. Len(trail) : Assumes(i)
      BY <1>1 DEF EntailInv, DecisionsPart, InSearch, Inside, Adding
    <3> QED BY <1>1, <1>2, <2>1, <2>2, <3>1, GrownDecisions
  <2> QED BY <1>1, <1>3, <1>4, <2>3, <2>4 DEF EntailInv, DbFollows, AnalysisFollows
<1> QED BY <1>1, <1>5, <1>6, PropagateAssigns
-----------------------------------------------------------------------------
(***************************************************************************)
(* Conflicts and what is learnt from them.                                 *)
(***************************************************************************)
LEMMA ConflictFollows ==
  ASSUME CoreInv, SearchInv, EntailInv, NEW w \in Watcher, Conflict(w)
  PROVE  Follows(ConflictLits(w)) /\ RewritesOnly
<1>0. /\ todo[w] > 0 /\ UNCHANGED <<constr, learnts, watch>> /\ DbPart
      /\ lits' = IF w \in Lit THEN lits ELSE [lits EXCEPT ![w] = Oriented(w)]
  BY DEF Conflict, ConflictAt, CoreInv
<1>1. CASE w \in Lit
  <2>1. watch[pl][w] > 0 /\ pl \in Lit
    BY <1>0, ReadFacts
  <2>2. Follows({-pl, w})
    BY <1>1, <2>1 DEF EntailInv, DbFollows, BinariesFollow
  <2>3. ConflictLits(w) = {-pl, w}
    BY <1>1 DEF ConflictLits
  <2> QED BY <1>0, <1>1, <2>2, <2>3 DEF RewritesOnly
<1>2. CASE w \notin Lit
  <2>1. w \in Live /\ pl \in Lit /\ (pl = -wl0(w) \/ pl = -wl1(w))
    BY <1>0, <1>2, ReadFacts DEF Watcher
  <2>2. Follows(ConflictLits(w))
    BY <1>2, <2>1 DEF ConflictLits, EntailInv, DbFollows, ClausesFollow
  <2>3. /\ Elems(Oriented(w)) = Elems(lits[w])
        /\ Decided(lits[w]) => Decided(Oriented(w))
    BY <1>0, <2>1, OrientedMore, OrientedDecided
  <2>4. RewritesOnly
    BY <1>0, <1>2, <2>1, <2>3, RewritesOne
  <2> QED BY <2>2, <2>4
<1> QED BY <1>1, <1>2

LEMMA ConflictEntail == ASSUME CoreInv, SearchInv, EntailInv, ConflictStep PROVE EntailInv'
<1>1. PICK w \in Watcher :
        /\ Conflict(w)
        /\ IF cont = "search" /\ DecisionLevel > 0
             THEN StartAnalysis(ConflictLits(w))
             ELSE UNCHANGED anaVars
  BY DEF ConflictStep
<1>2. /\ \A q \in ConflictLits(w) : Eval(q) = -1
      /\ UNCHANGED trailVars /\ todo[w] > 0
      /\ ConflictLits(w) \in SUBSET Lit
      /\ Follows(ConflictLits(w)) /\ RewritesOnly
  BY <1>1, ConflictFacts, ConflictFollows
<1>3. /\ pc = "imply" /\ UNCHANGED <<finals, cnf, assumps>> /\ TrailInv /\ DbFollows
      /\ DecisionLevel \in Nat /\ cont \in {"add", "search"}
      /\ cont = "add" => DecisionLevel = 0
      /\ cont = "search" => finals = {}
  <2>1. pc = "imply" /\ cont # "init"
    BY <1>2, ReadFacts
  <2> QED BY <2>1, TrailFacts DEF ConflictStep, clientVars, SearchInv, ControlPart, PlacePart,
             LevelPart, Adding, EntailInv
<1>4. ClausesFollow' /\ BinariesFollow' /\ TopFollows'
  <2>1. TopFollows'
    BY <1>2, <1>3, TopStep DEF DbFollows, LevelOf, trailVars
  <2> QED BY <1>2, <1>3, <2>1, RewritesFollow
<1>5. DecisionLevel = 0 => Models(cnf) = {}
  BY <1>2, <1>3, RefutedAtTop DEF DbFollows
<1>6. CASE cont = "add"
  <2>1. GoTo("idle", "none")
    BY <1>6 DEF ConflictStep
  <2>2. pc' = "idle"
    BY <2>1 DEF GoTo
  <2>3. NoModelPart'
    BY <1>3, <1>5, <1>6 DEF NoModelPart
  <2> QED BY <1>4, <2>2, <2>3
      DEF EntailInv, DbFollows, AnalysisFollows, DecisionsPart, InSearch, Inside, FinalsPart
<1>7. CASE cont = "search" /\ DecisionLevel = 0
  <2>1. GoTo("stat", "none")
    BY <1>7 DEF ConflictStep
  <2>2. pc' = "stat"
    BY <2>1 DEF GoTo
  <2>3. NoModelPart'
    BY <1>3, <1>5, <1>7 DEF NoModelPart
  <2>4. FinalsPart'
    BY <1>3, <1>7 DEF FinalsPart
  <2>5. DecisionsPart'
    BY <1>2, <1>3, <1>7, <2>2 DEF EntailInv, DecisionsPart, Assumes, LevelOf, InSearch, Inside, Adding, trailVars
  <2> QED BY <1>4, <2>2, <2>3, <2>4, <2>5 DEF EntailInv, DbFollows, AnalysisFollows
<1>8. CASE cont = "search" /\ DecisionLevel # 0
  <2>1. GoTo("capture", "none") /\ UNCHANGED sane
    BY <1>8 DEF ConflictStep
  <2>2. pc' = "capture"
    BY <2>1 DEF GoTo
  <2>3. NoModelPart' /\ FinalsPart'
    BY <1>3, <2>1, <2>2, NotAtEnd
  <2>4. DecisionsPart'
    BY <1>2, <1>3, <1>8, <2>2 DEF EntailInv, DecisionsPart, Assumes, LevelOf, InSearch, Inside, Adding, trailVars
  <2>5. StartAnalysis(ConflictLits(w))
    BY <1>1, <1>3, <1>8
  <2>6. resolving' = ConflictLits(w)
    BY <2>5 DEF StartAnalysis
  <2>7. Entails(cnf', Resolvent')
    <3>1. ConflictLits(w) \subseteq Resolvent'
      BY <2>6 DEF Resolvent
    <3> QED BY <1>2, <1>3, <3>1 DEF Follows, Entails, Satisfies
  <2>8. AnalysisFollows'
    BY <2>2, <2>7 DEF AnalysisFollows, Follows
  <2> QED BY <1>4, <2>3, <2>4, <2>8 DEF EntailInv, DbFollows
<1> QED BY <1>3, <1>6, <1>7, <1>8

LEMMA CaptureEntail == ASSUME CoreInv, SearchInv, EntailInv, Capture PROVE EntailInv'
<1>1. /\ pc = "capture" /\ UNCHANGED <<trailVars, dbVars, cnf, assumps, sane>>
  BY DEF Capture, clientVars
<1>2. ~CaptureFails
  BY <1>1, CaptureSucceeds
<1>3. PICK i \in 1 .. last :
        \/ ResolveAt(i) /\ GoTo("capture", cont)
        \/ FoundUIP(i) /\ GoTo("minimize", cont)
  BY <1>2 DEF Capture
<1>4. pc' \in {"capture", "minimize"}
  BY <1>3 DEF GoTo
<1>5. NoModelPart' /\ FinalsPart'
  BY <1>1, <1>4, NotAtEnd
<1>6. DbFollows' /\ DecisionsPart'
  BY <1>1, <1>4, QuietParts DEF SearchInv, InSearch, Inside, Adding
<1>7. AnalysisFollows'
  <2>1. CASE ResolveAt(i) /\ GoTo("capture", cont)
    <3>1. Entails(cnf', Resolvent') /\ pc' = "capture"
      BY <1>1, <2>1, ResolveFollows DEF GoTo
    <3> QED BY <3>1 DEF AnalysisFollows, Follows
  <2>2. CASE FoundUIP(i) /\ GoTo("minimize", cont)
    <3>1. Entails(cnf', lower' \cup {uip'}) /\ pc' = "minimize"
      BY <1>1, <2>2, FoundFollows DEF GoTo
    <3> QED BY <3>1 DEF AnalysisFollows, Follows
  <2> QED BY <1>3, <2>1, <2>2
<1> QED BY <1>5, <1>6, <1>7 DEF EntailInv

LEMMA BackjumpEntail == ASSUME CoreInv, SearchInv, EntailInv, Backjump PROVE EntailInv'
<1>1. /\ pc = "minimize" /\ UNCHANGED <<dbVars, cnf, assumps, sane>> /\ pc' = "learn"
  BY DEF Backjump, GoTo, clientVars
<1>2. PICK s \in LearntOrders : learnt' = s /\ BacktrackTo(BackjumpLevel(s))
  BY DEF Backjump
<1>3. /\ BackjumpLevel(s) \in Nat /\ Elems(s) = {Written(q) : q \in Minimal}
      /\ Backtrack(BackjumpLevel(s))
      /\ TrailInv /\ DbFollows
  BY <1>1, <1>2, LearntFacts DEF BacktrackTo, SearchInv, EntailInv
<1>4. Prefix(Len(trail')) /\ Len(trail') \in Nat
  BY <1>3, BacktrackFacts DEF TrailInv, TrailTypeOK
<1>5. ClausesFollow' /\ BinariesFollow' /\ TopFollows'
  <2>1. UNCHANGED <<lits, constr, learnts, watch>>
    BY <1>1 DEF dbVars
  <2>2. TopFollows'
    BY <1>1, <1>3, <1>4, PrefixFollows DEF DbFollows
  <2> QED BY <1>1, <1>3, <2>1, <2>2, ClausesStep, BinariesStep DEF DbFollows, Live
<1>6. NoModelPart' /\ FinalsPart'
  BY <1>1, NotAtEnd
<1>7. DecisionsPart'
  <2>1. \A i \in 1 .. Len(trail) : Assumes(i)
    BY <1>1 DEF EntailInv, DecisionsPart, InSearch, Inside, Adding
  <2>2. \A i \in 1 .. Len(trail') : Assumes(i)'
    BY <1>1, <1>3, <1>4, <2>1, PrefixDecisions
  <2> QED BY <2>2 DEF DecisionsPart
<1>8. AnalysisFollows'
  <2>1. Entails(cnf', Elems(learnt'))
    BY <1>1, <1>2, <1>3, MinimizedFollows DEF Follows
  <2> QED BY <1>1, <2>1 DEF AnalysisFollows, Follows
<1> QED BY <1>5, <1>6, <1>7, <1>8 DEF EntailInv, DbFollows

(* A new clause that follows.                                              *)
LEMMA AttachBinaryFollows ==
  ASSUME CoreInv, DbFollows, cnf \subseteq cnf', NEW s \in Seq(Lit), Len(s) = 2,
         AttachBinary(s), Entails(cnf', Elems(s))
  PROVE  ClausesFollow' /\ BinariesFollow'
<1>1. UNCHANGED <<lits, constr, learnts>> /\ watch' = AddWatchers(-s[1], s[2], -s[2], s[1])
      /\ watch \in [Lit -> [Watcher -> Nat]]
  BY DEF AttachBinary, CoreInv, DbPart, ImplTypeOK
<1>2. /\ s[1] \in Lit /\ s[2] \in Lit /\ -(-s[1]) = s[1] /\ -(-s[2]) = s[2]
      /\ s[1] \in Elems(s) /\ s[2] \in Elems(s)
  <2>1. s[1] \in Lit /\ s[2] \in Lit /\ DOMAIN s = 1 .. 2
    OBVIOUS
  <2> QED BY <2>1, LitFacts DEF Elems
<1>3. Elems(s) = {s[1], s[2]}
  BY DEF Elems
<1>4. ASSUME NEW l \in Lit, NEW w \in Lit, watch'[l][w] > 0
      PROVE  watch[l][w] > 0 \/ Entails(cnf', {-l, w})
  <2>1. w \in Watcher
    BY WatcherKinds
  <2>2. watch[l][w] > 0 \/ (l = -s[1] /\ w = s[2]) \/ (l = -s[2] /\ w = s[1])
    BY <1>1, <1>4, <2>1 DEF AddWatchers
  <2>3. CASE (l = -s[1] /\ w = s[2]) \/ (l = -s[2] /\ w = s[1])
    <3>1. {-l, w} = Elems(s)
      BY <1>2, <1>3, <2>3
    <3> QED BY <3>1
  <2> QED BY <2>2, <2>3
<1>5. BinariesFollow'
  BY <1>4, BinariesStep DEF DbFollows
<1>6. ClausesFollow'
  BY <1>1, ClausesStep DEF DbFollows, Live
<1> QED BY <1>5, <1>6

LEMMA AttachClauseFollows ==
  ASSUME CoreInv, DbFollows, cnf \subseteq cnf', NEW s \in Seq(Lit), NEW c \in ClauseId,
         AttachClause(c, s), Live' = Live \cup {c}, Entails(cnf', Elems(s))
  PROVE  ClausesFollow' /\ BinariesFollow'
<1>1. /\ lits' = [lits EXCEPT ![c] = s] /\ watch' = AddWatchers(-s[1], c, -s[2], c)
      /\ watch \in [Lit -> [Watcher -> Nat]] /\ lits \in [ClauseId -> Seq(Lit)]
      /\ Live \subseteq ClauseId
  BY DEF AttachClause, CoreInv, DbPart, ImplTypeOK, Live
<1>2. ASSUME NEW l \in Lit, NEW w \in Lit, watch'[l][w] > 0
      PROVE  watch[l][w] > 0
  <2>1. w \in Watcher /\ w # c
    BY WatcherKinds
  <2> QED BY <1>1, <1>2, <2>1 DEF AddWatchers
<1>3. BinariesFollow'
  BY <1>2, BinariesStep DEF DbFollows
<1>4. ASSUME NEW d \in Live'
      PROVE  \/ d \in Live /\ Elems(lits'[d]) = Elems(lits[d])
             \/ Entails(cnf', Elems(lits'[d]))
  <2>1. CASE d = c
    BY <1>1, <2>1
  <2>2. CASE d # c
    BY <1>1, <2>2
  <2> QED BY <2>1, <2>2
<1>5. ClausesFollow'
  BY <1>4, ClausesStep DEF DbFollows
<1> QED BY <1>3, <1>5

(* The learnt clause, whatever its length, gives a reason and a literal.   *)
LEMMA LearnGrows ==
  ASSUME CoreInv, SearchInv, EntailInv, Learn
  PROVE  /\ ClausesFollow' /\ BinariesFollow'
         /\ \E r \in Reason :
              /\ Grown(learnt[1], DecisionLevel, r)
              /\ DecisionLevel = 0 => Entails(cnf', {learnt[1]})
              /\ r = None => DecisionLevel = 0
<1>1. /\ pc = "learn" /\ cnf' = cnf /\ TrailInv /\ LearnPart /\ DbFollows
      /\ learnt \in Seq(Lit) /\ Len(learnt) \in Nat /\ Entails(cnf', Elems(learnt))
      /\ learnt # <<>> /\ Eval(learnt[1]) = 0 /\ DecisionLevel \in Nat
      /\ Len(learnt) > 1 => DecisionLevel > 0
      /\ Len(learnt) = 1 => DecisionLevel = 0
  BY TrailFacts DEF Learn, clientVars, SearchInv, AnalysisPart, LearnPart, EntailInv, AnalysisFollows,
     Follows, CoreInv, AnaPart, AnaTypeOK
<1>2. /\ Len(learnt) = 1 => LearnUnit(learnt[1])
      /\ Len(learnt) = 2 => LearnBinary(learnt)
      /\ Len(learnt) # 1 /\ Len(learnt) # 2 => LearnLong(learnt)
  <2>1. /\ CASE Len(learnt) = 1 -> LearnUnit(learnt[1])
             [] Len(learnt) = 2 -> LearnBinary(learnt)
             [] OTHER           -> LearnLong(learnt)
        /\ TRUE
    BY <1>1 DEF Learn
  <2>2. CASE Len(learnt) = 1
    BY <2>1, <2>2
  <2>3. CASE Len(learnt) = 2
    BY <2>1, <2>3
  <2>4. CASE Len(learnt) # 1 /\ Len(learnt) # 2
    BY <2>1, <2>4
  <2> QED BY <2>2, <2>3, <2>4
<1> DEFINE l == learnt[1]
           k == DecisionLevel
<1>3. l \in Lit /\ Len(learnt) > 0 /\ Eval(l) = 0
  <2>1. 1 \in 1 .. Len(learnt) /\ Len(learnt) > 0
    BY <1>1
  <2> QED BY <1>1, <2>1, ElementOfSeq
<1>4. CASE Len(learnt) = 1
  <2>1. Assign(l, None) /\ UNCHANGED <<lits, constr, learnts, watch>>
    BY <1>1, <1>2, <1>4 DEF LearnUnit, dbVars
  <2>2. Elems(learnt) = {l}
    BY <1>1, <1>4 DEF Elems
  <2>3. Entails(cnf', {l})
    BY <1>1, <2>2
  <2>4. ClausesFollow' /\ BinariesFollow'
    BY <1>1, <2>1, ClausesStep, BinariesStep DEF DbFollows, Live
  <2> HIDE DEF l
  <2>5. Grown(l, DecisionLevel, None) /\ None \in Reason
    BY <1>1, <1>3, <2>1, ReasonKinds, AssignFacts
  <2> QED BY <1>1, <1>4, <2>3, <2>4, <2>5 DEF l
<1>5. CASE Len(learnt) = 2
  <2> DEFINE r == learnt[2]
  <2>1. AttachBinary(learnt) /\ Assign(l, r)
    BY <1>2, <1>5 DEF LearnBinary
  <2>2. r \in Lit
    <3>1. 2 \in 1 .. Len(learnt)
      BY <1>5
    <3> QED BY <1>1, <3>1, ElementOfSeq
  <2>3. ClausesFollow' /\ BinariesFollow'
    BY <1>1, <1>5, <2>1, AttachBinaryFollows
  <2> HIDE DEF l, r
  <2>4. r \in Reason /\ r # None
    BY <2>2, ReasonKinds, WatcherKinds DEF None
  <2>5. Grown(l, DecisionLevel, r)
    BY <1>1, <1>3, <2>1, <2>4, AssignFacts
  <2>6. DecisionLevel # 0
    BY <1>1, <1>5
  <2> QED BY <2>3, <2>4, <2>5, <2>6 DEF l
<1>6. CASE Len(learnt) # 1 /\ Len(learnt) # 2
  <2>1. PICK c \in ClauseId : /\ FreshId(c) /\ AttachClause(c, learnt)
                              /\ learnts' = learnts \cup {c} /\ UNCHANGED constr
                              /\ Assign(l, c)
    BY <1>2, <1>6 DEF LearnLong
  <2>2. Live' = Live \cup {c} /\ c \in Reason /\ c # None
    BY <2>1, ReasonKinds, WatcherKinds DEF Live, None
  <2>3. ClausesFollow' /\ BinariesFollow'
    BY <1>1, <2>1, <2>2, AttachClauseFollows
  <2> HIDE DEF l
  <2>4. Grown(l, DecisionLevel, c)
    BY <1>1, <1>3, <2>1, <2>2, AssignFacts
  <2>5. DecisionLevel # 0
    <3>1. Len(learnt) \in Nat /\ Len(learnt) # 0
      BY <1>1, <1>3
    <3>2. Len(learnt) >= 3
      BY <3>1, <1>6, ThreeOrMore
    <3>3. Len(learnt) > 1
      BY <3>1, <3>2
    <3> QED BY <1>1, <3>3
  <2> QED BY <2>2, <2>3, <2>4, <2>5 DEF l
<1> QED BY <1>4, <1>5, <1>6

LEMMA LearnEntail == ASSUME CoreInv, SearchInv, EntailInv, Learn PROVE EntailInv'
<1>1. /\ pc = "learn" /\ pc' = "imply" /\ TrailInv /\ DbFollows
      /\ UNCHANGED <<cnf, assumps, sane>>
  BY DEF Learn, GoTo, clientVars, SearchInv, AnalysisPart, LearnPart, EntailInv
<1> DEFINE l == learnt[1]
           k == DecisionLevel
<1>2. PICK r \in Reason :
        /\ Grown(l, k, r)
        /\ k = 0 => Entails(cnf', {l})
        /\ r = None => k = 0
  BY LearnGrows
<1>3. ClausesFollow' /\ BinariesFollow'
  BY LearnGrows
<1> HIDE DEF l, k
<1>4. TopFollows'
  BY <1>1, <1>2, GrownFollows DEF DbFollows
<1>5. NoModelPart' /\ FinalsPart'
  BY <1>1, NotAtEnd
<1>6. DecisionsPart'
  <2>1. \A i \in 1 .. Len(trail) : Assumes(i)
    BY <1>1 DEF EntailInv, DecisionsPart, InSearch, Inside, Adding
  <2>2. r = None /\ k \in 1 .. Len(assumps) => l = assumps[k]
    BY <1>2
  <2>3. \A i \in 1 .. Len(trail') : Assumes(i)'
    BY <1>1, <1>2, <2>1, <2>2, GrownDecisions
  <2> QED BY <2>3 DEF DecisionsPart
<1> QED BY <1>1, <1>3, <1>4, <1>5, <1>6 DEF EntailInv, DbFollows, AnalysisFollows
-----------------------------------------------------------------------------
(***************************************************************************)
(* add_clause().                                                           *)
(***************************************************************************)

(* What is stored of a clause, its literals false at level 0 being left    *)
(* out, follows.                                                           *)
LEMMA StoredFollows ==
  ASSUME TrailInv, TopFollows, DecisionLevel = 0, NEW s0 \in Seq(Lit), NEW s \in Compacted(s0),
         cnf' = cnf \cup {Elems(s0)}
  PROVE  Entails(cnf', Elems(s))
<1>1. s \in Seq(Lit) /\ Elems(s) = {l \in Elems(s0) : Eval(l) # -1}
  BY CompactedFacts
<1>2. Models(cnf') \subseteq Models(cnf) /\ Elems(s0) \in SUBSET Lit
  BY MoreClauses, ElemsOfSeq
<1>3. ASSUME NEW a \in Models(cnf')
      PROVE  Satisfies(a, Elems(s))
  <2>1. PICK q \in Elems(s0) : ValueOf(a, q) = 1
    BY DEF Models, Satisfies
  <2>2. CASE Eval(q) = -1
    <3>1. Among(-q, Len(trail)) /\ Len(trail) \in Nat /\ q \in Lit
      BY <1>2, <2>2, TrueIsOnTrail, TrailFacts
    <3>2. LevelOf(q) = 0
      BY <3>1, AmongFacts
    <3> QED BY <1>2, <2>1, <2>2, <3>1, <3>2, FalseAtTop
  <2>3. CASE Eval(q) # -1
    BY <1>1, <2>1, <2>3 DEF Satisfies
  <2> QED BY <2>2, <2>3
<1> QED BY <1>3 DEF Entails

LEMMA AddClauseEntail ==
  ASSUME CoreInv, SearchInv, EntailInv, NEW i \in DOMAIN Menu, AddClause(i)
  PROVE  EntailInv'
<1>1. /\ pc = "idle" /\ sane /\ cnf' = cnf \cup {Elems(Menu[i])} /\ Menu[i] \in Seq(Lit)
      /\ TrailInv /\ DbFollows /\ DecisionLevel = 0 /\ cnf \subseteq cnf'
  BY ClientAssumption DEF AddClause, SearchInv, ControlPart, LevelPart, EntailInv
<1>2. SUFFICES /\ ClausesFollow' /\ BinariesFollow' /\ TopFollows'
               /\ NoModelPart'
               /\ pc' = "idle" \/ (pc' = "imply" /\ cont' = "add")
  BY DEF EntailInv, DbFollows, AnalysisFollows, DecisionsPart, InSearch, Inside, Adding, FinalsPart
<1>3. CASE AddTrue
  <2>1. UNCHANGED <<trail, level, lits, constr, learnts, watch, sane>> /\ pc' = "idle"
    BY <1>3 DEF AddTrue, trailVars, dbVars, GoTo
  <2>2. ClausesFollow' /\ BinariesFollow' /\ TopFollows'
    BY <1>1, <2>1, ClausesStep, BinariesStep, TopStep DEF DbFollows, Live, LevelOf
  <2> QED BY <1>1, <2>1, <2>2, NotAtEnd
<1>4. ASSUME NEW s \in Compacted(Menu[i]), \A l \in Elems(Menu[i]) : Eval(l) # 1,
             CASE Len(s) = 0 -> AddEmpty
               [] Len(s) = 1 -> AddUnit(s[1])
               [] Len(s) = 2 -> AddBinary(s)
               [] OTHER      -> AddLong(s)
      PROVE  /\ ClausesFollow' /\ BinariesFollow' /\ TopFollows'
             /\ NoModelPart'
             /\ pc' = "idle" \/ (pc' = "imply" /\ cont' = "add")
  <2>1. /\ s \in Seq(Lit) /\ Elems(s) = {l \in Elems(Menu[i]) : Eval(l) # -1}
        /\ Entails(cnf', Elems(s)) /\ Len(s) \in Nat
    <3>1. s \in Seq(Lit) /\ Elems(s) = {l \in Elems(Menu[i]) : Eval(l) # -1}
      BY <1>1, CompactedFacts
    <3>2. TopFollows
      BY <1>1 DEF DbFollows
    <3>3. Entails(cnf', Elems(s))
      BY <1>1, <3>2, StoredFollows
    <3>4. Len(s) \in Nat
      BY <3>1
    <3> QED BY <3>1, <3>3, <3>4
  <2>2. CASE Len(s) = 0
    <3>1. AddEmpty
      BY <1>4, <2>2
    <3>2. UNCHANGED <<trail, level, lits, constr, learnts, watch>> /\ pc' = "idle"
      BY <3>1 DEF AddEmpty, trailVars, dbVars, GoTo
    <3>3. ClausesFollow' /\ BinariesFollow' /\ TopFollows'
      BY <1>1, <3>2, ClausesStep, BinariesStep, TopStep DEF DbFollows, Live, LevelOf
    <3>4. Models(cnf') = {}
      <4>1. Elems(s) = {}
        BY <2>1, <2>2 DEF Elems
      <4> QED BY <2>1, <4>1 DEF Entails, Satisfies
    <3> QED BY <3>2, <3>3, <3>4 DEF NoModelPart
  <2>3. CASE Len(s) = 1
    <3> DEFINE l == s[1]
    <3>1. Assign(l, None) /\ UNCHANGED <<dbVars, sane>> /\ pc' = "imply" /\ cont' = "add"
      BY <1>4, <2>3 DEF AddUnit, GoTo
    <3>2. Elems(s) = {l} /\ l \in Lit
      BY <2>1, <2>3 DEF Elems
    <3>3. Entails(cnf', {l}) /\ Eval(l) = 0
      <4>1. l \in Elems(Menu[i]) /\ Eval(l) # -1
        BY <2>1, <3>2
      <4>2. Eval(l) \in {-1, 0, 1} /\ Eval(l) # 1
        BY <1>1, <1>4, <3>2, <4>1, TrueIsOnTrail
      <4> QED BY <2>1, <3>2, <4>1, <4>2
    <3>4. ClausesFollow' /\ BinariesFollow'
      BY <1>1, <3>1, ClausesStep, BinariesStep DEF DbFollows, Live, dbVars
    <3> HIDE DEF l
    <3>5. Grown(l, 0, None)
      BY <1>1, <3>1, <3>2, <3>3, ReasonKinds, AssignFacts
    <3>6. TopFollows'
      BY <1>1, <3>3, <3>5, GrownFollows DEF DbFollows
    <3> QED BY <1>1, <3>1, <3>4, <3>6, NotAtEnd
  <2>4. CASE Len(s) = 2
    <3>1. AttachBinary(s) /\ UNCHANGED <<trailVars, sane>> /\ pc' = "idle"
      BY <1>4, <2>4 DEF AddBinary, GoTo
    <3>2. ClausesFollow' /\ BinariesFollow'
      BY <1>1, <2>1, <2>4, <3>1, AttachBinaryFollows
    <3>3. TopFollows'
      BY <1>1, <3>1, TopStep DEF DbFollows, LevelOf, trailVars
    <3> QED BY <1>1, <3>1, <3>2, <3>3, NotAtEnd
  <2>5. CASE Len(s) # 0 /\ Len(s) # 1 /\ Len(s) # 2
    <3>1. AddLong(s)
      BY <1>4, <2>5
    <3>2. PICK c \in ClauseId : FreshId(c) /\ AttachClause(c, s) /\ constr' = constr \cup {c}
      BY <3>1 DEF AddLong
    <3>3. UNCHANGED <<trailVars, sane>> /\ pc' = "idle" /\ Live' = Live \cup {c}
      BY <3>1, <3>2 DEF AddLong, GoTo, Live
    <3>4. ClausesFollow' /\ BinariesFollow'
      BY <1>1, <2>1, <3>2, <3>3, AttachClauseFollows
    <3>5. TopFollows'
      BY <1>1, <3>3, TopStep DEF DbFollows, LevelOf, trailVars
    <3> QED BY <1>1, <3>3, <3>4, <3>5, NotAtEnd
  <2> QED BY <2>2, <2>3, <2>4, <2>5
<1>5. AddTrue \/ \E s \in Compacted(Menu[i]) :
                   /\ \A l \in Elems(Menu[i]) : Eval(l) # 1
                   /\ CASE Len(s) = 0 -> AddEmpty
                        [] Len(s) = 1 -> AddUnit(s[1])
                        [] Len(s) = 2 -> AddBinary(s)
                        [] OTHER      -> AddLong(s)
  BY DEF AddClause
<1> QED BY <1>3, <1>4, <1>5
-----------------------------------------------------------------------------
(***************************************************************************)
(* The theorems on unsatisfiable answers.                                  *)
(***************************************************************************)
LEMMA EntailInitOK == Init => EntailInv
<1> SUFFICES ASSUME Init PROVE EntailInv
  OBVIOUS
<1>1. /\ trail = <<>> /\ pc = "idle" /\ sane /\ Live = {}
      /\ \A l, w \in Lit : watch[l][w] = 0
  <2>1. watch = [l \in Lit |-> NoWatcher] /\ NoWatcher = [w \in Watcher |-> 0]
    BY DEF Init, ImplInit, NoWatcher
  <2>2. \A l, w \in Lit : watch[l][w] = 0
    BY <2>1, WatcherKinds
  <2> QED BY <2>2 DEF Init, TrailInit, ImplInit, Live
<1> QED BY <1>1 DEF EntailInv, DbFollows, ClausesFollow, BinariesFollow, TopFollows, AnalysisFollows,
                    NoModelPart, Refuted, DecisionsPart, InSearch, Inside, FinalsPart

LEMMA EntailNextKeeps == CoreInv /\ SearchInv /\ EntailInv /\ [Next]_vars => EntailInv'
<1> SUFFICES ASSUME CoreInv, SearchInv, EntailInv, [Next]_vars PROVE EntailInv'
  OBVIOUS
<1>1. CASE UNCHANGED vars
  BY <1>1, StutterEntail
<1>2. CASE Client
  BY <1>2, NewVariableEntail, AddClauseEntail, SetBudgetEntail, SolveEntail DEF Client
<1>3. CASE Stop
  BY <1>3, StopEntail
<1>4. CASE Rest
  BY <1>4, StutterEntail DEF Rest
<1>5. CASE Search
  BY <1>5, SolveInitEntail, PropagateEntail, ConflictEntail, ImplicationDoneEntail,
     SkipSweepEntail, SweepEntail, StartSearchEntail, CaptureEntail, BackjumpEntail, LearnEntail,
     GiveUpEntail, GoAheadEntail, ReduceEntail, SkipAssumptionEntail, DecideAssumptionEntail,
     RefuteAssumptionEntail, DecideFreeEntail, NothingToDecideEntail, RestartEntail, FinishEntail
     DEF Search
<1> QED BY <1>1, <1>2, <1>3, <1>4, <1>5 DEF Next

(* What is proved of the clauses learnt, and of unsatisfiable answers.     *)
THEOREM EntailAlwaysInv == Spec => [](CoreInv /\ SearchInv /\ EntailInv)
<1>1. Init => EntailInv
  BY EntailInitOK
<1>2. (CoreInv /\ SearchInv) /\ EntailInv /\ [Next]_vars => EntailInv'
  BY EntailNextKeeps
<1> QED BY <1>1, <1>2, SearchAlwaysInv, PTL DEF Spec

LEMMA EntailedImplies == EntailInv => LearntEntailed
BY DEF EntailInv, DbFollows, ClausesFollow, BinariesFollow, TopFollows, AnalysisFollows,
       Follows, Entails, LearntEntailed

LEMMA UnsatImplies == CoreInv /\ SearchInv /\ EntailInv => UnsatSound
<1> SUFFICES ASSUME CoreInv, SearchInv, EntailInv, pc = "finish", stat = "unsat",
                    NEW a \in Models(Formula)
             PROVE  FALSE
  BY DEF UnsatSound
<1>1. a \in Models(cnf) /\ TrailInv /\ TopFollows
  BY MoreClauses DEF Formula, SearchInv, EntailInv, DbFollows
<1>2. \A m \in Elems(assumps) : ValueOf(a, m) = 1
  <2> SUFFICES ASSUME NEW m \in Elems(assumps) PROVE ValueOf(a, m) = 1
    OBVIOUS
  <2>1. {m} \in Formula
    BY DEF Formula, Units
  <2>2. Satisfies(a, {m})
    BY <2>1 DEF Models
  <2> QED BY <2>2 DEF Satisfies
<1>3. CASE finals = {}
  BY <1>1, <1>3 DEF EntailInv, NoModelPart, Refuted
<1>4. CASE finals # {}
  <2>1. PICK l \in finals : ValueOf(a, l) = 1
    BY <1>1, <1>4, FollowsMeans DEF EntailInv, FinalsPart
  <2>2. \/ -l \in Elems(assumps)
        \/ l \in Elems(assumps) /\ Eval(l) = -1 /\ LevelOf(l) = 0
    BY <1>4 DEF EntailInv, FinalsPart
  <2>3. l \in Lit
    BY DEF CoreInv, QueryPart
  <2>4. ValueOf(a, -l) # 1
    BY <2>1, <2>3, ModelFacts, LitFacts
  <2> QED BY <1>1, <1>2, <2>1, <2>2, <2>3, <2>4, FalseAtTop
<1> QED BY <1>3, <1>4

(* Whatever is learnt follows from the clauses of the client alone, also   *)
(* under assumptions: the learnt clauses, after minimization too, and the  *)
(* values fixed at level 0.                                                *)
THEOREM EngineLearntEntailed == Spec => []LearntEntailed
BY EntailAlwaysInv, EntailedImplies, PTL

(* An answer "unsatisfiable" is true: no assignment satisfies the clauses  *)
(* and the assumptions of the call.                                        *)
THEOREM EngineUnsatSound == Spec => []UnsatSound
BY EntailAlwaysInv, UnsatImplies, PTL

(* The conflicting literals analyze_final() hands out form a clause that   *)
(* follows and is made of negated assumptions, but for an assumption false *)
(* at level 0.                                                             *)
THEOREM EngineConflictsExplain == Spec => []ConflictsExplain
<1>1. EntailInv => ConflictsExplain
  BY DEF EntailInv, FinalsPart, Follows, ConflictsExplain
<1> QED BY <1>1, EntailAlwaysInv, PTL

(* A solver whose mSane is false has contradictory clauses.                *)
THEOREM EngineInsaneIsUnsat == Spec => []InsaneIsUnsat
<1>1. EntailInv => InsaneIsUnsat
  BY DEF EntailInv, NoModelPart, InsaneIsUnsat
<1> QED BY <1>1, EntailAlwaysInv, PTL
-----------------------------------------------------------------------------
(***************************************************************************)
(* Propagation misses nothing.                                             *)
(***************************************************************************)

(* A conflict has been met: what is left of the current level, and of the  *)
(* list that was being read, is not looked at.                             *)
InConflict == pc \in {"capture", "minimize"} \/ ~sane \/ Refuted

(* a is false and has been dequeued, so its watchers must have been        *)
(* served: the literal watched with it is true, at no higher level, so     *)
(* that it stays true for as long as a stays false.                        *)
Due(a) ==
  /\ Eval(a) = -1 /\ Among(-a, head)
  /\ InConflict => LevelOf(a) < DecisionLevel
Paid(a, b) == Eval(b) = 1 /\ LevelOf(b) <= LevelOf(a)

(* The watcher w is still to be read in the list of -a.                    *)
Pending(a, w) == pl = -a /\ todo[w] > 0

(* The watcher w stands for a clause that watches a together with b.       *)
Pair(a, b, w) ==
  \/ w \in Lit /\ b = w /\ watch[-a][w] > 0
  \/ w \in Live /\ ((a = wl0(w) /\ b = wl1(w)) \/ (a = wl1(w) /\ b = wl0(w)))

ServedPart ==
  \A w \in Watcher : \A a, b \in Lit :
    Pair(a, b, w) /\ Due(a) /\ ~Pending(a, w) => Paid(a, b)

(* A clause that watches one literal twice is met twice in its list.       *)
DoublePart == pl # 0 => \A c \in Live : wl0(c) = -pl /\ wl1(c) = -pl => todo[c] > 1

PropInv == BinaryPaired /\ ServedPart /\ DoublePart

(* A change of the trail that makes nothing due, and leaves what is true   *)
(* with it.                                                                *)
Steady ==
  /\ \A a \in Lit : Due(a)' => Due(a)
  /\ \A a, b \in Lit : Due(a)' /\ Paid(a, b) => Paid(a, b)'
  /\ \A l \in Lit : TrueForGood(l) => TrueForGood(l)'

LEMMA SteadySame ==
  ASSUME UNCHANGED <<val, level, trail, head>>,
         InConflict => InConflict' /\ marker' = marker
  PROVE  Steady
<1>1. \A l \in Lit : Eval(l)' = Eval(l) /\ LevelOf(l)' = LevelOf(l)
  BY DEF Eval, LevelOf
<1>2. \A l \in Lit : Among(-l, head)' <=> Among(-l, head)
  BY DEF Among
<1>3. InConflict => DecisionLevel' = DecisionLevel
  BY DEF DecisionLevel
<1>4. \A a \in Lit : Due(a)' => Due(a)
  BY <1>1, <1>2, <1>3 DEF Due
<1> QED BY <1>1, <1>4 DEF Steady, Paid, TrueForGood

LEMMA SteadyGrown ==
  ASSUME TrailInv, ~InConflict, NEW l \in Lit, Eval(l) = 0, NEW k, NEW r, Grown(l, k, r)
  PROVE  Steady
<1>1. /\ \A q \in Lit : Eval(q)' = IF VarOf(q) = VarOf(l) THEN (IF q = l THEN 1 ELSE -1) ELSE Eval(q)
      /\ \A v \in Var : v # VarOf(l) => level'[v] = level[v]
      /\ head' = head /\ head \in Nat /\ head <= Len(trail) /\ Len(trail) \in Nat
      /\ \A j \in 1 .. Len(trail) : trail'[j] = trail[j]
  BY TrailFacts DEF Grown, Prefix
<1>2. \A q \in Lit : VarOf(q) \in Var
  BY LitFacts
<1>3. \A q \in Lit : Eval(q) # 0 => VarOf(q) # VarOf(l)
  <2> SUFFICES ASSUME NEW q \in Lit, Eval(q) # 0, VarOf(q) = VarOf(l) PROVE FALSE
    OBVIOUS
  <2>1. q = l \/ q = -l
    BY SameVar
  <2> QED BY <2>1, TrueIsOnTrail
<1>4. \A q \in Lit : Eval(q) # 0 => Eval(q)' = Eval(q) /\ LevelOf(q)' = LevelOf(q)
  BY <1>1, <1>2, <1>3 DEF LevelOf
<1>5. ASSUME NEW a \in Lit, Due(a)'
      PROVE  Due(a) /\ Eval(a) = -1
  <2>1. Eval(a)' = -1 /\ Among(-a, head)'
    BY <1>5 DEF Due
  <2>2. Among(-a, head)
    BY <1>1, <2>1 DEF Among
  <2>3. Eval(a) = -1
    <3>1. PICK j \in 1 .. head : trail[j] = -a
      BY <2>2 DEF Among
    <3>2. j \in 1 .. Len(trail)
      BY <1>1
    <3> QED BY <3>1, <3>2, TrueIsOnTrail DEF Among
  <2> QED BY <2>2, <2>3 DEF Due
<1>6. \A a, b \in Lit : Due(a)' /\ Paid(a, b) => Paid(a, b)'
  <2> SUFFICES ASSUME NEW a \in Lit, NEW b \in Lit, Due(a)', Paid(a, b) PROVE Paid(a, b)'
    OBVIOUS
  <2>1. Eval(a) # 0 /\ Eval(b) # 0 /\ Eval(b) = 1 /\ LevelOf(b) <= LevelOf(a)
    BY <1>5 DEF Paid
  <2> QED BY <1>4, <2>1 DEF Paid
<1>7. \A q \in Lit : TrueForGood(q) => TrueForGood(q)'
  BY <1>4 DEF TrueForGood
<1> QED BY <1>5, <1>6, <1>7 DEF Steady

LEMMA SteadyBack ==
  ASSUME TrailInv, NEW k \in Nat, Backtrack(k), InConflict => k < DecisionLevel
  PROVE  Steady
<1>0. DecisionLevel \in Nat
  BY TrailFacts
<1>1. CASE ~(k < DecisionLevel)
  <2>1. UNCHANGED <<val, level, trail, head>>
    BY <1>1, BacktrackFacts DEF trailVars
  <2> QED BY <1>1, <2>1, SteadySame
<1>2. CASE k < DecisionLevel
  <2>1. /\ TrailInv' /\ Prefix(Len(trail')) /\ level' = level /\ DecisionLevel' = k
        /\ \A q \in Lit : Eval(q)' = IF Eval(q) # 0 /\ LevelOf(q) > k THEN 0 ELSE Eval(q)
    BY <1>2, BacktrackFacts
  <2>2. head' = marker[k + 2] /\ k + 2 \in 1 .. Len(marker)
    BY <1>0, <1>2, TrailFacts DEF Backtrack
  <2>3. marker[k + 2] <= head /\ head \in Nat /\ marker[k + 2] \in Nat
    <3>1. marker[k + 2] <= head
      BY <2>2 DEF TrailInv, MarkersOrdered
    <3>2. \A j \in 1 .. Len(marker) : marker[j] \in Nat
      BY DEF TrailInv, TrailTypeOK
    <3> QED BY <2>2, <3>1, <3>2, TrailFacts
  <2>4. head' <= Len(trail') /\ Len(trail') \in Nat
    BY <2>1 DEF TrailInv, TrailTypeOK
  <2>5. \A l \in Lit : LevelOf(l)' = LevelOf(l) /\ LevelOf(l) \in Nat
    BY <2>1, LitFacts DEF LevelOf, TrailInv, TrailTypeOK
  <2>6. ASSUME NEW a \in Lit, Due(a)'
        PROVE  Due(a) /\ LevelOf(a) <= k
    <3>1. Eval(a)' = -1 /\ Among(-a, head)'
      BY <2>6 DEF Due
    <3>2. Eval(a) = -1 /\ ~(LevelOf(a) > k)
      BY <2>1, <3>1
    <3>3. PICK j \in 1 .. head' : trail'[j] = -a
      BY <3>1 DEF Among
    <3>4. j \in 1 .. Len(trail') /\ j \in 1 .. head
      BY <2>2, <2>3, <2>4
    <3>5. Among(-a, head)
      BY <2>1, <3>3, <3>4 DEF Among, Prefix
    <3>6. LevelOf(a) <= k /\ (InConflict => LevelOf(a) < DecisionLevel)
      BY <1>0, <1>2, <2>5, <3>2
    <3> QED BY <3>2, <3>5, <3>6 DEF Due
  <2>7. \A a, b \in Lit : Due(a)' /\ Paid(a, b) => Paid(a, b)'
    <3> SUFFICES ASSUME NEW a \in Lit, NEW b \in Lit, Due(a)', Paid(a, b) PROVE Paid(a, b)'
      OBVIOUS
    <3>1. LevelOf(a) <= k /\ Eval(b) = 1 /\ LevelOf(b) <= LevelOf(a)
      BY <2>6 DEF Paid
    <3>2. ~(LevelOf(b) > k)
      BY <2>5, <3>1
    <3> QED BY <2>1, <2>5, <3>1, <3>2 DEF Paid
  <2>8. \A q \in Lit : TrueForGood(q) => TrueForGood(q)'
    <3> SUFFICES ASSUME NEW q \in Lit, TrueForGood(q) PROVE TrueForGood(q)'
      OBVIOUS
    <3>1. Eval(q) = 1 /\ LevelOf(q) = 0 /\ ~(LevelOf(q) > k)
      BY DEF TrueForGood
    <3> QED BY <2>1, <2>5, <3>1 DEF TrueForGood
  <2> QED BY <2>6, <2>7, <2>8 DEF Steady
<1> QED BY <1>1, <1>2

(* After a steady change, what is watched is served if each pair watched   *)
(* was watched before and is not less pending, or is served anyhow.        *)
LEMMA ServedStep ==
  ASSUME ServedPart, Steady,
         \A w \in Watcher : \A a, b \in Lit :
           Pair(a, b, w)' /\ Due(a)' /\ ~Pending(a, w)' =>
             (Pair(a, b, w) /\ ~Pending(a, w)) \/ Paid(a, b)'
  PROVE  ServedPart'
<1> SUFFICES ASSUME NEW w \in Watcher, NEW a \in Lit, NEW b \in Lit,
                    Pair(a, b, w)', Due(a)', ~Pending(a, w)', Pair(a, b, w), ~Pending(a, w)
             PROVE  Paid(a, b)'
  BY DEF ServedPart
<1>1. Due(a)
  BY DEF Steady
<1>2. Paid(a, b)
  BY <1>1 DEF ServedPart
<1> QED BY <1>2 DEF Steady

LEMMA PairedStep ==
  ASSUME BinaryPaired, Steady,
         \A a, b \in Lit : watch'[-a][b] # watch'[-b][a] =>
           watch[-a][b] # watch[-b][a] \/ TrueForGood(a) \/ TrueForGood(b)
  PROVE  BinaryPaired'
<1> SUFFICES ASSUME NEW a \in Lit, NEW b \in Lit, watch'[-a][b] # watch'[-b][a]
             PROVE  TrueForGood(a)' \/ TrueForGood(b)'
  BY DEF BinaryPaired
<1> QED BY DEF BinaryPaired, Steady

(* The clauses, and the list being read, are left alone.                   *)
LEMMA SteadyProp ==
  ASSUME PropInv, Steady, UNCHANGED <<dbVars, implVars>>
  PROVE  PropInv'
<1>1. UNCHANGED <<lits, constr, learnts, watch, pl, todo>>
  BY DEF dbVars, implVars
<1>2. BinaryPaired'
  BY <1>1, PairedStep DEF PropInv
<1>3. ServedPart'
  <2>1. \A w \in Watcher : \A a, b \in Lit :
          (Pair(a, b, w)' <=> Pair(a, b, w)) /\ (Pending(a, w)' <=> Pending(a, w))
    BY <1>1 DEF Pair, Pending, Live, wl0, wl1
  <2> QED BY <2>1, ServedStep DEF PropInv
<1>4. DoublePart'
  BY <1>1 DEF PropInv, DoublePart, Live, wl0, wl1
<1> QED BY <1>2, <1>3, <1>4 DEF PropInv

LEMMA QuietProp ==
  ASSUME PropInv, UNCHANGED <<trailVars, dbVars, implVars>>, InConflict => InConflict'
  PROVE  PropInv'
<1>1. UNCHANGED <<val, level, trail, head>> /\ marker' = marker
  BY DEF trailVars
<1> QED BY <1>1, SteadySame, SteadyProp

LEMMA CalmInside ==
  ASSUME SearchInv, pc \notin {"idle", "entry", "capture", "minimize", "stat", "finish"}
  PROVE  ~InConflict
BY DEF SearchInv, ControlPart, PlacePart, Inside, InConflict, Refuted

LEMMA NewVariableProp == ASSUME SearchInv, PropInv, NewVariable PROVE PropInv'
<1>1. UNCHANGED <<trailVars, dbVars, implVars, sane>> /\ pc = "idle"
  BY DEF NewVariable
<1> QED BY <1>1, QuietProp DEF InConflict, Refuted

LEMMA SetBudgetProp ==
  ASSUME SearchInv, PropInv, NEW b \in Budgets, SetBudget(b)
  PROVE  PropInv'
<1>1. UNCHANGED <<trailVars, dbVars, implVars, sane>> /\ pc = "idle"
  BY DEF SetBudget
<1> QED BY <1>1, QuietProp DEF InConflict, Refuted

LEMMA SolveProp ==
  ASSUME SearchInv, PropInv, NEW A \in Assumptions, Solve(A)
  PROVE  PropInv'
<1>1. UNCHANGED <<trailVars, dbVars, implVars, sane>> /\ pc = "idle"
  BY DEF Solve
<1> QED BY <1>1, QuietProp DEF InConflict, Refuted

LEMMA StopProp == ASSUME SearchInv, PropInv, Stop PROVE PropInv'
<1>1. UNCHANGED <<trailVars, dbVars, implVars, sane, pc, stat, finals>>
  BY DEF Stop, answerVars, ctlVars
<1> QED BY <1>1, QuietProp DEF InConflict, Refuted

LEMMA StutterProp == ASSUME SearchInv, PropInv, UNCHANGED vars PROVE PropInv'
<1>1. UNCHANGED <<trailVars, dbVars, implVars, sane, pc, stat, finals>>
  BY DEF vars, answerVars, ctlVars
<1> QED BY <1>1, QuietProp DEF InConflict, Refuted

LEMMA SolveInitProp == ASSUME SearchInv, PropInv, SolveInit PROVE PropInv'
<1>1. UNCHANGED <<trailVars, dbVars, implVars, sane>> /\ pc = "entry"
  BY DEF SolveInit
<1> QED BY <1>1, QuietProp DEF InConflict, Refuted

LEMMA SkipSweepProp == ASSUME SearchInv, PropInv, SkipSweep PROVE PropInv'
<1>1. UNCHANGED <<trailVars, dbVars, implVars>> /\ pc = "sweep"
  BY DEF SkipSweep
<1> QED BY <1>1, CalmInside, QuietProp

LEMMA StartSearchProp == ASSUME SearchInv, PropInv, StartSearch PROVE PropInv'
<1>1. UNCHANGED <<trailVars, dbVars, implVars>> /\ pc = "search"
  BY DEF StartSearch
<1> QED BY <1>1, CalmInside, QuietProp

LEMMA GoAheadProp == ASSUME SearchInv, PropInv, GoAhead PROVE PropInv'
<1>1. UNCHANGED <<trailVars, dbVars, implVars>> /\ pc = "check"
  BY DEF GoAhead
<1> QED BY <1>1, CalmInside, QuietProp

LEMMA NothingToDecideProp == ASSUME SearchInv, PropInv, NothingToDecide PROVE PropInv'
<1>1. UNCHANGED <<trailVars, dbVars, implVars>> /\ pc = "decide"
  BY DEF NothingToDecide, Deciding
<1> QED BY <1>1, CalmInside, QuietProp

LEMMA RefuteAssumptionProp == ASSUME SearchInv, PropInv, RefuteAssumption PROVE PropInv'
<1>1. UNCHANGED <<trailVars, dbVars, implVars>> /\ pc = "decide"
  BY DEF RefuteAssumption, Assuming
<1> QED BY <1>1, CalmInside, QuietProp

LEMMA RestartProp == ASSUME SearchInv, PropInv, Restart PROVE PropInv'
<1>1. UNCHANGED <<trailVars, dbVars, implVars, sane, stat, finals>> /\ pc = "stat"
  BY DEF Restart, answerVars
<1>2. stat = "unsat" => pc' = "finish"
  BY DEF Restart, GoTo
<1> QED BY <1>1, <1>2, QuietProp DEF InConflict, Refuted

LEMMA CaptureProp == ASSUME CoreInv, SearchInv, PropInv, Capture PROVE PropInv'
<1>1. UNCHANGED <<trailVars, dbVars, implVars>> /\ pc = "capture"
  BY DEF Capture
<1>2. pc' \in {"capture", "minimize"}
  BY <1>1, CaptureSucceeds DEF Capture, GoTo
<1> QED BY <1>1, <1>2, QuietProp DEF InConflict

LEMMA ImplicationDoneProp == ASSUME CoreInv, SearchInv, PropInv, ImplicationDone PROVE PropInv'
<1>1. /\ UNCHANGED <<trailVars, dbVars, todo>> /\ pc = "imply"
      /\ pl' = 0 /\ todo = NoWatcher
  BY DEF ImplicationDone, EndImplication, Quiescent, ListRead
<1>2. UNCHANGED <<val, level, trail, head, marker, lits, constr, learnts, watch>>
  BY <1>1 DEF trailVars, dbVars
<1>3. Steady
  BY <1>1, <1>2, CalmInside, SteadySame
<1>4. BinaryPaired'
  BY <1>2, <1>3, PairedStep DEF PropInv
<1>5. ServedPart'
  <2>1. \A w \in Watcher : \A a, b \in Lit : (Pair(a, b, w)' <=> Pair(a, b, w)) /\ ~Pending(a, w)
    BY <1>1, <1>2 DEF Pair, Pending, Live, wl0, wl1, NoWatcher
  <2> QED BY <1>3, <2>1, ServedStep DEF PropInv
<1> QED BY <1>1, <1>4, <1>5 DEF PropInv, DoublePart

LEMMA SkipAssumptionProp == ASSUME SearchInv, PropInv, SkipAssumption PROVE PropInv'
<1>1. UNCHANGED <<dbVars, implVars>> /\ pc = "decide" /\ SetMarker
  BY DEF SkipAssumption, Assuming
<1>2. UNCHANGED <<val, level, trail, head>>
  BY <1>1 DEF SetMarker
<1> QED BY <1>1, <1>2, CalmInside, SteadySame, SteadyProp

(* A decision, or a unit that is stored as a value.                        *)
LEMMA DecisionProp ==
  ASSUME SearchInv, PropInv, pc = "decide", NEW l \in Lit, Eval(l) = 0, Decide(l),
         UNCHANGED <<dbVars, implVars>>
  PROVE  PropInv'
<1>1. /\ TrailInv /\ ~HasElem /\ ~InConflict
  BY CalmInside DEF SearchInv, ControlPart, QueuePart
<1> DEFINE k == DecisionLevel + 1
<1>2. Grown(l, k, None)
  BY <1>1, DecideFacts
<1> HIDE DEF k
<1> QED BY <1>1, <1>2, SteadyGrown, SteadyProp

LEMMA DecideAssumptionProp ==
  ASSUME CoreInv, SearchInv, PropInv, DecideAssumption
  PROVE  PropInv'
<1>1. /\ pc = "decide" /\ Assuming /\ Eval(Assumed) = 0 /\ Decide(Assumed)
      /\ UNCHANGED <<dbVars, implVars>>
  BY DEF DecideAssumption, Assuming
<1>2. Assumed \in Lit
  BY <1>1, AssumedIsLit
<1> QED BY <1>1, <1>2, DecisionProp

LEMMA DecideFreeProp ==
  ASSUME CoreInv, SearchInv, PropInv, DecideFree
  PROVE  PropInv'
<1>1. pc = "decide" /\ UNCHANGED <<dbVars, implVars>>
  BY DEF DecideFree, Deciding
<1>2. PICK v \in heap \ Assigned(heap) : \E s \in PhasesOf(v) : Decide(s * v)
  BY DEF DecideFree
<1>3. PICK s \in PhasesOf(v) : Decide(s * v)
  BY <1>2
<1> DEFINE l == s * v
<1>4. l \in Lit /\ Eval(l) = 0 /\ Decide(l)
  BY <1>3, FreeDecision DEF SearchInv
<1> HIDE DEF l
<1> QED BY <1>1, <1>4, DecisionProp

(* Backtracking ends the conflict.                                         *)
LEMMA BackProp ==
  ASSUME SearchInv, PropInv, NEW k \in Nat, BacktrackTo(k), UNCHANGED <<dbVars, implVars>>,
         InConflict => k < DecisionLevel
  PROVE  PropInv'
<1>1. TrailInv /\ Backtrack(k)
  BY DEF SearchInv, BacktrackTo
<1> QED BY <1>1, SteadyBack, SteadyProp

LEMMA BackjumpProp == ASSUME CoreInv, SearchInv, PropInv, Backjump PROVE PropInv'
<1>1. pc = "minimize" /\ UNCHANGED <<dbVars, implVars>>
  BY DEF Backjump
<1>2. PICK s \in LearntOrders : BacktrackTo(BackjumpLevel(s))
  BY DEF Backjump
<1> DEFINE k == BackjumpLevel(s)
<1>3. k \in Nat /\ k < DecisionLevel
  BY <1>1, LearntFacts
<1> HIDE DEF k
<1>4. BacktrackTo(k)
  BY <1>2 DEF k
<1> QED BY <1>1, <1>3, <1>4, BackProp

LEMMA GiveUpProp == ASSUME SearchInv, PropInv, GiveUp PROVE PropInv'
<1>1. pc = "check" /\ UNCHANGED <<dbVars, implVars>> /\ BacktrackTo(0) /\ 0 \in Nat
  BY DEF GiveUp
<1> QED BY <1>1, CalmInside, BackProp

(* solve() ends; if the clauses have been refuted mSane becomes false.     *)
LEMMA FinishProp == ASSUME SearchInv, PropInv, Finish PROVE PropInv'
<1>1. pc = "finish" /\ UNCHANGED <<dbVars, implVars>> /\ BacktrackTo(0) /\ 0 \in Nat
      /\ sane' = (sane /\ ~(stat = "unsat" /\ finals = {}))
  BY DEF Finish
<1>2. sane
  BY <1>1 DEF SearchInv, ControlPart, PlacePart, Inside
<1>3. CASE Refuted
  <2>1. ~sane' /\ DecisionLevel = 0 /\ TrailInv /\ Backtrack(0)
    BY <1>1, <1>3 DEF Refuted, SearchInv, ControlPart, LevelPart, BacktrackTo
  <2>2. UNCHANGED trailVars
    BY <1>1, <2>1, BacktrackFacts
  <2> QED BY <1>1, <2>1, <2>2, QuietProp DEF InConflict
<1>4. CASE ~Refuted
  <2>1. ~InConflict
    BY <1>1, <1>2, <1>4 DEF InConflict
  <2> QED BY <1>1, <2>1, BackProp
<1> QED BY <1>3, <1>4

LEMMA DetachProp ==
  ASSUME CoreInv, SearchInv, PropInv, pc \in {"sweep", "reduce"},
         NEW D \in SUBSET Live, NEW both \in BOOLEAN, DetachClauses(D, both),
         UNCHANGED <<trailVars, implVars>>, both => DecisionLevel = 0
  PROVE  PropInv'
<1>1. /\ TrailInv /\ pl = 0 /\ pl' = 0 /\ ~InConflict
      /\ UNCHANGED <<val, level, trail, head, marker, todo>>
      /\ D \subseteq ClauseId
  BY PlaceFacts, CalmInside DEF SearchInv, trailVars, implVars, Live, CoreInv, DbPart, ImplTypeOK
<1>2. Steady
  BY <1>1, SteadySame
<1>3. /\ \A c \in ClauseId : c \notin D => lits'[c] = lits[c]
      /\ Live' = Live \ D
      /\ \A l, w \in Lit :
           watch'[l][w] = IF both /\ Eval(l) # 0 /\ Eval(w) = 1 THEN 0 ELSE watch[l][w]
  <2>1. \A l, w \in Lit : w \in Watcher /\ w \notin D
    BY <1>1, WatcherKinds
  <2>2. Live' = Live \ D /\ \A c \in ClauseId : c \notin D => lits'[c] = lits[c]
    BY DEF DetachClauses, Live
  <2> QED BY <2>1, <2>2 DEF DetachClauses
<1>4. BinaryPaired'
  <2>1. ASSUME NEW a \in Lit, NEW b \in Lit, both, Eval(b) = 1
        PROVE  TrueForGood(b)
    <3>1. Among(b, Len(trail)) /\ VarOf(b) \in Var /\ DecisionLevel = 0
      BY <1>1, <2>1, TrueIsOnTrail, LitFacts
    <3>2. LevelOf(b) \in 0 .. DecisionLevel
      BY <1>1, <3>1, TrailFacts DEF Among
    <3> QED BY <2>1, <3>1, <3>2 DEF TrueForGood
  <2>2. ASSUME NEW a \in Lit, NEW b \in Lit, watch'[-a][b] # watch'[-b][a]
        PROVE  watch[-a][b] # watch[-b][a] \/ TrueForGood(a) \/ TrueForGood(b)
    <3>1. -a \in Lit /\ -b \in Lit
      BY LitFacts
    <3> QED BY <1>3, <2>1, <2>2, <3>1
  <2> QED BY <1>2, <2>2, PairedStep DEF PropInv
<1>5. ServedPart'
  <2>1. ASSUME NEW w \in Watcher, NEW a \in Lit, NEW b \in Lit, Pair(a, b, w)'
        PROVE  Pair(a, b, w)
    <3>1. CASE w \in Lit /\ b = w /\ watch'[-a][w] > 0
      <4>1. -a \in Lit
        BY LitFacts
      <4> QED BY <1>3, <3>1, <4>1 DEF Pair
    <3>2. CASE w \in Live'
      <4>1. w \in Live /\ w \in ClauseId /\ w \notin D /\ lits'[w] = lits[w]
        BY <1>3, <3>2 DEF CoreInv, DbPart, ImplTypeOK, Live
      <4>2. w \notin Lit
        BY <4>1, WatcherKinds
      <4> QED BY <2>1, <4>1, <4>2 DEF Pair, wl0, wl1
    <3> QED BY <2>1, <3>1, <3>2 DEF Pair
  <2>2. \A w \in Watcher : \A a \in Lit : ~Pending(a, w)
    BY <1>1, LitFacts DEF Pending
  <2> QED BY <1>2, <2>1, <2>2, ServedStep DEF PropInv
<1> QED BY <1>1, <1>4, <1>5 DEF PropInv, DoublePart

LEMMA SweepProp == ASSUME CoreInv, SearchInv, PropInv, Sweep PROVE PropInv'
<1>1. /\ UNCHANGED <<trailVars, implVars>> /\ pc = "sweep"
      /\ DetachClauses(Sweepable, TRUE) /\ Sweepable \in SUBSET Live
  BY DEF Sweep, Sweepable
<1>2. DecisionLevel = 0
  BY <1>1 DEF SearchInv, ControlPart, LevelPart
<1> QED BY <1>1, <1>2, DetachProp

LEMMA ReduceProp == ASSUME CoreInv, SearchInv, PropInv, Reduce PROVE PropInv'
<1>1. UNCHANGED <<trailVars, implVars>> /\ pc = "reduce"
  BY DEF Reduce
<1>2. CASE UNCHANGED dbVars
  BY <1>1, <1>2, CalmInside, QuietProp
<1>3. ASSUME NEW F \in SUBSET learnts, NEW E \in SUBSET learnts,
             DetachClauses({c \in F \cup E : ~Locked(c)}, FALSE)
      PROVE  PropInv'
  <2> DEFINE D == {c \in F \cup E : ~Locked(c)}
  <2>1. D \in SUBSET Live /\ FALSE \in BOOLEAN /\ DetachClauses(D, FALSE)
    BY <1>3 DEF Live
  <2> HIDE DEF D
  <2> QED BY <1>1, <2>1, DetachProp
<1> QED BY <1>2, <1>3 DEF Reduce

(* a and b are the literals a new clause s is watched at.                  *)
WatchesOf(s, a, b) ==
  \/ a = s[1] /\ b = s[2]
  \/ a = s[2] /\ b = s[1]

LEMMA AttachBinaryProp ==
  ASSUME CoreInv, PropInv, Steady, pl = 0, UNCHANGED implVars,
         NEW s \in Seq(Lit), Len(s) = 2, AttachBinary(s),
         \A a, b \in Lit : WatchesOf(s, a, b) /\ Due(a)' => Paid(a, b)'
  PROVE  PropInv'
<1>1. /\ UNCHANGED <<lits, constr, learnts, pl, todo>>
      /\ watch' = AddWatchers(-s[1], s[2], -s[2], s[1])
      /\ watch \in [Lit -> [Watcher -> Nat]]
  BY DEF AttachBinary, implVars, CoreInv, DbPart, ImplTypeOK
<1>2. /\ s[1] \in Lit /\ s[2] \in Lit
      /\ \A a \in Lit : -a \in Lit /\ -(-a) = a
  BY LitFacts
<1>3. \A a, b \in Lit :
        watch'[-a][b] = watch[-a][b] + (IF a = s[1] /\ b = s[2] THEN 1 ELSE 0)
                                     + (IF a = s[2] /\ b = s[1] THEN 1 ELSE 0)
  <2> SUFFICES ASSUME NEW a \in Lit, NEW b \in Lit
               PROVE  watch'[-a][b] = watch[-a][b] + (IF a = s[1] /\ b = s[2] THEN 1 ELSE 0)
                                                   + (IF a = s[2] /\ b = s[1] THEN 1 ELSE 0)
    OBVIOUS
  <2>1. b \in Watcher /\ -a \in Lit /\ (-a = -s[1] <=> a = s[1]) /\ (-a = -s[2] <=> a = s[2])
    BY <1>2, WatcherKinds
  <2>2. AddWatchers(-s[1], s[2], -s[2], s[1])[-a][b] =
          watch[-a][b] + (IF -a = -s[1] /\ b = s[2] THEN 1 ELSE 0)
                       + (IF -a = -s[2] /\ b = s[1] THEN 1 ELSE 0)
    BY <2>1 DEF AddWatchers
  <2> QED BY <1>1, <2>1, <2>2
<1>4. \A a, b \in Lit : watch[-a][b] \in Nat
  BY <1>1, <1>2, WatcherKinds
<1>5. BinaryPaired'
  <2>1. ASSUME NEW a \in Lit, NEW b \in Lit, watch'[-a][b] # watch'[-b][a]
        PROVE  watch[-a][b] # watch[-b][a]
    BY <1>3, <1>4, <2>1
  <2> QED BY <2>1, PairedStep DEF PropInv
<1>6. ServedPart'
  <2>1. ASSUME NEW w \in Watcher, NEW a \in Lit, NEW b \in Lit, Pair(a, b, w)'
        PROVE  Pair(a, b, w) \/ WatchesOf(s, a, b)
    <3>1. CASE w \in Lit /\ b = w /\ watch'[-a][w] > 0
      <4>1. CASE WatchesOf(s, a, b)
        BY <4>1
      <4>2. CASE ~WatchesOf(s, a, b)
        <5>1. ~(a = s[1] /\ b = s[2]) /\ ~(a = s[2] /\ b = s[1])
          BY <4>2 DEF WatchesOf
        <5>2. watch'[-a][b] = watch[-a][b] + 0 + 0 /\ watch[-a][b] \in Nat
          BY <1>3, <1>4, <5>1
        <5>3. watch'[-a][b] = watch[-a][b]
          BY <5>2
        <5> QED BY <3>1, <5>3 DEF Pair
      <4> QED BY <4>1, <4>2
    <3>2. CASE w \in Live' /\ ((a = wl0(w)' /\ b = wl1(w)') \/ (a = wl1(w)' /\ b = wl0(w)'))
      BY <1>1, <3>2 DEF Pair, Live, wl0, wl1
    <3> QED BY <2>1, <3>1, <3>2 DEF Pair
  <2>2. \A w \in Watcher : \A a \in Lit : ~Pending(a, w)
    BY LitFacts DEF Pending
  <2> QED BY <2>1, <2>2, ServedStep DEF PropInv
<1> QED BY <1>1, <1>5, <1>6 DEF PropInv, DoublePart

LEMMA AttachClauseProp ==
  ASSUME CoreInv, PropInv, Steady, pl = 0, UNCHANGED implVars,
         NEW s \in Seq(Lit), NEW c \in ClauseId, AttachClause(c, s), Live' = Live \cup {c},
         \A a, b \in Lit : WatchesOf(s, a, b) /\ Due(a)' => Paid(a, b)'
  PROVE  PropInv'
<1>1. /\ lits' = [lits EXCEPT ![c] = s] /\ watch' = AddWatchers(-s[1], c, -s[2], c)
      /\ UNCHANGED <<pl, todo>>
      /\ watch \in [Lit -> [Watcher -> Nat]] /\ lits \in [ClauseId -> Seq(Lit)]
      /\ Live \subseteq ClauseId
  BY DEF AttachClause, implVars, CoreInv, DbPart, ImplTypeOK, Live
<1>2. \A l, w \in Lit : watch'[l][w] = watch[l][w]
  <2> TAKE l, w \in Lit
  <2>1. w \in Watcher /\ w # c /\ watch[l][w] \in Nat
    BY <1>1, WatcherKinds
  <2> QED BY <1>1, <2>1 DEF AddWatchers
<1>3. BinaryPaired'
  <2>1. \A a, b \in Lit : watch'[-a][b] = watch[-a][b] /\ watch'[-b][a] = watch[-b][a]
    BY <1>2, LitFacts
  <2> QED BY <2>1, PairedStep DEF PropInv
<1>4. ServedPart'
  <2>1. ASSUME NEW w \in Watcher, NEW a \in Lit, NEW b \in Lit, Pair(a, b, w)'
        PROVE  Pair(a, b, w) \/ WatchesOf(s, a, b)
    <3>1. CASE w \in Lit /\ b = w /\ watch'[-a][w] > 0
      <4>1. -a \in Lit
        BY LitFacts
      <4> QED BY <1>2, <3>1, <4>1 DEF Pair
    <3>2. CASE w = c /\ w \in Live' /\ ((a = wl0(w)' /\ b = wl1(w)') \/ (a = wl1(w)' /\ b = wl0(w)'))
      <4>1. lits'[c] = s
        BY <1>1
      <4> QED BY <3>2, <4>1 DEF WatchesOf, wl0, wl1
    <3>3. CASE w # c /\ w \in Live' /\ ((a = wl0(w)' /\ b = wl1(w)') \/ (a = wl1(w)' /\ b = wl0(w)'))
      <4>1. w \in Live /\ lits'[w] = lits[w]
        BY <1>1, <3>3
      <4> QED BY <3>3, <4>1 DEF Pair, wl0, wl1
    <3> QED BY <2>1, <3>1, <3>2, <3>3 DEF Pair
  <2>2. \A w \in Watcher : \A a \in Lit : ~Pending(a, w)
    BY LitFacts DEF Pending
  <2> QED BY <2>1, <2>2, ServedStep DEF PropInv
<1> QED BY <1>1, <1>3, <1>4 DEF PropInv, DoublePart

LEMMA LearnProp == ASSUME CoreInv, SearchInv, PropInv, Learn PROVE PropInv'
<1>1. /\ pc = "learn" /\ TrailInv /\ LearnPart /\ pl = 0 /\ ~InConflict /\ UNCHANGED implVars
      /\ learnt \in Seq(Lit) /\ Len(learnt) \in Nat
      /\ learnt # <<>> /\ Eval(learnt[1]) = 0 /\ DecisionLevel \in Nat
      /\ Len(learnt) > 1 => LevelOf(learnt[2]) = DecisionLevel /\ Eval(learnt[2]) = -1
  <2>1. pc = "learn" /\ TrailInv /\ LearnPart /\ UNCHANGED implVars /\ learnt \in Seq(Lit)
    BY DEF Learn, SearchInv, AnalysisPart, CoreInv, AnaPart, AnaTypeOK
  <2>2. pl = 0 /\ ~InConflict /\ DecisionLevel \in Nat /\ Len(learnt) \in Nat
    BY <2>1, PlaceFacts, CalmInside, TrailFacts
  <2>3. Len(learnt) > 1 => 2 \in 2 .. Len(learnt)
    BY <2>2
  <2> QED BY <2>1, <2>2, <2>3 DEF LearnPart
<1>2. /\ Len(learnt) = 1 => LearnUnit(learnt[1])
      /\ Len(learnt) = 2 => LearnBinary(learnt)
      /\ Len(learnt) # 1 /\ Len(learnt) # 2 => LearnLong(learnt)
  <2>1. /\ CASE Len(learnt) = 1 -> LearnUnit(learnt[1])
             [] Len(learnt) = 2 -> LearnBinary(learnt)
             [] OTHER           -> LearnLong(learnt)
        /\ TRUE
    BY <1>1 DEF Learn
  <2>2. CASE Len(learnt) = 1
    BY <2>1, <2>2
  <2>3. CASE Len(learnt) = 2
    BY <2>1, <2>3
  <2>4. CASE Len(learnt) # 1 /\ Len(learnt) # 2
    BY <2>1, <2>4
  <2> QED BY <2>2, <2>3, <2>4
<1>3. PICK s \in Seq(Lit) : s = learnt
  BY <1>1
<1>4. Len(s) \in Nat /\ Len(s) # 0 /\ s[1] \in Lit
  <2>1. 1 \in 1 .. Len(s) /\ Len(s) # 0
    BY <1>1, <1>3
  <2> QED BY <1>1, <1>3, <2>1, ElementOfSeq
<1>5. PICK l \in Lit : l = s[1]
  BY <1>4
<1>6. PICK k \in Nat : k = DecisionLevel
  BY <1>1
<1>7. Eval(l) = 0 /\ (Len(s) > 1 => s[2] \in Lit /\ LevelOf(s[2]) = k /\ Eval(s[2]) = -1)
  <2>1. Len(s) > 1 => 2 \in 1 .. Len(s)
    BY <1>4
  <2> QED BY <1>1, <1>3, <1>5, <1>6, <2>1, ElementOfSeq
<1>8. ASSUME NEW r \in Reason, Assign(l, r)
      PROVE  /\ Steady
             /\ Len(s) > 1 => \A a, b \in Lit : WatchesOf(s, a, b) /\ Due(a)' => Paid(a, b)'
  <2>1. Grown(l, k, r)
    BY <1>1, <1>6, <1>7, <1>8, AssignFacts
  <2>2. Steady
    BY <1>1, <1>7, <2>1, SteadyGrown
  <2>3. Eval(l)' = 1 /\ LevelOf(l)' = k
    <3>1. Eval(l)' = 1
      BY <2>1 DEF Grown
    <3>2. level'[VarOf(l)] = k
      BY <2>1 DEF Grown
    <3> QED BY <3>1, <3>2 DEF LevelOf
  <2>4. ASSUME Len(s) > 1
        PROVE  LevelOf(s[2])' = k
    <3>1. PICK q \in Lit : q = s[2]
      BY <1>7, <2>4
    <3>2. VarOf(q) # VarOf(l)
      <4> SUFFICES ASSUME VarOf(q) = VarOf(l) PROVE FALSE
        OBVIOUS
      <4>1. q = l \/ q = -l
        BY SameVar
      <4>2. Eval(-l) = -Eval(l) /\ Eval(q) = -1
        BY <1>1, <1>7, <2>4, <3>1, TrueIsOnTrail
      <4> QED BY <1>7, <4>1, <4>2
    <3>3. VarOf(q) \in Var
      BY LitFacts
    <3>4. level'[VarOf(q)] = level[VarOf(q)]
      BY <2>1, <3>2, <3>3 DEF Grown
    <3> QED BY <1>7, <2>4, <3>1, <3>4 DEF LevelOf
  <2>5. ASSUME Len(s) > 1, NEW a \in Lit, NEW b \in Lit, WatchesOf(s, a, b), Due(a)'
        PROVE  Paid(a, b)'
    <3>1. Eval(a)' = -1
      BY <2>5 DEF Due
    <3>2. a = s[2] /\ b = l
      BY <1>5, <2>3, <2>5, <3>1 DEF WatchesOf
    <3> QED BY <2>3, <2>4, <2>5, <3>2 DEF Paid
  <2> QED BY <2>2, <2>5
<1>9. CASE Len(s) = 1
  <2>1. Assign(l, None) /\ UNCHANGED dbVars /\ None \in Reason
    BY <1>2, <1>3, <1>5, <1>7, <1>9, ReasonKinds DEF LearnUnit
  <2>2. Steady
    BY <1>8, <2>1
  <2> QED BY <1>1, <2>1, <2>2, SteadyProp
<1>10. CASE Len(s) = 2
  <2>1. AttachBinary(s) /\ Assign(l, s[2]) /\ Len(s) > 1
    BY <1>2, <1>3, <1>5, <1>10 DEF LearnBinary
  <2>2. s[2] \in Reason
    BY <1>7, <2>1, ReasonKinds
  <2>3. Steady /\ \A a, b \in Lit : WatchesOf(s, a, b) /\ Due(a)' => Paid(a, b)'
    BY <1>8, <2>1, <2>2
  <2> QED BY <1>1, <1>10, <2>1, <2>3, AttachBinaryProp
<1>11. CASE Len(s) # 1 /\ Len(s) # 2
  <2>1. PICK c \in ClauseId : /\ FreshId(c) /\ AttachClause(c, s)
                              /\ learnts' = learnts \cup {c} /\ UNCHANGED constr
                              /\ Assign(l, c)
    BY <1>2, <1>3, <1>5, <1>11 DEF LearnLong
  <2>2. Live' = Live \cup {c} /\ c \in Reason
    BY <2>1, ReasonKinds DEF Live
  <2>3. Len(s) > 1
    <3>1. Len(s) >= 3
      BY <1>4, <1>11, ThreeOrMore
    <3> QED BY <1>4, <3>1
  <2>4. Steady /\ \A a, b \in Lit : WatchesOf(s, a, b) /\ Due(a)' => Paid(a, b)'
    BY <1>8, <2>1, <2>2, <2>3
  <2> QED BY <1>1, <2>1, <2>2, <2>4, AttachClauseProp
<1> QED BY <1>9, <1>10, <1>11

(* What add_clause() does with a clause: it is true already, or some of it *)
(* is left when its false literals are dropped.                            *)
LEMMA AddClauseSplit ==
  ASSUME CoreInv, TrailInv, NEW i \in DOMAIN Menu, AddClause(i)
  PROVE  \/ AddTrue /\ \E l \in Elems(Menu[i]) : Eval(l) = 1
         \/ \E s \in Compacted(Menu[i]) :
              /\ s \in Seq(Lit) /\ \A l \in Elems(s) : Eval(l) = 0
              /\ Elems(s) = {l \in Elems(Menu[i]) : Eval(l) # -1}
              /\ \/ Len(s) = 0 /\ AddEmpty
                 \/ Len(s) = 1 /\ AddUnit(s[1])
                 \/ Len(s) = 2 /\ AddBinary(s)
                 \/ Len(s) >= 3 /\ AddLong(s)
<1>1. Menu[i] \in Seq(Lit)
  BY ClientAssumption
<1>2. CASE \E l \in Elems(Menu[i]) : Eval(l) = 1
  BY <1>2 DEF AddClause
<1>3. CASE ~\E l \in Elems(Menu[i]) : Eval(l) = 1
  <2>1. PICK s \in Compacted(Menu[i]) :
          CASE Len(s) = 0 -> AddEmpty
            [] Len(s) = 1 -> AddUnit(s[1])
            [] Len(s) = 2 -> AddBinary(s)
            [] OTHER      -> AddLong(s)
    BY <1>3 DEF AddClause
  <2>2. s \in Seq(Lit) /\ Elems(s) = {l \in Elems(Menu[i]) : Eval(l) # -1}
    BY <1>1, CompactedFacts
  <2>3. \A l \in Elems(s) : Eval(l) = 0
    <3> TAKE l \in Elems(s)
    <3>1. l \in Lit /\ Eval(l) # 1 /\ Eval(l) # -1
      BY <1>3, <2>2, ElemsOfSeq
    <3> QED BY <3>1, TrueIsOnTrail
  <2>4. Len(s) \in Nat
    BY <2>2
  <2>5. \/ Len(s) = 0 /\ AddEmpty
        \/ Len(s) = 1 /\ AddUnit(s[1])
        \/ Len(s) = 2 /\ AddBinary(s)
        \/ Len(s) >= 3 /\ AddLong(s)
    <3>1. CASE Len(s) # 0 /\ Len(s) # 1 /\ Len(s) # 2
      <4>1. Len(s) >= 3
        BY <2>4, <3>1, ThreeOrMore
      <4>2. AddLong(s)
        BY <2>1, <3>1
      <4> QED BY <4>1, <4>2
    <3> QED BY <2>1, <3>1
  <2> QED BY <2>2, <2>3, <2>5
<1> QED BY <1>2, <1>3

LEMMA AddClauseProp ==
  ASSUME CoreInv, SearchInv, PropInv, NEW i \in DOMAIN Menu, AddClause(i)
  PROVE  PropInv'
<1>1. /\ pc = "idle" /\ sane /\ UNCHANGED implVars
      /\ TrailInv /\ pl = 0 /\ ~InConflict
  BY PlaceFacts DEF AddClause, SearchInv, InConflict, Refuted
<1>2. CASE AddTrue \/ AddEmpty
  <2>1. UNCHANGED <<trailVars, dbVars>>
    BY <1>2 DEF AddTrue, AddEmpty
  <2> QED BY <1>1, <2>1, QuietProp
<1>3. ASSUME NEW s \in Seq(Lit), \A l \in Elems(s) : Eval(l) = 0,
             \/ Len(s) = 1 /\ AddUnit(s[1])
             \/ Len(s) = 2 /\ AddBinary(s)
             \/ Len(s) >= 3 /\ AddLong(s)
      PROVE  PropInv'
  <2>1. CASE Len(s) = 1 /\ AddUnit(s[1])
    <3> DEFINE l == s[1]
    <3>1. l \in Lit /\ Eval(l) = 0 /\ Assign(l, None) /\ UNCHANGED dbVars
      BY <1>3, <2>1 DEF AddUnit, Elems
    <3> HIDE DEF l
    <3> DEFINE k == DecisionLevel
    <3>2. Grown(l, k, None)
      BY <1>1, <3>1, ReasonKinds, AssignFacts
    <3> HIDE DEF k
    <3> QED BY <1>1, <3>1, <3>2, SteadyGrown, SteadyProp
  <2>2. CASE Len(s) >= 2 /\ UNCHANGED trailVars
    <3>1. Steady
      BY <1>1, <2>2, SteadySame DEF trailVars
    <3>2. \A a, b \in Lit : WatchesOf(s, a, b) => ~Due(a)'
      <4>1. Len(s) \in Nat /\ 1 \in DOMAIN s /\ 2 \in DOMAIN s
        BY <2>2
      <4>2. Eval(s[1]) = 0 /\ Eval(s[2]) = 0
        BY <1>3, <4>1 DEF Elems
      <4>3. Eval(s[1])' = 0 /\ Eval(s[2])' = 0
        BY <2>2, <4>2 DEF Eval, trailVars
      <4> QED BY <4>3 DEF WatchesOf, Due
    <3>3. CASE Len(s) = 2 /\ AddBinary(s)
      BY <1>1, <3>1, <3>2, <3>3, AttachBinaryProp DEF AddBinary
    <3>4. CASE Len(s) >= 3 /\ AddLong(s)
      <4>1. PICK c \in ClauseId : FreshId(c) /\ AttachClause(c, s) /\ constr' = constr \cup {c}
        BY <3>4 DEF AddLong
      <4>2. Live' = Live \cup {c}
        BY <3>4, <4>1 DEF AddLong, Live
      <4> QED BY <1>1, <3>1, <3>2, <4>1, <4>2, AttachClauseProp
    <3>5. Len(s) # 1
      BY <1>3, <2>2
    <3> QED BY <1>3, <3>3, <3>4, <3>5
  <2>3. Len(s) \in Nat /\ (AddBinary(s) \/ AddLong(s) => UNCHANGED trailVars)
    BY DEF AddBinary, AddLong
  <2> QED BY <1>3, <2>1, <2>2, <2>3
<1> QED BY <1>1, <1>2, <1>3, AddClauseSplit

(* Orienting a clause leaves its two watched literals the same.            *)
LEMMA OrientedWatches ==
  ASSUME DbPart, NEW c \in Live, pl \in Lit, pl = -wl0(c) \/ pl = -wl1(c)
  PROVE  \/ Oriented(c)[1] = wl0(c) /\ Oriented(c)[2] = wl1(c)
         \/ Oriented(c)[1] = wl1(c) /\ Oriented(c)[2] = wl0(c)
<1>1. /\ lits[c] \in Seq(Lit) /\ 1 \in 1 .. Len(lits[c]) /\ 2 \in 1 .. Len(lits[c])
      /\ wl0(c) = lits[c][1] /\ wl1(c) = lits[c][2]
  BY ClauseFacts DEF wl0, wl1
<1>2. Swapped(lits[c], 1, 2)[1] = lits[c][2] /\ Swapped(lits[c], 1, 2)[2] = lits[c][1]
  BY <1>1, SwappedFacts
<1> QED BY <1>1, <1>2 DEF Oriented

LEMMA OrientedPairs ==
  ASSUME CoreInv, NEW c \in Live, pl \in Lit, pl = -wl0(c) \/ pl = -wl1(c),
         lits' = [lits EXCEPT ![c] = Oriented(c)], UNCHANGED <<constr, learnts, watch>>
  PROVE  \A w \in Watcher : \A a, b \in Lit : Pair(a, b, w)' => Pair(a, b, w)
<1>1. /\ DbPart /\ lits \in [ClauseId -> Seq(Lit)] /\ Live \subseteq ClauseId /\ Live' = Live
  BY DEF CoreInv, DbPart, ImplTypeOK, Live
<1> SUFFICES ASSUME NEW w \in Watcher, NEW a \in Lit, NEW b \in Lit, Pair(a, b, w)'
             PROVE  Pair(a, b, w)
  OBVIOUS
<1>2. CASE w \in Lit /\ b = w /\ watch'[-a][w] > 0
  BY <1>2 DEF Pair
<1>3. CASE w \in Live' /\ ((a = wl0(w)' /\ b = wl1(w)') \/ (a = wl1(w)' /\ b = wl0(w)'))
  <2>1. CASE w = c
    <3>1. wl0(c)' = Oriented(c)[1] /\ wl1(c)' = Oriented(c)[2]
      BY <1>1 DEF wl0, wl1
    <3>2. \/ Oriented(c)[1] = wl0(c) /\ Oriented(c)[2] = wl1(c)
          \/ Oriented(c)[1] = wl1(c) /\ Oriented(c)[2] = wl0(c)
      BY <1>1, OrientedWatches
    <3>3. (a = wl0(c)' /\ b = wl1(c)') \/ (a = wl1(c)' /\ b = wl0(c)')
      BY <1>3, <2>1
    <3>4. (a = wl0(c) /\ b = wl1(c)) \/ (a = wl1(c) /\ b = wl0(c))
      BY <3>1, <3>2, <3>3
    <3> QED BY <2>1, <3>4 DEF Pair
  <2>2. CASE w # c
    <3>1. lits'[w] = lits[w]
      BY <1>1, <1>3, <2>2
    <3> QED BY <1>1, <1>3, <3>1 DEF Pair, wl0, wl1
  <2> QED BY <2>1, <2>2
<1> QED BY <1>2, <1>3 DEF Pair

(* The next literal is dequeued, and what it makes due is pending.         *)
LEMMA NextLiteralProp ==
  ASSUME CoreInv, SearchInv, PropInv, pc = "imply", NextLiteral, UNCHANGED <<pc, sane, stat, finals>>
  PROVE  PropInv'
<1>1. /\ todo = NoWatcher /\ UNCHANGED <<val, level, trail, lits, constr, learnts, watch>>
      /\ head' = head + 1 /\ head \in Nat /\ head + 1 \in 1 .. Len(trail)
      /\ pl' = trail[head + 1] /\ todo' = watch[pl']
  <2>1. /\ todo = NoWatcher /\ GetNext /\ UNCHANGED dbVars
        /\ pl' = trail[head + 1] /\ todo' = watch[trail[head + 1]]
    BY DEF NextLiteral, ListRead
  <2>2. head < Len(trail) /\ head \in Nat /\ Len(trail) \in Nat
    BY <2>1, TrailFacts DEF GetNext, HasElem, SearchInv
  <2> QED BY <2>1, <2>2 DEF GetNext, dbVars
<1>2. PICK p \in Lit : p = trail[head + 1]
  BY <1>1, TrailFacts DEF SearchInv
<1>3. /\ DbPart /\ ~InConflict /\ ~InConflict'
      /\ -p \in Lit /\ -(-p) = p /\ \A a \in Lit : -a = p => a = -p
  <2>1. ~InConflict
    BY CalmInside
  <2>2. ~InConflict'
    BY <2>1 DEF InConflict, Refuted
  <2> QED BY <2>1, <2>2, LitFacts DEF CoreInv
<1>4. BinaryPaired'
  BY <1>1 DEF PropInv, BinaryPaired, TrueForGood, Eval, LevelOf
<1>5. \A c \in Live : todo'[c] = Occurrences(-p = wl0(c), -p = wl1(c))
  <2> TAKE c \in Live
  <2>1. c \in ClauseId /\ wl0(c) \in Lit /\ wl1(c) \in Lit
    BY <1>3, ClauseFacts
  <2>2. watch[p][c] = Occurrences(p = -wl0(c), p = -wl1(c))
    BY <1>3, <2>1 DEF DbPart, WatchedTwice
  <2>3. (p = -wl0(c) <=> -p = wl0(c)) /\ (p = -wl1(c) <=> -p = wl1(c))
    BY <1>3, <2>1, LitFacts
  <2> QED BY <1>1, <1>2, <2>2, <2>3
<1>6. ServedPart'
  <2> SUFFICES ASSUME NEW w \in Watcher, NEW a \in Lit, NEW b \in Lit,
                      Pair(a, b, w)', Due(a)', ~Pending(a, w)'
               PROVE  Paid(a, b)'
    BY DEF ServedPart
  <2>1. Pair(a, b, w) /\ (Paid(a, b)' <=> Paid(a, b)) /\ Eval(a) = -1
    BY <1>1 DEF Pair, Live, wl0, wl1, Paid, Eval, LevelOf, Due
  <2>2. PICK j \in 1 .. head + 1 : trail[j] = -a
    BY <1>1 DEF Due, Among
  <2>3. CASE j = head + 1
    <3>1. a = -p
      BY <1>2, <1>3, <2>2, <2>3
    <3>2. pl' = -a /\ todo' = watch[p]
      BY <1>1, <1>2, <1>3, <3>1
    <3>3. todo'[w] > 0
      <4>1. CASE w \in Lit /\ b = w /\ watch[-a][w] > 0
        BY <1>3, <3>1, <3>2, <4>1
      <4>2. CASE w \in Live /\ (a = wl0(w) \/ a = wl1(w))
        BY <1>5, <3>1, <4>2 DEF Occurrences
      <4> QED BY <2>1, <4>1, <4>2 DEF Pair
    <3> QED BY <3>2, <3>3 DEF Pending
  <2>4. CASE j # head + 1
    <3>1. j \in 1 .. head
      BY <1>1, <2>4
    <3>2. Due(a)
      BY <1>3, <2>1, <2>2, <3>1 DEF Due, Among
    <3>3. ~Pending(a, w)
      BY <1>1 DEF Pending, NoWatcher
    <3> QED BY <2>1, <3>2, <3>3 DEF PropInv, ServedPart
  <2> QED BY <2>3, <2>4
<1>7. DoublePart'
  <2> SUFFICES ASSUME NEW c \in Live, wl0(c) = -p, wl1(c) = -p PROVE todo'[c] > 1
    BY <1>1, <1>2 DEF DoublePart, Live, wl0, wl1
  <2> QED BY <1>5 DEF Occurrences
<1> QED BY <1>4, <1>6, <1>7 DEF PropInv

(* A watcher is read.  Its pair is served, if it was pending; the other    *)
(* pairs are as they were.                                                 *)
LEMMA TakeProp ==
  ASSUME CoreInv, SearchInv, PropInv, Steady, NEW u \in Watcher, todo[u] > 0, Take(u),
         RewritesOnly,
         \A w \in Watcher \ {u} : \A a, b \in Lit : Pair(a, b, w)' => Pair(a, b, w),
         \A a, b \in Lit : Pair(a, b, u)' /\ Due(a)' /\ ~Pending(a, u)' =>
           (Pair(a, b, u) /\ ~Pending(a, u)) \/ Paid(a, b)',
         \A c \in Live \ {u} : lits'[c] = lits[c],
         u \in Live => wl0(u)' # -pl \/ wl1(u)' # -pl
  PROVE  PropInv'
<1>1. /\ pl' = pl /\ Live' = Live
      /\ \A w \in Watcher \ {u} : todo'[w] = todo[w]
  <2>1. \A w \in Watcher : todo'[w] = IF w = u THEN todo[w] - 1 ELSE todo[w]
    BY TakeKeepsTypes DEF CoreInv
  <2> QED BY <2>1 DEF Take, RewritesOnly, Live
<1>2. BinaryPaired'
  <2>1. \A a, b \in Lit : watch'[-a][b] = watch[-a][b] /\ watch'[-b][a] = watch[-b][a]
    BY LitFacts DEF RewritesOnly
  <2> QED BY <2>1, PairedStep DEF PropInv
<1>3. ServedPart'
  <2>1. \A w \in Watcher \ {u} : \A a \in Lit : Pending(a, w)' <=> Pending(a, w)
    BY <1>1 DEF Pending
  <2>2. \A w \in Watcher : \A a, b \in Lit :
          Pair(a, b, w)' /\ Due(a)' /\ ~Pending(a, w)' =>
             (Pair(a, b, w) /\ ~Pending(a, w)) \/ Paid(a, b)'
    <3> TAKE w \in Watcher
    <3>1. CASE w = u
      BY <3>1
    <3>2. CASE w # u
      BY <2>1, <3>2
    <3> QED BY <3>1, <3>2
  <2> QED BY <2>2, ServedStep DEF PropInv
<1>4. DoublePart'
  <2> SUFFICES ASSUME pl # 0, NEW c \in Live, wl0(c)' = -pl, wl1(c)' = -pl PROVE todo'[c] > 1
    BY <1>1 DEF DoublePart
  <2>1. c # u
    OBVIOUS
  <2>2. c \in Watcher
    BY WatcherKinds DEF CoreInv, DbPart, ImplTypeOK, Live
  <2>3. wl0(c) = -pl /\ wl1(c) = -pl
    BY <2>1 DEF wl0, wl1
  <2> QED BY <1>1, <2>1, <2>2, <2>3 DEF PropInv, DoublePart
<1> QED BY <1>2, <1>3, <1>4 DEF PropInv

(* The literal that is read is served once the other one is true.          *)
LEMMA ReadServed ==
  ASSUME CoreInv, SearchInv, NEW u \in Watcher, todo[u] > 0
  PROVE  /\ TrailInv /\ ~InConflict /\ pl \in Lit /\ -pl \in Lit /\ -(-pl) = pl
         /\ Eval(-pl) = -1 /\ LevelOf(-pl) = DecisionLevel /\ DecisionLevel \in Nat
         /\ \A b \in Lit : Eval(b) = 1 => Paid(-pl, b)
         /\ \A a \in Lit : Pending(a, u) <=> a = -pl
<1>1. /\ TrailInv /\ ~InConflict /\ pl \in Lit /\ -pl \in Lit /\ -(-pl) = pl
      /\ Eval(-pl) = -1 /\ LevelOf(-pl) = DecisionLevel /\ DecisionLevel \in Nat
  BY ReadFacts, CalmInside, TrailFacts DEF SearchInv
<1>2. ASSUME NEW b \in Lit, Eval(b) = 1 PROVE Paid(-pl, b)
  <2>1. PICK j \in 1 .. Len(trail) : trail[j] = b
    BY <1>1, <1>2, TrueIsOnTrail DEF Among
  <2>2. LevelOf(b) \in 0 .. DecisionLevel
    BY <1>1, <2>1, TrailFacts
  <2> QED BY <1>1, <1>2, <2>2 DEF Paid
<1>3. \A a \in Lit : Pending(a, u) <=> a = -pl
  BY <1>1, LitFacts DEF Pending
<1> QED BY <1>1, <1>2, <1>3

(* The same once it has been assigned.                                     *)
LEMMA GrownServed ==
  ASSUME CoreInv, SearchInv, NEW u \in Watcher, todo[u] > 0,
         NEW l \in Lit, NEW r \in Reason, Eval(l) = 0, Assign(l, r),
         NEW p \in Lit, p = -pl
  PROVE  Steady /\ Paid(p, l)'
<1>1. /\ TrailInv /\ ~InConflict /\ Eval(p) = -1 /\ LevelOf(p) = DecisionLevel
      /\ DecisionLevel \in Nat
  BY ReadServed
<1>2. PICK k \in Nat : k = DecisionLevel
  BY <1>1
<1>3. Grown(l, k, r)
  BY <1>1, <1>2, AssignFacts
<1>4. Steady
  BY <1>1, <1>3, SteadyGrown
<1>5. Eval(l)' = 1 /\ level'[VarOf(l)] = k
  BY <1>3 DEF Grown
<1>6. VarOf(p) # VarOf(l)
  <2> SUFFICES ASSUME VarOf(p) = VarOf(l) PROVE FALSE
    OBVIOUS
  <2>1. p = l \/ p = -l
    BY SameVar
  <2>2. Eval(-l) = -Eval(l)
    BY <1>1, TrueIsOnTrail
  <2> QED BY <1>1, <2>1, <2>2
<1>7. VarOf(p) \in Var
  BY LitFacts
<1>8. level'[VarOf(p)] = k
  BY <1>1, <1>2, <1>3, <1>6, <1>7 DEF Grown, LevelOf
<1> QED BY <1>2, <1>4, <1>5, <1>8 DEF Paid, LevelOf

LEMMA BinaryProp ==
  ASSUME CoreInv, SearchInv, PropInv, NEW u \in Lit, todo[u] > 0,
         InConflict' => InConflict, SkipBinary(u) \/ ImplyBinary(u)
  PROVE  PropInv'
<1>1. u \in Watcher /\ u \notin Live /\ Live' = Live /\ UNCHANGED <<lits, constr, learnts, watch>>
  BY WatcherKinds DEF CoreInv, DbPart, ImplTypeOK, Live, SkipBinary, ImplyBinary, dbVars
<1>2. Take(u)
  BY DEF SkipBinary, ImplyBinary
<1>3. PICK p \in Lit : p = -pl
  BY <1>1, ReadServed
<1>4. Steady /\ Paid(p, u)'
  <2>1. CASE SkipBinary(u)
    <3>1. Eval(u) = 1 /\ UNCHANGED trailVars
      BY <2>1 DEF SkipBinary
    <3>2. Paid(p, u) /\ ~InConflict
      BY <1>1, <1>3, <3>1, ReadServed
    <3>3. UNCHANGED <<val, level, trail, head>>
      BY <3>1 DEF trailVars
    <3>4. Steady
      BY <3>2, <3>3, SteadySame
    <3> QED BY <3>2, <3>3, <3>4 DEF Paid, Eval, LevelOf
  <2>2. CASE ImplyBinary(u)
    <3>1. Eval(u) = 0 /\ Assign(u, -pl) /\ -pl \in Reason
      BY <1>3, <2>2, ReasonKinds DEF ImplyBinary
    <3> QED BY <1>1, <1>3, <3>1, GrownServed
  <2> QED BY <2>1, <2>2
<1>5. \A w \in Watcher : \A a, b \in Lit : Pair(a, b, w)' <=> Pair(a, b, w)
  BY <1>1 DEF Pair, wl0, wl1
<1>6. ASSUME NEW a \in Lit, NEW b \in Lit, Pair(a, b, u)', Due(a)', ~Pending(a, u)'
      PROVE  (Pair(a, b, u) /\ ~Pending(a, u)) \/ Paid(a, b)'
  <2>1. Pair(a, b, u) /\ b = u
    BY <1>1, <1>5, <1>6 DEF Pair
  <2>2. Pending(a, u) => a = p
    BY <1>1, <1>3, ReadServed
  <2> QED BY <1>4, <2>1, <2>2
<1>7. RewritesOnly
  BY <1>1 DEF RewritesOnly
<1> QED BY <1>1, <1>2, <1>4, <1>5, <1>6, <1>7, TakeProp

(* A clause watcher that stays: its clause is satisfied, or unit.          *)
LEMMA KeptClauseProp ==
  ASSUME CoreInv, SearchInv, PropInv, NEW u \in ClauseId, todo[u] > 0,
         InConflict' => InConflict, SkipClause(u) \/ ImplyClause(u)
  PROVE  PropInv'
<1>1. u \in Watcher /\ DbPart /\ lits \in [ClauseId -> Seq(Lit)] /\ Live \subseteq ClauseId
  BY WatcherKinds DEF CoreInv, DbPart, ImplTypeOK, Live
<1>2. u \in Live /\ pl \in Lit /\ (pl = -wl0(u) \/ pl = -wl1(u))
  BY <1>1, ReadFacts
<1>3. /\ Take(u) /\ lits' = [lits EXCEPT ![u] = Oriented(u)]
      /\ UNCHANGED <<constr, learnts, watch>> /\ Live' = Live
  BY DEF SkipClause, ImplyClause, Live
<1>4. PICK p \in Lit : p = -pl
  BY <1>1, ReadServed
<1>5. PICK l \in Lit : l = Oriented(u)[1]
  BY <1>1, <1>2, OrientedFacts
<1>6. wl0(u)' = l /\ wl1(u)' = p
  <2>1. Oriented(u)[2] = -pl /\ lits'[u] = Oriented(u)
    BY <1>1, <1>2, <1>3, OrientedFacts
  <2> QED BY <1>4, <1>5, <2>1 DEF wl0, wl1
<1>7. Eval(l) # -1 /\ Eval(p) = -1
  BY <1>1, <1>4, <1>5, ReadServed DEF SkipClause, ImplyClause
<1>8. Steady /\ Paid(p, l)'
  <2>1. CASE SkipClause(u)
    <3>1. Eval(l) = 1 /\ UNCHANGED trailVars
      BY <1>5, <2>1 DEF SkipClause
    <3>2. Paid(p, l) /\ ~InConflict
      BY <1>1, <1>4, <3>1, ReadServed
    <3>3. UNCHANGED <<val, level, trail, head>>
      BY <3>1 DEF trailVars
    <3>4. Steady
      BY <3>2, <3>3, SteadySame
    <3> QED BY <3>2, <3>3, <3>4 DEF Paid, Eval, LevelOf
  <2>2. CASE ImplyClause(u)
    <3>1. Eval(l) = 0 /\ Assign(l, u) /\ u \in Reason
      BY <1>5, <2>2, ReasonKinds DEF ImplyClause
    <3> QED BY <1>1, <1>4, <3>1, GrownServed
  <2> QED BY <2>1, <2>2
<1>9. \A w \in Watcher : \A a, b \in Lit : Pair(a, b, w)' => Pair(a, b, w)
  BY <1>2, <1>3, OrientedPairs
<1>10. ASSUME NEW a \in Lit, NEW b \in Lit, Pair(a, b, u)', Due(a)', ~Pending(a, u)'
       PROVE  (Pair(a, b, u) /\ ~Pending(a, u)) \/ Paid(a, b)'
  <2>1. CASE a = p
    <3>1. b = l
      BY <1>1, <1>6, <1>7, <1>10, <2>1, WatcherKinds DEF Pair
    <3> QED BY <1>8, <2>1, <3>1
  <2>2. CASE a # p
    <3>1. ~Pending(a, u)
      BY <1>1, <1>4, <2>2, ReadServed
    <3> QED BY <1>1, <1>9, <1>10, <3>1
  <2> QED BY <2>1, <2>2
<1>11. \A c \in Live \ {u} : lits'[c] = lits[c]
  BY <1>1, <1>3
<1>12. wl0(u)' # -pl
  BY <1>4, <1>6, <1>7
<1>13. RewritesOnly
  BY ClauseRewrites
<1> QED BY <1>1, <1>3, <1>8, <1>9, <1>10, <1>11, <1>12, <1>13, TakeProp

(* A clause watcher that moves: the new watched literal is not false.      *)
LEMMA MoveWatchProp ==
  ASSUME CoreInv, SearchInv, PropInv, NEW u \in ClauseId, todo[u] > 0, MoveWatch(u)
  PROVE  PropInv'
<1>1. u \in Watcher /\ DbPart /\ lits \in [ClauseId -> Seq(Lit)] /\ Live \subseteq ClauseId
  BY WatcherKinds DEF CoreInv, DbPart, ImplTypeOK, Live
<1>2. u \in Live /\ pl \in Lit /\ (pl = -wl0(u) \/ pl = -wl1(u))
  BY <1>1, ReadFacts
<1> DEFINE s == Oriented(u)
<1>3. /\ s \in Seq(Lit) /\ Len(s) = Len(lits[u]) /\ s[1] \in Lit /\ s[2] = -pl
      /\ Len(s) >= 3 /\ Len(s) \in Nat
      /\ (s[1] = wl0(u) /\ s[2] = wl1(u)) \/ (s[1] = wl1(u) /\ s[2] = wl0(u))
  BY <1>1, <1>2, OrientedFacts, OrientedWatches, ClauseFacts
<1>4. PICK i \in 3 .. Len(lits[u]) :
        /\ Replaces(s, i) /\ lits' = [lits EXCEPT ![u] = Swapped(s, 2, i)]
        /\ watch' = Moved(u, -s[i])
  BY DEF MoveWatch
<1>5. /\ Take(u) /\ Eval(s[1]) # 1 /\ UNCHANGED trailVars /\ UNCHANGED <<constr, learnts>>
      /\ Live' = Live
  BY DEF MoveWatch, Live
<1> HIDE DEF s
<1>6. PICK p \in Lit : p = -pl
  BY <1>1, ReadServed
<1>7. PICK l \in Lit : l = s[1]
  BY <1>3
<1>8. PICK m \in Lit : m = s[i]
  BY <1>3, <1>4, ElementOfSeq
<1>9. wl0(u)' = l /\ wl1(u)' = m
  <2>1. 2 \in 1 .. Len(s) /\ i \in 1 .. Len(s) /\ 1 \in 1 .. Len(s) /\ i # 1 /\ i # 2
    BY <1>3, <1>4
  <2>2. Swapped(s, 2, i)[1] = s[1] /\ Swapped(s, 2, i)[2] = s[i]
    BY <1>3, <2>1, SwappedFacts
  <2>3. lits'[u] = Swapped(s, 2, i)
    BY <1>1, <1>4
  <2> QED BY <1>7, <1>8, <2>2, <2>3 DEF wl0, wl1
<1>10. /\ Eval(p) = -1 /\ Eval(m) # -1 /\ ~InConflict /\ Due(p)
       /\ \A a \in Lit : Pending(a, u) <=> a = p
  <2>1. Eval(m) # -1
    BY <1>4, <1>8 DEF Replaces
  <2>2. Eval(p) = -1 /\ ~InConflict /\ \A a \in Lit : Pending(a, u) <=> a = p
    BY <1>1, <1>6, ReadServed
  <2>3. Among(-p, head)
    <3>1. -p = pl /\ trail[head] = pl /\ head \in 1 .. Len(trail)
      BY <1>1, <1>6, ReadFacts
    <3>2. head \in 1 .. head
      BY <3>1
    <3> QED BY <3>1, <3>2 DEF Among
  <2> QED BY <2>1, <2>2, <2>3 DEF Due
<1>11. Steady
  <2>1. UNCHANGED <<val, level, trail, head>>
    BY <1>5 DEF trailVars
  <2> QED BY <1>10, <2>1, SteadySame
<1>12. RewritesOnly
  BY ClauseRewrites
<1>13. ASSUME NEW w \in Watcher \ {u}, NEW a \in Lit, NEW b \in Lit, Pair(a, b, w)'
       PROVE  Pair(a, b, w)
  <2>1. CASE w \in Lit /\ b = w /\ watch'[-a][w] > 0
    <3>1. watch'[-a][w] = watch[-a][w]
      BY <1>12, <2>1, LitFacts DEF RewritesOnly
    <3> QED BY <2>1, <3>1 DEF Pair
  <2>2. CASE w \in Live' /\ ((a = wl0(w)' /\ b = wl1(w)') \/ (a = wl1(w)' /\ b = wl0(w)'))
    <3>1. w \in Live /\ lits'[w] = lits[w]
      BY <1>1, <1>4, <1>5, <1>13, <2>2
    <3> QED BY <2>2, <3>1 DEF Pair, wl0, wl1
  <2> QED BY <1>13, <2>1, <2>2 DEF Pair
<1>14. ASSUME NEW a \in Lit, NEW b \in Lit, Pair(a, b, u)', Due(a)', ~Pending(a, u)'
       PROVE  FALSE
  <2>1. Eval(a) = -1 /\ Due(a)
    BY <1>11, <1>14 DEF Steady, Due
  <2>2. a = l
    <3>1. a = l \/ a = m
      BY <1>1, <1>9, <1>14, WatcherKinds DEF Pair
    <3> QED BY <1>10, <2>1, <3>1
  <2>3. CASE l = p
    <3>1. wl0(u) = -pl /\ wl1(u) = -pl
      BY <1>3, <1>6, <1>7, <2>3
    <3>2. pl # 0 /\ todo[u] > 1 /\ todo[u] \in Nat
      BY <1>1, <1>2, <3>1, ReadFacts DEF PropInv, DoublePart, CoreInv, DbPart, ImplTypeOK
    <3>3. todo'[u] = todo[u] - 1 /\ pl' = pl
      BY <1>1, <1>5, TakeKeepsTypes DEF CoreInv
    <3>4. Pending(a, u)
      BY <1>10, <2>2, <2>3
    <3> QED BY <1>14, <3>2, <3>3, <3>4 DEF Pending
  <2>4. CASE l # p
    <3>1. ~Pending(l, u)
      BY <1>10, <2>4
    <3>2. Pair(l, p, u)
      BY <1>2, <1>3, <1>6, <1>7 DEF Pair
    <3>3. Paid(l, p)
      BY <1>1, <2>1, <2>2, <3>1, <3>2 DEF PropInv, ServedPart
    <3> QED BY <1>10, <3>3 DEF Paid
  <2> QED BY <2>3, <2>4
<1>15. \A c \in Live \ {u} : lits'[c] = lits[c]
  BY <1>1, <1>4
<1>16. wl1(u)' # -pl
  BY <1>6, <1>9, <1>10
<1> QED BY <1>1, <1>5, <1>11, <1>12, <1>13, <1>14, <1>15, <1>16, TakeProp

LEMMA PropagateProp == ASSUME CoreInv, SearchInv, PropInv, PropagateStep PROVE PropInv'
<1>1. pc = "imply" /\ UNCHANGED <<pc, sane, stat, finals>> /\ Propagate
  BY DEF PropagateStep, ctlVars, answerVars
<1>2. InConflict' => InConflict
  BY <1>1 DEF InConflict, Refuted
<1>3. CASE NextLiteral
  BY <1>1, <1>3, NextLiteralProp
<1>4. ASSUME NEW w \in Watcher, todo[w] > 0,
             IF w \in Lit THEN SkipBinary(w) \/ ImplyBinary(w)
             ELSE SkipClause(w) \/ MoveWatch(w) \/ ImplyClause(w)
      PROVE  PropInv'
  <2>1. CASE w \in Lit
    BY <1>2, <1>4, <2>1, BinaryProp
  <2>2. CASE w \notin Lit
    BY <1>2, <1>4, <2>2, KeptClauseProp, MoveWatchProp DEF Watcher
  <2> QED BY <2>1, <2>2
<1> QED BY <1>1, <1>3, <1>4 DEF Propagate

(* What implication() leaves unread is above the level the search returns  *)
(* to, or no longer matters.                                               *)
LEMMA ConflictProp == ASSUME CoreInv, SearchInv, PropInv, ConflictStep PROVE PropInv'
<1>1. PICK w \in Watcher : Conflict(w)
  BY DEF ConflictStep
<1>2. /\ UNCHANGED <<trailVars, constr, learnts, watch>> /\ pl' = 0 /\ todo[w] > 0
      /\ lits' = IF w \in Lit THEN lits ELSE [lits EXCEPT ![w] = Oriented(w)]
  BY <1>1 DEF Conflict, ConflictAt
<1>3. UNCHANGED <<val, level, trail, head, marker>> /\ DecisionLevel' = DecisionLevel
  BY <1>2 DEF trailVars, DecisionLevel
<1>4. /\ pc = "imply" /\ cont # "init" /\ pl \in Lit
      /\ w \in ClauseId => w \in Live /\ (pl = -wl0(w) \/ pl = -wl1(w))
  BY <1>2, ReadFacts
<1>5. ~InConflict
  BY <1>2, ReadServed
<1>6. InConflict'
  <2>0. cont \in {"add", "search"} /\ DecisionLevel \in Nat
    BY <1>4, TrailFacts DEF SearchInv, ControlPart, PlacePart
  <2>1. CASE cont = "add"
    <3>1. GoTo("idle", "none") /\ sane' = FALSE
      BY <2>1 DEF ConflictStep
    <3> QED BY <3>1 DEF InConflict
  <2>2. CASE cont = "search" /\ DecisionLevel = 0
    <3>1. GoTo("stat", "none") /\ stat' = "unsat" /\ finals' = finals
      BY <2>2 DEF ConflictStep
    <3>2. finals = {}
      BY <1>4, <2>2 DEF SearchInv, ControlPart, PlacePart, Adding
    <3> QED BY <3>1, <3>2 DEF GoTo, InConflict, Refuted
  <2>3. CASE cont = "search" /\ DecisionLevel # 0
    <3>1. GoTo("capture", "none")
      BY <2>3 DEF ConflictStep
    <3> QED BY <3>1 DEF GoTo, InConflict
  <2> QED BY <2>0, <2>1, <2>2, <2>3
<1>7. Steady
  BY <1>3, <1>5, SteadySame
<1>8. BinaryPaired'
  BY <1>2, <1>7, PairedStep DEF PropInv
<1>9. \A u \in Watcher : \A a, b \in Lit : Pair(a, b, u)' => Pair(a, b, u)
  <2>1. CASE w \in Lit
    BY <1>2, <2>1 DEF Pair, Live, wl0, wl1
  <2>2. CASE w \notin Lit
    <3>1. w \in ClauseId /\ lits' = [lits EXCEPT ![w] = Oriented(w)]
      BY <1>2, <2>2 DEF Watcher
    <3> QED BY <1>2, <1>4, <3>1, OrientedPairs
  <2> QED BY <2>1, <2>2
<1>10. ASSUME NEW u \in Watcher, NEW a \in Lit, Due(a)' PROVE ~Pending(a, u)
  <2> SUFFICES ASSUME pl = -a PROVE FALSE
    BY DEF Pending
  <2>1. a = -pl
    BY LitFacts
  <2>2. LevelOf(a) = DecisionLevel /\ DecisionLevel \in Nat
    BY <1>2, <2>1, ReadServed
  <2>3. LevelOf(a)' = LevelOf(a)
    BY <1>3 DEF LevelOf
  <2>4. LevelOf(a)' < DecisionLevel'
    BY <1>6, <1>10 DEF Due
  <2> QED BY <1>3, <2>2, <2>3, <2>4
<1>11. ServedPart'
  BY <1>7, <1>9, <1>10, ServedStep DEF PropInv
<1> QED BY <1>2, <1>8, <1>11 DEF PropInv, DoublePart

LEMMA PropInitOK == Init => PropInv
<1> SUFFICES ASSUME Init PROVE PropInv
  OBVIOUS
<1>1. pl = 0 /\ Live = {} /\ head = 0 /\ \A l, w \in Lit : watch[l][w] = 0
  <2>1. watch = [l \in Lit |-> NoWatcher] /\ NoWatcher = [w \in Watcher |-> 0]
    BY DEF Init, ImplInit, NoWatcher
  <2>2. \A l, w \in Lit : watch[l][w] = 0
    BY <2>1, WatcherKinds
  <2> QED BY <2>2 DEF Init, TrailInit, ImplInit, Live
<1>2. \A a \in Lit : ~Due(a) /\ -a \in Lit
  BY <1>1, LitFacts DEF Due, Among
<1> QED BY <1>1, <1>2 DEF PropInv, BinaryPaired, ServedPart, DoublePart

LEMMA PropNextKeeps == CoreInv /\ SearchInv /\ PropInv /\ [Next]_vars => PropInv'
<1> SUFFICES ASSUME CoreInv, SearchInv, PropInv, [Next]_vars PROVE PropInv'
  OBVIOUS
<1>1. CASE UNCHANGED vars
  BY <1>1, StutterProp
<1>2. CASE Client
  BY <1>2, NewVariableProp, AddClauseProp, SetBudgetProp, SolveProp DEF Client
<1>3. CASE Stop
  BY <1>3, StopProp
<1>4. CASE Rest
  BY <1>4, StutterProp DEF Rest
<1>5. CASE Search
  BY <1>5, SolveInitProp, PropagateProp, ConflictProp, ImplicationDoneProp,
     SkipSweepProp, SweepProp, StartSearchProp, CaptureProp, BackjumpProp, LearnProp,
     GiveUpProp, GoAheadProp, ReduceProp, SkipAssumptionProp, DecideAssumptionProp,
     RefuteAssumptionProp, DecideFreeProp, NothingToDecideProp, RestartProp, FinishProp
     DEF Search
<1> QED BY <1>1, <1>2, <1>3, <1>4, <1>5 DEF Next

(* What is proved of the watchers: the invariant, in every behaviour.      *)
THEOREM PropAlwaysInv == Spec => [](CoreInv /\ SearchInv /\ PropInv)
<1>1. Init => PropInv
  BY PropInitOK
<1>2. (CoreInv /\ SearchInv) /\ PropInv /\ [Next]_vars => PropInv'
  BY PropNextKeeps
<1> QED BY <1>1, <1>2, SearchAlwaysInv, PTL DEF Spec

LEMMA TwoOpen ==
  ASSUME NEW S, IsFiniteSet(S), NEW i \in S, NEW j \in S, i # j
  PROVE  Cardinality(S) > 1
<1>1. IsFiniteSet(S \ {i}) /\ Cardinality(S \ {i}) = Cardinality(S) - 1
  BY FS_RemoveElement
<1>2. IsFiniteSet((S \ {i}) \ {j}) /\ Cardinality((S \ {i}) \ {j}) = Cardinality(S \ {i}) - 1
  BY <1>1, FS_RemoveElement
<1>3. Cardinality(S) \in Nat /\ Cardinality((S \ {i}) \ {j}) \in Nat
  BY <1>2, FS_CardinalityType
<1> QED BY <1>1, <1>2, <1>3

LEMMA OpenInFinite ==
  ASSUME NEW s \in Seq(Lit)
  PROVE  IsFiniteSet(OpenIn(s))
<1>1. OpenIn(s) \in SUBSET Lit
  BY ElemsOfSeq DEF OpenIn
<1> QED BY <1>1, LitsFinite

(* Neither watched literal false, or a true literal: nothing was missed.   *)
LEMMA TwoAreEnough ==
  ASSUME NEW s \in Seq(Lit), Len(s) >= 2, TrailInv,
         Eval(s[1]) = -1 => \E i \in DOMAIN s : Eval(s[i]) = 1,
         Eval(s[2]) = -1 => \E i \in DOMAIN s : Eval(s[i]) = 1
  PROVE  Propagated(s)
<1> SUFFICES ASSUME ~IsSatisfied(s), ~WatchedAtOne(s) PROVE Cardinality(OpenIn(s)) > 1
  BY DEF Propagated
<1>1. Len(s) \in Nat /\ DOMAIN s = 1 .. Len(s) /\ 1 \in DOMAIN s /\ 2 \in DOMAIN s
  OBVIOUS
<1>2. s[1] \in Lit /\ s[2] \in Lit
  BY <1>1, ElementOfSeq
<1>3. \A i \in DOMAIN s : Eval(s[i]) # 1
  BY DEF IsSatisfied, Elems
<1>4. Eval(s[1]) = 0 /\ Eval(s[2]) = 0
  BY <1>1, <1>2, <1>3, TrueIsOnTrail
<1>5. s[1] \in OpenIn(s) /\ s[2] \in OpenIn(s) /\ s[1] # s[2]
  BY <1>1, <1>4 DEF OpenIn, Elems, WatchedAtOne
<1>6. IsFiniteSet(OpenIn(s))
  BY OpenInFinite
<1> QED BY <1>5, <1>6, TwoOpen

LEMMA PropagatedImplies == CoreInv /\ SearchInv /\ PropInv => PropagationComplete
<1> SUFFICES ASSUME CoreInv, SearchInv, PropInv, pc \in {"check", "sweep", "reduce", "decide"}
             PROVE  AllPropagated
  BY DEF PropagationComplete, AfterImplication
<1>1. TrailInv /\ DbPart /\ ~InConflict /\ pl = 0 /\ head = Len(trail)
  <2>1. TrailInv /\ DbPart /\ ~InConflict /\ pl = 0 /\ ~HasElem
    BY CalmInside, PlaceFacts DEF SearchInv, ControlPart, QueuePart, CoreInv
  <2> QED BY <2>1, TrailFacts
<1>2. ASSUME NEW w \in Watcher, NEW a \in Lit, NEW b \in Lit, Pair(a, b, w), Eval(a) = -1
      PROVE  Eval(b) = 1
  <2>1. Due(a)
    BY <1>1, <1>2, TrueIsOnTrail DEF Due
  <2>2. ~Pending(a, w)
    BY <1>1, LitFacts DEF Pending
  <2> QED BY <1>2, <2>1, <2>2 DEF PropInv, ServedPart, Paid
<1>3. ASSUME NEW c \in Live PROVE Propagated(lits[c])
  <2>1. /\ c \in ClauseId /\ lits[c] \in Seq(Lit) /\ Len(lits[c]) \in Nat /\ Len(lits[c]) >= 3
        /\ wl0(c) \in Lit /\ wl1(c) \in Lit
    BY <1>1, ClauseFacts
  <2>2. /\ c \in Watcher /\ Pair(wl0(c), wl1(c), c) /\ Pair(wl1(c), wl0(c), c)
    BY <2>1, WatcherKinds DEF Pair
  <2>3. (Eval(wl0(c)) = -1 => Eval(wl1(c)) = 1) /\ (Eval(wl1(c)) = -1 => Eval(wl0(c)) = 1)
    BY <1>2, <2>1, <2>2
  <2>4. 1 \in DOMAIN lits[c] /\ 2 \in DOMAIN lits[c] /\ Len(lits[c]) >= 2
    BY <2>1
  <2> QED BY <1>1, <2>1, <2>3, <2>4, TwoAreEnough DEF wl0, wl1
<1>4. ASSUME NEW l \in Lit, NEW w \in Lit, watch[l][w] > 0 PROVE Propagated(<<-l, w>>)
  <2>1. PICK a \in Lit : a = -l /\ l = -a
    BY LitFacts
  <2>2. w \in Watcher /\ a \in Watcher
    BY WatcherKinds
  <2>3. Eval(a) = -1 => Eval(w) = 1
    BY <1>2, <1>4, <2>1, <2>2 DEF Pair
  <2>4. Eval(w) = -1 => Eval(a) = 1 \/ Eval(w) = 1
    <3>1. CASE watch[-a][w] # watch[-w][a]
      BY <3>1 DEF PropInv, BinaryPaired, TrueForGood
    <3>2. CASE watch[-a][w] = watch[-w][a]
      BY <1>2, <1>4, <2>1, <2>2, <3>2 DEF Pair
    <3> QED BY <3>1, <3>2
  <2>5. PICK s \in Seq(Lit) : s = <<a, w>>
    <3>1. <<a, w>> \in Seq(Lit)
      OBVIOUS
    <3> QED BY <3>1
  <2>6. Len(s) = 2 /\ s[1] = a /\ s[2] = w /\ 1 \in DOMAIN s /\ 2 \in DOMAIN s
    BY <2>5
  <2>7. Propagated(s)
    BY <1>1, <2>3, <2>4, <2>6, TwoAreEnough
  <2> QED BY <2>1, <2>5, <2>7
<1> QED BY <1>3, <1>4 DEF AllPropagated

(* The two halves of a binary clause stay together in the watcher lists;   *)
(* only a clause satisfied at level 0 may have lost one of them to         *)
(* del_satisfied_watcher().                                                *)
THEOREM EngineBinaryPaired == Spec => []BinaryPaired
<1>1. PropInv => BinaryPaired
  BY DEF PropInv
<1> QED BY <1>1, PropAlwaysInv, PTL

(* When implication() returns without a conflict no clause, original or    *)
(* learnt, is false, and none is unit unless both its watches rest on its  *)
(* one open literal, a literal it repeats: two watches on two literals     *)
(* miss nothing, after whatever backjumps, restarts and deletions.         *)
THEOREM EnginePropagationComplete == Spec => []PropagationComplete
BY PropAlwaysInv, PropagatedImplies, PTL
-----------------------------------------------------------------------------
(***************************************************************************)
(* A satisfiable answer is true.                                           *)
(***************************************************************************)

(* What keeps the clause C of the client in the solver: a literal true at  *)
(* level 0, a Clause object with some of its literals, or two halves of a  *)
(* binary clause.                                                          *)
StoredPair(a, b) ==
  /\ watch[-a][b] > 0 /\ watch[-b][a] > 0
  /\ VarOf(a) \in DecVar \/ VarOf(b) \in DecVar
Stored(C) ==
  \/ \E l \in C : TrueForGood(l)
  \/ \E c \in constr : Elems(lits[c]) \subseteq C
  \/ \E a, b \in C : StoredPair(a, b)

StoredPart ==
  /\ constr \cap learnts = {}
  /\ \A c \in constr : Decided(lits[c])
  /\ \A C \in cnf : C \subseteq Lit /\ \A l \in C : VarOf(l) <= varNum
  /\ sane => \A C \in cnf : Stored(C)

(* The assumptions of the levels opened so far are true, and stay true     *)
(* for as long as their levels are there.                                  *)
AssumedAt(k) == Eval(assumps[k]) = 1 /\ LevelOf(assumps[k]) <= k
AssumedPart ==
  InSearch => \A k \in 1 .. Len(assumps) : k <= DecisionLevel => AssumedAt(k)

(* The values are a model of the clauses and the assumptions.              *)
ModelHolds == \A C \in Formula : \E l \in C : Eval(l) = 1
SatPart == pc \in {"stat", "finish"} /\ stat = "sat" => ModelHolds
AddingPart == Adding => stat = "none"

SatInv == StoredPart /\ AssumedPart /\ SatPart /\ AddingPart

(* A change of the trail that leaves what is true at the remaining levels. *)
KeepsTrue ==
  /\ DecisionLevel' \in Nat
  /\ \A l \in Lit : Eval(l) = 1 /\ LevelOf(l) <= DecisionLevel' =>
       Eval(l)' = 1 /\ LevelOf(l)' = LevelOf(l)

LEMMA KeepsSame ==
  ASSUME TrailInv, UNCHANGED <<val, level>>, DecisionLevel' \in Nat
  PROVE  KeepsTrue
BY DEF KeepsTrue, Eval, LevelOf

LEMMA KeepsUnchanged ==
  ASSUME TrailInv, UNCHANGED trailVars
  PROVE  KeepsTrue /\ DecisionLevel' = DecisionLevel
<1>1. DecisionLevel' = DecisionLevel /\ DecisionLevel \in Nat /\ UNCHANGED <<val, level>>
  BY TrailFacts DEF trailVars, DecisionLevel
<1> QED BY <1>1, KeepsSame

LEMMA KeepsGrown ==
  ASSUME TrailInv, NEW l \in Lit, Eval(l) = 0, NEW k, NEW r, Grown(l, k, r), DecisionLevel' \in Nat
  PROVE  KeepsTrue
<1> SUFFICES ASSUME NEW q \in Lit, Eval(q) = 1
             PROVE  Eval(q)' = 1 /\ LevelOf(q)' = LevelOf(q)
  BY DEF KeepsTrue
<1>1. VarOf(q) # VarOf(l)
  <2> SUFFICES ASSUME VarOf(q) = VarOf(l) PROVE FALSE
    OBVIOUS
  <2>1. q = l \/ q = -l
    BY SameVar
  <2> QED BY <2>1, TrueIsOnTrail
<1>2. VarOf(q) \in Var
  BY LitFacts
<1> QED BY <1>1, <1>2 DEF Grown, LevelOf

LEMMA KeepsBack ==
  ASSUME TrailInv, NEW k \in Nat, Backtrack(k)
  PROVE  KeepsTrue /\ DecisionLevel' <= DecisionLevel
<1>1. /\ DecisionLevel' = IF k < DecisionLevel THEN k ELSE DecisionLevel
      /\ ~(k < DecisionLevel) => UNCHANGED trailVars
      /\ level' = level /\ DecisionLevel \in Nat
      /\ \A q \in Lit : Eval(q)' = IF Eval(q) # 0 /\ LevelOf(q) > k THEN 0 ELSE Eval(q)
  BY BacktrackFacts, TrailFacts
<1>2. CASE ~(k < DecisionLevel)
  BY <1>1, <1>2, KeepsUnchanged
<1>3. CASE k < DecisionLevel
  <2>1. \A q \in Lit : LevelOf(q) \in Nat /\ LevelOf(q)' = LevelOf(q)
    BY <1>1, LitFacts DEF LevelOf, TrailInv, TrailTypeOK
  <2>2. DecisionLevel' = k
    BY <1>1, <1>3
  <2>3. \A q \in Lit : LevelOf(q) <= k => ~(LevelOf(q) > k)
    BY <2>1
  <2> QED BY <1>1, <1>3, <2>1, <2>2, <2>3 DEF KeepsTrue
<1> QED BY <1>2, <1>3

LEMMA KeepsForGood ==
  ASSUME KeepsTrue, NEW l \in Lit, TrueForGood(l)
  PROVE  TrueForGood(l)'
<1>1. Eval(l) = 1 /\ LevelOf(l) <= DecisionLevel'
  BY DEF KeepsTrue, TrueForGood
<1> QED BY <1>1 DEF KeepsTrue, TrueForGood

(* At level 0 whatever is true is true for good.                           *)
LEMMA TrueAtTop ==
  ASSUME TrailInv, DecisionLevel = 0, NEW l \in Lit, Eval(l) = 1
  PROVE  TrueForGood(l)
<1>1. Among(l, Len(trail)) /\ VarOf(l) \in Var
  BY TrueIsOnTrail, LitFacts
<1>2. LevelOf(l) \in 0 .. DecisionLevel
  BY <1>1, TrailFacts DEF Among
<1> QED BY <1>2 DEF TrueForGood

(* The clauses of the client stay in the solver if each clause object and  *)
(* each binary clause does, or is satisfied for good.                      *)
LEMMA StoredStays ==
  ASSUME KeepsTrue, NEW C \in SUBSET Lit, Stored(C),
         \A c \in constr : \/ c \in constr' /\ Elems(lits'[c]) = Elems(lits[c])
                           \/ \E l \in Elems(lits[c]) : TrueForGood(l)',
         \A a, b \in Lit : watch[-a][b] > 0 =>
                             watch'[-a][b] > 0 \/ TrueForGood(a)' \/ TrueForGood(b)'
  PROVE  Stored(C)'
<1>1. CASE \E l \in C : TrueForGood(l)
  BY <1>1, KeepsForGood DEF Stored
<1>2. CASE \E c \in constr : Elems(lits[c]) \subseteq C
  BY <1>2 DEF Stored
<1>3. ASSUME NEW a \in C, NEW b \in C, StoredPair(a, b)
      PROVE  Stored(C)'
  <2>1. a \in Lit /\ b \in Lit
    OBVIOUS
  <2>2. \/ watch'[-a][b] > 0 /\ watch'[-b][a] > 0
        \/ TrueForGood(a)' \/ TrueForGood(b)'
    BY <1>3, <2>1 DEF StoredPair
  <2> QED BY <1>3, <2>2 DEF Stored, StoredPair
<1> QED BY <1>1, <1>2, <1>3 DEF Stored

LEMMA StoredStep ==
  ASSUME StoredPart, KeepsTrue, UNCHANGED <<cnf, varNum>>, sane' => sane,
         constr' \cap learnts' = {},
         \A c \in constr' : Decided(lits'[c]),
         \A c \in constr : \/ c \in constr' /\ Elems(lits'[c]) = Elems(lits[c])
                           \/ \E l \in Elems(lits[c]) : TrueForGood(l)',
         \A a, b \in Lit : watch[-a][b] > 0 =>
                             watch'[-a][b] > 0 \/ TrueForGood(a)' \/ TrueForGood(b)'
  PROVE  StoredPart'
<1>1. ASSUME sane', NEW C \in cnf PROVE Stored(C)'
  <2>1. C \in SUBSET Lit /\ Stored(C)
    BY <1>1 DEF StoredPart
  <2> QED BY <2>1, StoredStays
<1> QED BY <1>1 DEF StoredPart

LEMMA StoredSame ==
  ASSUME StoredPart, KeepsTrue, UNCHANGED <<cnf, varNum, dbVars>>, sane' => sane
  PROVE  StoredPart'
<1>1. UNCHANGED <<lits, constr, learnts, watch>>
  BY DEF dbVars
<1>2. constr' \cap learnts' = {} /\ \A c \in constr' : Decided(lits'[c])
  BY <1>1 DEF StoredPart
<1> QED BY <1>1, <1>2, StoredStep

LEMMA AssumedStep ==
  ASSUME CoreInv, AssumedPart, KeepsTrue, InSearch, assumps' = assumps, DecisionLevel \in Nat,
         \A k \in 1 .. Len(assumps) : k > DecisionLevel /\ k <= DecisionLevel' => AssumedAt(k)'
  PROVE  AssumedPart'
<1> SUFFICES ASSUME NEW k \in 1 .. Len(assumps), k <= DecisionLevel' PROVE AssumedAt(k)'
  BY DEF AssumedPart
<1>1. CASE k > DecisionLevel
  BY <1>1
<1>2. CASE ~(k > DecisionLevel)
  <2>1. Eval(assumps[k]) = 1 /\ LevelOf(assumps[k]) <= k
    BY <1>2 DEF AssumedPart, AssumedAt
  <2>2. PICK l \in Lit : l = assumps[k]
    <3>1. assumps \in Seq(Lit)
      BY DEF CoreInv, QueryPart
    <3> QED BY <3>1, ElementOfSeq
  <2>3. LevelOf(l) \in Nat /\ DecisionLevel' \in Nat
    BY LitFacts DEF LevelOf, CoreInv, TrailPart, TrailTypeOK, KeepsTrue
  <2>4. LevelOf(l) <= DecisionLevel'
    BY <2>1, <2>2, <2>3
  <2>5. Eval(l)' = 1 /\ LevelOf(l)' = LevelOf(l)
    BY <2>1, <2>2, <2>4 DEF KeepsTrue
  <2>6. Eval(l)' = 1 /\ LevelOf(l)' <= k
    BY <2>1, <2>2, <2>5
  <2> QED BY <2>2, <2>6 DEF AssumedAt, Eval, LevelOf
<1> QED BY <1>1, <1>2

LEMMA TopAssumed == ASSUME DecisionLevel' = 0 PROVE AssumedPart'
BY DEF AssumedPart

(* The clauses are left alone.                                             *)
LEMMA CalmSat ==
  ASSUME CoreInv, SearchInv, SatInv, KeepsTrue, UNCHANGED <<cnf, varNum, dbVars>>, sane' => sane,
         \/ ~InSearch'
         \/ DecisionLevel' = 0
         \/ /\ InSearch /\ assumps' = assumps
            /\ \A k \in 1 .. Len(assumps) :
                 k > DecisionLevel /\ k <= DecisionLevel' => AssumedAt(k)',
         SatPart', AddingPart'
  PROVE  SatInv'
<1>1. StoredPart'
  BY StoredSame DEF SatInv
<1>2. AssumedPart'
  <2>1. CASE ~InSearch'
    BY <2>1 DEF AssumedPart
  <2>2. CASE DecisionLevel' = 0
    BY <2>2, TopAssumed
  <2>3. CASE /\ InSearch /\ assumps' = assumps
             /\ \A k \in 1 .. Len(assumps) :
                  k > DecisionLevel /\ k <= DecisionLevel' => AssumedAt(k)'
    <3>1. DecisionLevel \in Nat
      BY TrailFacts DEF SearchInv
    <3> QED BY <2>3, <3>1, AssumedStep DEF SatInv
  <2> QED BY <2>1, <2>2, <2>3
<1> QED BY <1>1, <1>2 DEF SatInv

(* ... and so is the trail.                                                *)
LEMMA QuietSat ==
  ASSUME CoreInv, SearchInv, SatInv, UNCHANGED <<trailVars, cnf, varNum, dbVars>>, sane' => sane,
         \/ ~InSearch'
         \/ DecisionLevel = 0
         \/ InSearch /\ assumps' = assumps,
         SatPart', AddingPart'
  PROVE  SatInv'
<1>1. TrailInv /\ DecisionLevel \in Nat
  BY TrailFacts DEF SearchInv
<1>2. KeepsTrue /\ DecisionLevel' = DecisionLevel
  BY <1>1, KeepsUnchanged
<1>3. \A k \in 1 .. Len(assumps) : ~(k > DecisionLevel /\ k <= DecisionLevel')
  BY <1>1, <1>2
<1> QED BY <1>2, <1>3, CalmSat

LEMMA SameSat ==
  ASSUME CoreInv, SearchInv, SatInv,
         UNCHANGED <<trailVars, cnf, varNum, dbVars, sane, assumps, stat, pc, cont>>
  PROVE  SatInv'
<1>1. AddingPart' /\ (InSearch' => InSearch)
  BY DEF SatInv, AddingPart, Adding, InSearch, Inside
<1>2. SatPart'
  BY DEF SatInv, SatPart, ModelHolds, Formula, Units, Eval, trailVars
<1> QED BY <1>1, <1>2, QuietSat

LEMMA StopSat == ASSUME CoreInv, SearchInv, SatInv, Stop PROVE SatInv'
BY SameSat DEF Stop, varVars, answerVars, ctlVars

LEMMA StutterSat == ASSUME CoreInv, SearchInv, SatInv, UNCHANGED vars PROVE SatInv'
BY SameSat DEF vars, clientVars, varVars, answerVars, ctlVars

LEMMA SetBudgetSat ==
  ASSUME CoreInv, SearchInv, SatInv, NEW b \in Budgets, SetBudget(b)
  PROVE  SatInv'
BY SameSat DEF SetBudget, clientVars, varVars, answerVars, ctlVars

LEMMA NewVariableSat == ASSUME CoreInv, SearchInv, SatInv, NewVariable PROVE SatInv'
<1>1. /\ pc' = "idle" /\ varNum' = varNum + 1 /\ TrailInv
      /\ UNCHANGED <<trailVars, cnf, dbVars, sane, lits, constr, learnts, watch>>
  BY DEF NewVariable, clientVars, ctlVars, dbVars, SearchInv
<1>2. KeepsTrue
  BY <1>1, KeepsUnchanged
<1>3. \A C \in cnf : \A l \in C : VarOf(l) <= varNum'
  <2> SUFFICES ASSUME NEW C \in cnf, NEW l \in C PROVE VarOf(l) <= varNum'
    OBVIOUS
  <2>1. l \in Lit /\ VarOf(l) <= varNum
    BY DEF SatInv, StoredPart
  <2>2. VarOf(l) \in Nat /\ varNum \in Nat
    BY <2>1, LitFacts, SizeAssumption DEF CoreInv, SelPart
  <2> QED BY <1>1, <2>1, <2>2
<1>4. ASSUME sane', NEW C \in cnf PROVE Stored(C)'
  <2>1. C \in SUBSET Lit /\ Stored(C)
    BY <1>1, <1>4 DEF SatInv, StoredPart
  <2> QED BY <1>1, <1>2, <2>1, StoredStays
<1>5. StoredPart'
  BY <1>1, <1>3, <1>4 DEF SatInv, StoredPart
<1> QED BY <1>1, <1>5 DEF SatInv, AssumedPart, SatPart, AddingPart, Adding, InSearch, Inside

LEMMA SolveSat ==
  ASSUME CoreInv, SearchInv, SatInv, NEW A \in Assumptions, Solve(A)
  PROVE  SatInv'
<1>1. /\ UNCHANGED <<trailVars, cnf, varNum, dbVars, sane>> /\ pc' = "entry"
  BY DEF Solve, GoTo, AllocVar
<1>2. SatPart' /\ AddingPart' /\ ~InSearch'
  BY <1>1 DEF SatPart, AddingPart, Adding, InSearch, Inside
<1> QED BY <1>1, <1>2, QuietSat

LEMMA SolveInitSat == ASSUME CoreInv, SearchInv, SatInv, SolveInit PROVE SatInv'
<1>1. /\ UNCHANGED <<trailVars, cnf, varNum, dbVars, sane>> /\ DecisionLevel = 0
      /\ pc' = "idle" \/ (pc' = "imply" /\ cont' = "init")
  BY DEF SolveInit, GoTo, varVars, clientVars, SearchInv, ControlPart, LevelPart
<1>2. SatPart' /\ AddingPart'
  BY <1>1 DEF SatPart, AddingPart, Adding
<1> QED BY <1>1, <1>2, QuietSat

LEMMA SkipSweepSat == ASSUME CoreInv, SearchInv, SatInv, SkipSweep PROVE SatInv'
<1>1. /\ UNCHANGED <<trailVars, cnf, varNum, dbVars, sane, assumps>>
      /\ pc = "sweep" /\ pc' \in {"search", "reduce"}
  BY DEF SkipSweep, SweepExit, GoTo, varVars, clientVars
<1>2. SatPart' /\ AddingPart' /\ InSearch
  BY <1>1 DEF SatPart, AddingPart, Adding, InSearch, Inside
<1> QED BY <1>1, <1>2, QuietSat

LEMMA StartSearchSat == ASSUME CoreInv, SearchInv, SatInv, StartSearch PROVE SatInv'
<1>1. /\ UNCHANGED <<trailVars, cnf, varNum, dbVars, sane, assumps>>
      /\ pc = "search" /\ pc' = "imply" /\ cont' = "search"
  BY DEF StartSearch, GoTo, varVars, clientVars
<1>2. SatPart' /\ AddingPart' /\ InSearch
  BY <1>1 DEF SatPart, AddingPart, Adding, InSearch, Inside
<1> QED BY <1>1, <1>2, QuietSat

LEMMA CaptureSat == ASSUME CoreInv, SearchInv, SatInv, Capture PROVE SatInv'
<1>1. /\ UNCHANGED <<trailVars, cnf, varNum, dbVars, sane, assumps>>
      /\ pc = "capture" /\ pc' \in {"error", "capture", "minimize"}
  BY DEF Capture, GoTo, Halt, varVars, clientVars
<1>2. SatPart' /\ AddingPart' /\ InSearch
  BY <1>1 DEF SatPart, AddingPart, Adding, InSearch, Inside
<1> QED BY <1>1, <1>2, QuietSat

LEMMA GoAheadSat == ASSUME CoreInv, SearchInv, SatInv, GoAhead PROVE SatInv'
<1>1. /\ UNCHANGED <<trailVars, cnf, varNum, dbVars, sane, assumps>>
      /\ pc = "check" /\ pc' \in {"sweep", "reduce"}
  BY DEF GoAhead, GoTo, varVars, clientVars
<1>2. SatPart' /\ AddingPart' /\ InSearch
  BY <1>1 DEF SatPart, AddingPart, Adding, InSearch, Inside
<1> QED BY <1>1, <1>2, QuietSat

LEMMA ImplicationDoneSat ==
  ASSUME CoreInv, SearchInv, SatInv, ImplicationDone
  PROVE  SatInv'
<1>1. /\ UNCHANGED <<trailVars, cnf, varNum, dbVars, sane, assumps>>
      /\ pc = "imply" /\ pc' \in {"idle", "sweep", "check"} /\ (cont = "add" => pc' = "idle")
  BY DEF ImplicationDone, EndImplication, GoTo, varVars, clientVars
<1>2. SatPart' /\ AddingPart' /\ (InSearch' => InSearch)
  BY <1>1 DEF SatPart, AddingPart, Adding, InSearch, Inside
<1> QED BY <1>1, <1>2, QuietSat

LEMMA RefuteAssumptionSat ==
  ASSUME CoreInv, SearchInv, SatInv, RefuteAssumption
  PROVE  SatInv'
<1>1. /\ UNCHANGED <<trailVars, cnf, varNum, dbVars, sane, assumps>>
      /\ pc = "decide" /\ pc' = "stat" /\ stat' = "unsat"
  BY DEF RefuteAssumption, Assuming, GoTo, varVars, clientVars
<1>2. SatPart' /\ AddingPart' /\ InSearch
  BY <1>1 DEF SatPart, AddingPart, Adding, InSearch, Inside
<1> QED BY <1>1, <1>2, QuietSat

LEMMA RestartSat == ASSUME CoreInv, SearchInv, SatInv, Restart PROVE SatInv'
<1>1. /\ UNCHANGED <<trailVars, cnf, varNum, dbVars, sane, assumps, stat>>
      /\ pc = "stat" /\ pc' \in {"search", "finish"}
  BY DEF Restart, GoTo, varVars, clientVars, answerVars
<1>2. AddingPart' /\ InSearch
  BY <1>1 DEF AddingPart, Adding, InSearch, Inside
<1>3. SatPart'
  BY <1>1 DEF SatInv, SatPart, ModelHolds, Formula, Units, Eval, trailVars
<1> QED BY <1>1, <1>2, <1>3, QuietSat

(* Backtracking to level 0.                                                *)
LEMMA ToTopSat ==
  ASSUME CoreInv, SearchInv, SatInv, BacktrackTo(0), UNCHANGED <<dbVars, cnf, varNum>>,
         sane' => sane, SatPart', AddingPart'
  PROVE  SatInv'
<1>1. TrailInv /\ Backtrack(0) /\ 0 \in Nat /\ DecisionLevel' = 0
  BY ToTop DEF SearchInv, BacktrackTo
<1>2. KeepsTrue
  BY <1>1, KeepsBack
<1> QED BY <1>1, <1>2, CalmSat

LEMMA GiveUpSat == ASSUME CoreInv, SearchInv, SatInv, GiveUp PROVE SatInv'
<1>1. /\ BacktrackTo(0) /\ UNCHANGED <<dbVars, cnf, varNum, sane>>
      /\ pc' = "stat" /\ stat' = "unknown"
  BY DEF GiveUp, GoTo, clientVars, varVars
<1>2. SatPart' /\ AddingPart'
  BY <1>1 DEF SatPart, AddingPart, Adding
<1> QED BY <1>1, <1>2, ToTopSat

LEMMA FinishSat == ASSUME CoreInv, SearchInv, SatInv, Finish PROVE SatInv'
<1>1. /\ BacktrackTo(0) /\ UNCHANGED <<dbVars, cnf, varNum>> /\ pc' \in {"idle", "error"}
      /\ sane' = (sane /\ ~(stat = "unsat" /\ finals = {}))
  BY DEF Finish, GoTo, Halt, clientVars, varVars
<1>2. SatPart' /\ AddingPart' /\ (sane' => sane)
  BY <1>1 DEF SatPart, AddingPart, Adding
<1> QED BY <1>1, <1>2, ToTopSat

LEMMA BackjumpSat == ASSUME CoreInv, SearchInv, SatInv, Backjump PROVE SatInv'
<1>1. /\ pc = "minimize" /\ pc' = "learn"
      /\ UNCHANGED <<dbVars, cnf, varNum, sane, assumps>>
  BY DEF Backjump, GoTo, clientVars, varVars
<1>2. PICK s \in LearntOrders : BacktrackTo(BackjumpLevel(s))
  BY DEF Backjump
<1> DEFINE k == BackjumpLevel(s)
<1>3. k \in Nat
  BY <1>1, LearntFacts
<1> HIDE DEF k
<1>4. TrailInv /\ Backtrack(k)
  BY <1>2 DEF k, BacktrackTo, SearchInv
<1>5. KeepsTrue /\ DecisionLevel' <= DecisionLevel /\ DecisionLevel \in Nat /\ DecisionLevel' \in Nat
  BY <1>3, <1>4, KeepsBack, TrailFacts DEF KeepsTrue
<1>6. \A j \in 1 .. Len(assumps) : ~(j > DecisionLevel /\ j <= DecisionLevel')
  BY <1>5
<1>7. SatPart' /\ AddingPart' /\ InSearch
  BY <1>1 DEF SatPart, AddingPart, Adding, InSearch, Inside
<1> QED BY <1>1, <1>5, <1>6, <1>7, CalmSat

(* A level is opened: with a decision, which is the assumption of that     *)
(* level if there is one, or for an assumption that is true already.       *)
LEMMA DecisionSat ==
  ASSUME CoreInv, SearchInv, SatInv, pc = "decide", NEW l \in Lit, Eval(l) = 0, Decide(l),
         DecisionLevel + 1 \in 1 .. Len(assumps) => l = assumps[DecisionLevel + 1],
         pc' = "imply", cont' = "search", UNCHANGED <<dbVars, cnf, varNum, assumps, sane>>
  PROVE  SatInv'
<1>1. TrailInv /\ ~HasElem /\ DecisionLevel \in Nat
  BY TrailFacts DEF SearchInv, ControlPart, QueuePart
<1>2. PICK k \in Nat : k = DecisionLevel + 1
  BY <1>1
<1>3. Grown(l, k, None) /\ DecisionLevel' = k
  BY <1>1, <1>2, DecideFacts
<1>4. KeepsTrue
  BY <1>1, <1>2, <1>3, KeepsGrown
<1>5. ASSUME NEW j \in 1 .. Len(assumps), j > DecisionLevel, j <= DecisionLevel'
      PROVE  AssumedAt(j)'
  <2>1. j = k /\ l = assumps[j]
    BY <1>1, <1>2, <1>3, <1>5
  <2>2. Eval(l)' = 1 /\ level'[VarOf(l)] = k
    BY <1>3 DEF Grown
  <2>3. Eval(l)' = 1 /\ LevelOf(l)' <= j
    BY <2>1, <2>2 DEF LevelOf
  <2> QED BY <2>1, <2>3 DEF AssumedAt, Eval, LevelOf
<1>6. SatPart' /\ AddingPart' /\ InSearch
  BY DEF SatPart, AddingPart, Adding, InSearch, Inside
<1> QED BY <1>4, <1>5, <1>6, CalmSat

LEMMA DecideAssumptionSat ==
  ASSUME CoreInv, SearchInv, SatInv, DecideAssumption
  PROVE  SatInv'
<1>1. /\ pc = "decide" /\ Assuming /\ Eval(Assumed) = 0 /\ Decide(Assumed)
      /\ pc' = "imply" /\ cont' = "search" /\ UNCHANGED <<dbVars, cnf, varNum, assumps, sane>>
  BY DEF DecideAssumption, Assuming, GoTo, clientVars, varVars
<1>2. Assumed \in Lit
  BY <1>1, AssumedIsLit
<1>3. DecisionLevel + 1 \in 1 .. Len(assumps) => Assumed = assumps[DecisionLevel + 1]
  BY DEF Assumed
<1> QED BY <1>1, <1>2, <1>3, DecisionSat

LEMMA DecideFreeSat ==
  ASSUME CoreInv, SearchInv, SatInv, DecideFree
  PROVE  SatInv'
<1>1. /\ pc = "decide" /\ Deciding
      /\ pc' = "imply" /\ cont' = "search" /\ UNCHANGED <<dbVars, cnf, varNum, assumps, sane>>
  BY DEF DecideFree, Deciding, GoTo, clientVars, varVars
<1>2. PICK v \in heap \ Assigned(heap) : \E s \in PhasesOf(v) : Decide(s * v)
  BY DEF DecideFree
<1>3. PICK s \in PhasesOf(v) : Decide(s * v)
  BY <1>2
<1> DEFINE l == s * v
<1>4. l \in Lit /\ Eval(l) = 0 /\ Decide(l)
  BY <1>3, FreeDecision DEF SearchInv
<1>5. DecisionLevel + 1 \notin 1 .. Len(assumps)
  <2>1. DecisionLevel \in Nat /\ DecisionLevel >= Len(assumps) /\ Len(assumps) \in Nat
    BY <1>1, TrailFacts DEF SearchInv, Deciding, CoreInv, QueryPart
  <2> QED BY <2>1
<1> HIDE DEF l
<1> QED BY <1>1, <1>4, <1>5, DecisionSat

LEMMA SkipAssumptionSat == ASSUME CoreInv, SearchInv, SatInv, SkipAssumption PROVE SatInv'
<1>1. /\ SetMarker /\ UNCHANGED <<dbVars, cnf, varNum, assumps, sane>> /\ pc = "decide" /\ pc' = "decide"
      /\ Assuming /\ Eval(Assumed) = 1
  BY DEF SkipAssumption, Assuming, clientVars, varVars, ctlVars
<1>2. /\ TrailInv /\ DecisionLevel \in Nat /\ UNCHANGED <<val, level>>
      /\ marker' = Append(marker, Len(trail)) /\ marker \in Seq(Nat) /\ Len(trail) \in Nat
  BY <1>1, TrailFacts DEF SetMarker, SearchInv, TrailInv, TrailTypeOK
<1>3. DecisionLevel' = DecisionLevel + 1
  BY <1>2 DEF DecisionLevel
<1>4. KeepsTrue
  BY <1>2, <1>3, KeepsSame
<1>5. ASSUME NEW j \in 1 .. Len(assumps), j > DecisionLevel, j <= DecisionLevel'
      PROVE  AssumedAt(j)'
  <2>1. j = DecisionLevel + 1
    BY <1>2, <1>3, <1>5
  <2>2. assumps[j] = Assumed /\ Assumed \in Lit
    BY <1>1, <2>1, AssumedIsLit DEF Assumed
  <2>3. Among(Assumed, Len(trail)) /\ VarOf(Assumed) \in Var
    BY <1>1, <1>2, <2>2, TrueIsOnTrail, LitFacts
  <2>4. LevelOf(Assumed) \in 0 .. DecisionLevel
    BY <1>2, <2>3, TrailFacts DEF Among
  <2>5. Eval(assumps[j]) = 1 /\ LevelOf(assumps[j]) <= j
    BY <1>1, <1>2, <2>1, <2>2, <2>4
  <2> QED BY <1>1, <1>2, <2>5 DEF AssumedAt, Eval, LevelOf
<1>6. SatPart' /\ AddingPart' /\ InSearch
  BY <1>1 DEF SatPart, AddingPart, Adding, InSearch, Inside
<1> QED BY <1>1, <1>4, <1>5, <1>6, CalmSat

LEMMA TwoElements ==
  ASSUME NEW S, IsFiniteSet(S), Cardinality(S) > 1
  PROVE  \E i, j \in S : i # j
<1>1. S # {}
  <2>1. Cardinality({}) = 0
    BY FS_EmptySet
  <2> QED BY <2>1
<1>2. PICK i \in S : TRUE
  BY <1>1
<1>3. CASE S = {i}
  <2>1. Cardinality({i}) = 1
    BY FS_Singleton
  <2> QED BY <1>3, <2>1
<1>4. CASE S # {i}
  BY <1>2, <1>4
<1> QED BY <1>3, <1>4

(* No decision variable is open.                                           *)
NothingOpen == \A v \in DecVar : v <= varNum => val[v] # 0

(* A clause on which propagation is complete is true then.                 *)
LEMMA SomeTrue ==
  ASSUME TrailInv, NothingOpen, NEW s \in Seq(Lit), Len(s) >= 2, Propagated(s), Decided(s),
         \A l \in Elems(s) : VarOf(l) <= varNum
  PROVE  \E l \in Elems(s) : Eval(l) = 1
<1>1. CASE IsSatisfied(s)
  BY <1>1 DEF IsSatisfied
<1>2. ASSUME NEW i \in DOMAIN s, NEW j \in DOMAIN s, i # j, Eval(s[i]) = 0, Eval(s[j]) = 0
      PROVE  FALSE
  <2>1. PICK l \in Elems(s) : Eval(l) = 0 /\ VarOf(l) \in DecVar
    BY <1>2 DEF Decided, Elems
  <2>2. l \in Lit /\ VarOf(l) \in Var /\ val \in [Var -> Bool3]
    BY ElemsOfSeq, LitFacts DEF TrailInv, TrailTypeOK
  <2>3. val[VarOf(l)] = 0
    BY <2>1, <2>2 DEF Eval, ValueOf, VarOf, Bool3
  <2> QED BY <2>1, <2>3 DEF NothingOpen
<1>3. CASE Cardinality(OpenIn(s)) > 1
  <2>1. IsFiniteSet(OpenIn(s))
    BY OpenInFinite
  <2>2. PICK k \in OpenIn(s), l \in OpenIn(s) : k # l
    BY <1>3, <2>1, TwoElements
  <2>3. PICK i \in DOMAIN s, j \in DOMAIN s : s[i] = k /\ s[j] = l
    BY DEF OpenIn, Elems
  <2> QED BY <1>2, <2>2, <2>3 DEF OpenIn
<1>4. CASE WatchedAtOne(s)
  <2>1. 1 \in DOMAIN s /\ 2 \in DOMAIN s
    OBVIOUS
  <2> QED BY <1>2, <1>4, <2>1 DEF WatchedAtOne
<1> QED BY <1>1, <1>3, <1>4 DEF Propagated

LEMMA NothingToDecideSat ==
  ASSUME CoreInv, SearchInv, PropInv, SatInv, NothingToDecide
  PROVE  SatInv'
<1>1. /\ UNCHANGED <<trailVars, cnf, varNum, dbVars, sane, assumps>>
      /\ pc = "decide" /\ pc' = "stat" /\ DecisionLevel >= Len(assumps)
      /\ heap \subseteq Assigned(heap)
  BY DEF NothingToDecide, Deciding, GoTo, varVars, clientVars
<1>2. TrailInv /\ DecisionLevel \in Nat /\ sane /\ varNum = oldVarNum /\ InSearch
      /\ assumps \in Seq(Lit)
  BY <1>1, TrailFacts
     DEF SearchInv, ControlPart, PlacePart, InSearch, Inside, Adding, CoreInv, QueryPart
<1>3. NothingOpen
  BY <1>1, <1>2 DEF CoreInv, SelPart, HeapCovers, NothingOpen, Assigned
<1>4. AllPropagated
  BY <1>1, PropagatedImplies DEF PropagationComplete, AfterImplication
<1>5. ASSUME NEW C \in cnf
      PROVE  \E l \in C : Eval(l) = 1
  <2>1. /\ C \in SUBSET Lit /\ Stored(C) /\ \A l \in C : VarOf(l) <= varNum
    BY <1>2 DEF SatInv, StoredPart
  <2>2. CASE \E l \in C : TrueForGood(l)
    BY <2>2 DEF TrueForGood
  <2>3. ASSUME NEW c \in constr, Elems(lits[c]) \subseteq C
        PROVE  \E l \in C : Eval(l) = 1
    <3>1. c \in Live /\ Decided(lits[c]) /\ DbPart
      BY DEF Live, SatInv, StoredPart, CoreInv
    <3>2. lits[c] \in Seq(Lit) /\ Len(lits[c]) >= 2 /\ Propagated(lits[c])
      BY <1>4, <3>1, ClauseFacts DEF AllPropagated
    <3>3. \A l \in Elems(lits[c]) : VarOf(l) <= varNum
      BY <2>1, <2>3
    <3>4. \E l \in Elems(lits[c]) : Eval(l) = 1
      BY <1>2, <1>3, <3>1, <3>2, <3>3, SomeTrue
    <3> QED BY <2>3, <3>4
  <2>4. ASSUME NEW a \in C, NEW b \in C, StoredPair(a, b)
        PROVE  \E l \in C : Eval(l) = 1
    <3>1. a \in Lit /\ b \in Lit /\ -a \in Lit /\ -(-a) = a
      BY <2>1, LitFacts
    <3>2. PICK s \in Seq(Lit) : s = <<a, b>>
      <4>1. <<a, b>> \in Seq(Lit)
        BY <3>1
      <4> QED BY <4>1
    <3>3. DOMAIN s = 1 .. 2 /\ Len(s) >= 2 /\ s[1] = a /\ s[2] = b
      BY <3>2
    <3>4. watch[-a][b] > 0 => Propagated(<<-(-a), b>>)
      BY <1>4, <3>1 DEF AllPropagated
    <3>5. Propagated(s)
      BY <2>4, <3>1, <3>2, <3>4 DEF StoredPair
    <3>6. Elems(s) = {a, b}
      BY <3>3 DEF Elems
    <3>7. Decided(s)
      <4> SUFFICES ASSUME NEW j \in 1 .. 2, NEW k \in 1 .. 2, j # k
                   PROVE  VarOf(s[j]) \in DecVar \/ VarOf(s[k]) \in DecVar
        BY <3>3 DEF Decided
      <4>1. (j = 1 /\ k = 2) \/ (j = 2 /\ k = 1)
        OBVIOUS
      <4> QED BY <2>4, <3>3, <4>1 DEF StoredPair
    <3>8. \E l \in Elems(s) : Eval(l) = 1
      BY <1>2, <1>3, <2>1, <3>3, <3>5, <3>6, <3>7, SomeTrue
    <3> QED BY <3>6, <3>8
  <2> QED BY <2>1, <2>2, <2>3, <2>4 DEF Stored
<1>6. ASSUME NEW m \in Elems(assumps)
      PROVE  Eval(m) = 1
  <2>1. PICK k \in 1 .. Len(assumps) : m = assumps[k]
    BY <1>2 DEF Elems
  <2>2. k <= DecisionLevel
    BY <1>1, <1>2
  <2> QED BY <1>2, <2>1, <2>2 DEF SatInv, AssumedPart, AssumedAt
<1>7. ModelHolds
  BY <1>5, <1>6 DEF ModelHolds, Formula, Units
<1>8. SatPart'
  BY <1>1, <1>7 DEF SatPart, ModelHolds, Formula, Units, Eval, trailVars
<1>9. AddingPart'
  BY <1>1 DEF AddingPart, Adding
<1> QED BY <1>1, <1>2, <1>8, <1>9, QuietSat

(* The deletion passes: only learnt clauses are deleted for their low      *)
(* activity, and what is deleted because it is true is true at level 0.    *)
LEMMA DetachSat ==
  ASSUME CoreInv, SearchInv, SatInv, pc \in {"sweep", "reduce"},
         NEW D \in SUBSET Live, NEW both \in BOOLEAN, DetachClauses(D, both),
         UNCHANGED <<trailVars, cnf, varNum, sane, assumps>>, pc' \in {"search", "reduce", "decide"},
         both => DecisionLevel = 0,
         \A c \in D : c \in learnts \/ \E l \in Elems(lits[c]) : TrueForGood(l)
  PROVE  SatInv'
<1>1. /\ TrailInv /\ DecisionLevel \in Nat /\ StoredPart /\ UNCHANGED <<val, level>>
      /\ D \subseteq ClauseId /\ constr \subseteq ClauseId
  BY TrailFacts DEF SearchInv, SatInv, trailVars, Live, CoreInv, DbPart, ImplTypeOK
<1>2. KeepsTrue /\ DecisionLevel' = DecisionLevel
  BY <1>1, KeepsUnchanged
<1>3. /\ constr' = constr \ D /\ learnts' = learnts \ D
      /\ \A c \in ClauseId : c \notin D => lits'[c] = lits[c]
      /\ \A l, w \in Lit :
           watch'[l][w] = IF both /\ Eval(l) # 0 /\ Eval(w) = 1 THEN 0 ELSE watch[l][w]
  <2>1. \A l, w \in Lit : w \in Watcher /\ w \notin D
    BY <1>1, WatcherKinds
  <2>2. /\ constr' = constr \ D /\ learnts' = learnts \ D
        /\ \A c \in ClauseId : c \notin D => lits'[c] = lits[c]
    BY DEF DetachClauses
  <2> QED BY <2>1, <2>2 DEF DetachClauses
<1>4. \A c \in constr : \/ c \in constr' /\ Elems(lits'[c]) = Elems(lits[c])
                        \/ \E l \in Elems(lits[c]) : TrueForGood(l)'
  <2> SUFFICES ASSUME NEW c \in constr, c \in D PROVE \E l \in Elems(lits[c]) : TrueForGood(l)'
    BY <1>1, <1>3
  <2>1. c \notin learnts
    BY <1>1 DEF StoredPart
  <2>2. PICK l \in Elems(lits[c]) : TrueForGood(l)
    BY <2>1
  <2> QED BY <1>1, <2>2 DEF TrueForGood, Eval, LevelOf
<1>5. \A a, b \in Lit : watch[-a][b] > 0 =>
                          watch'[-a][b] > 0 \/ TrueForGood(a)' \/ TrueForGood(b)'
  <2> SUFFICES ASSUME NEW a \in Lit, NEW b \in Lit, both, Eval(b) = 1 PROVE TrueForGood(b)'
    <3>1. \A a \in Lit : -a \in Lit
      BY LitFacts
    <3> QED BY <1>3, <3>1
  <2>1. TrueForGood(b)
    BY <1>1, TrueAtTop
  <2> QED BY <1>1, <2>1 DEF TrueForGood, Eval, LevelOf
<1>6. constr' \cap learnts' = {} /\ \A c \in constr' : Decided(lits'[c])
  BY <1>1, <1>3 DEF StoredPart
<1>7. StoredPart'
  BY <1>1, <1>2, <1>4, <1>5, <1>6, StoredStep
<1>8. AssumedPart'
  <2>1. InSearch
    BY DEF InSearch, Inside, Adding
  <2>2. \A k \in 1 .. Len(assumps) : ~(k > DecisionLevel /\ k <= DecisionLevel')
    BY <1>1, <1>2
  <2> QED BY <1>1, <1>2, <2>1, <2>2, AssumedStep DEF SatInv
<1> QED BY <1>7, <1>8 DEF SatInv, SatPart, AddingPart, Adding

LEMMA SweepSat == ASSUME CoreInv, SearchInv, SatInv, Sweep PROVE SatInv'
<1>1. /\ UNCHANGED <<trailVars, cnf, varNum, sane, assumps>> /\ pc = "sweep"
      /\ pc' \in {"search", "reduce"} /\ DetachClauses(Sweepable, TRUE)
      /\ Sweepable \in SUBSET Live
  BY DEF Sweep, SweepExit, GoTo, Sweepable, clientVars, varVars
<1>2. DecisionLevel = 0 /\ TrailInv /\ DbPart
  BY <1>1 DEF SearchInv, ControlPart, LevelPart, CoreInv
<1>3. ASSUME NEW c \in Sweepable
      PROVE  \E l \in Elems(lits[c]) : TrueForGood(l)
  <2>1. c \in Live
    BY DEF Sweepable
  <2>2. PICK l \in Elems(lits[c]) : Eval(l) = 1
    BY DEF Sweepable
  <2>3. l \in Lit
    BY <1>2, <2>1, ClauseFacts, ElemsOfSeq
  <2> QED BY <1>2, <2>2, <2>3, TrueAtTop
<1> QED BY <1>1, <1>2, <1>3, DetachSat

LEMMA ReduceSat == ASSUME CoreInv, SearchInv, SatInv, Reduce PROVE SatInv'
<1>1. UNCHANGED <<trailVars, cnf, varNum, sane, assumps>> /\ pc = "reduce" /\ pc' = "decide"
  BY DEF Reduce, GoTo, clientVars, varVars
<1>2. CASE UNCHANGED dbVars
  <2>1. SatPart' /\ AddingPart' /\ InSearch
    BY <1>1 DEF SatPart, AddingPart, Adding, InSearch, Inside
  <2> QED BY <1>1, <1>2, <2>1, QuietSat
<1>3. ASSUME NEW F \in SUBSET learnts, NEW E \in SUBSET learnts,
             DetachClauses({c \in F \cup E : ~Locked(c)}, FALSE)
      PROVE  SatInv'
  <2> DEFINE D == {c \in F \cup E : ~Locked(c)}
  <2>1. D \in SUBSET Live /\ FALSE \in BOOLEAN /\ DetachClauses(D, FALSE) /\ D \subseteq learnts
    BY <1>3 DEF Live
  <2> HIDE DEF D
  <2> QED BY <1>1, <2>1, DetachSat
<1> QED BY <1>2, <1>3 DEF Reduce

(* implication() reorders clauses and makes literals true.                 *)
LEMMA RewritesSat ==
  ASSUME SatInv, KeepsTrue, RewritesOnly, UNCHANGED <<cnf, varNum>>, sane' => sane
  PROVE  StoredPart'
<1>1. constr' = constr /\ learnts' = learnts /\ constr \subseteq Live
  BY DEF RewritesOnly, Live
<1>2. \A c \in constr : Elems(lits'[c]) = Elems(lits[c]) /\ Decided(lits'[c])
  BY <1>1 DEF RewritesOnly, SatInv, StoredPart
<1>3. \A a, b \in Lit : watch'[-a][b] = watch[-a][b]
  BY LitFacts DEF RewritesOnly
<1>4. constr' \cap learnts' = {} /\ \A c \in constr' : Decided(lits'[c])
  BY <1>1, <1>2 DEF SatInv, StoredPart
<1> QED BY <1>1, <1>2, <1>3, <1>4, StoredStep DEF SatInv

LEMMA PropagateSat ==
  ASSUME CoreInv, SearchInv, EntailInv, SatInv, PropagateStep
  PROVE  SatInv'
<1>1. /\ pc = "imply" /\ pc' = "imply" /\ cont' = cont /\ stat' = stat /\ Propagate
      /\ UNCHANGED <<cnf, varNum, assumps, sane>>
  BY DEF PropagateStep, ctlVars, clientVars, varVars, answerVars
<1>2. TrailInv /\ DecisionLevel \in Nat
  BY TrailFacts DEF SearchInv
<1>3. KeepsTrue /\ DecisionLevel' = DecisionLevel
  <2>1. CASE UNCHANGED <<val, level, reason, trail, marker>>
    <3>1. DecisionLevel' = DecisionLevel
      BY <2>1 DEF DecisionLevel
    <3> QED BY <1>2, <2>1, <3>1, KeepsSame
  <2>2. ASSUME NEW l \in Lit, NEW r \in Watcher, Implied(l, r)
        PROVE  KeepsTrue /\ DecisionLevel' = DecisionLevel
    <3>1. Eval(l) = 0 /\ Assign(l, r) /\ r \in Reason
      BY <2>2 DEF Implied, Reason
    <3>2. PICK k \in Nat : k = DecisionLevel
      BY <1>2
    <3>3. Grown(l, k, r) /\ DecisionLevel' = k
      BY <1>2, <3>1, <3>2, AssignFacts
    <3> QED BY <1>2, <3>1, <3>2, <3>3, KeepsGrown
  <2> QED BY <1>1, <2>1, <2>2, PropagateAssigns
<1>4. StoredPart'
  BY <1>1, <1>3, PropagateRewrites, RewritesSat
<1>5. AssumedPart'
  <2>1. CASE InSearch
    <3>1. \A k \in 1 .. Len(assumps) : ~(k > DecisionLevel /\ k <= DecisionLevel')
      BY <1>2, <1>3
    <3> QED BY <1>1, <1>2, <1>3, <2>1, <3>1, AssumedStep DEF SatInv
  <2>2. CASE ~InSearch
    BY <1>1, <2>2 DEF AssumedPart, InSearch, Inside, Adding
  <2> QED BY <2>1, <2>2
<1> QED BY <1>1, <1>4, <1>5 DEF SatInv, SatPart, AddingPart, Adding

LEMMA ConflictSat ==
  ASSUME CoreInv, SearchInv, EntailInv, SatInv, ConflictStep
  PROVE  SatInv'
<1>1. PICK w \in Watcher : Conflict(w)
  BY DEF ConflictStep
<1>2. /\ UNCHANGED <<trailVars, cnf, varNum, assumps>> /\ RewritesOnly /\ TrailInv
      /\ pc = "imply" /\ DecisionLevel \in Nat
  <2>1. RewritesOnly
    BY <1>1, ConflictFollows
  <2> QED BY <1>1, <2>1, TrailFacts DEF Conflict, ConflictStep, SearchInv, clientVars, varVars
<1>3. /\ pc' \in {"idle", "error", "stat", "capture"} /\ (pc' = "stat" => stat' = "unsat")
      /\ cont = "add" => pc' = "idle"
  <2>1. CASE cont = "add"
    <3>1. GoTo("idle", "none")
      BY <2>1 DEF ConflictStep
    <3> QED BY <3>1 DEF GoTo
  <2>2. CASE cont = "init"
    <3>1. Halt
      BY <2>2 DEF ConflictStep
    <3> QED BY <2>2, <3>1 DEF GoTo, Halt
  <2>3. CASE cont = "search" /\ DecisionLevel = 0
    <3>1. GoTo("stat", "none") /\ stat' = "unsat"
      BY <2>3 DEF ConflictStep
    <3> QED BY <2>3, <3>1 DEF GoTo
  <2>4. CASE cont # "add" /\ cont # "init" /\ ~(cont = "search" /\ DecisionLevel = 0)
    <3>1. GoTo("capture", "none")
      BY <2>4 DEF ConflictStep
    <3> QED BY <2>4, <3>1 DEF GoTo
  <2> QED BY <2>1, <2>2, <2>3, <2>4
<1>4. sane' => sane
  <2>1. CASE cont = "add"
    <3>1. sane' = FALSE
      BY <2>1 DEF ConflictStep
    <3> QED BY <3>1
  <2>2. CASE cont # "add"
    <3>1. UNCHANGED sane
      BY <2>2 DEF ConflictStep
    <3> QED BY <3>1
  <2> QED BY <2>1, <2>2
<1>5. KeepsTrue /\ DecisionLevel' = DecisionLevel
  BY <1>2, KeepsUnchanged
<1>6. StoredPart'
  BY <1>2, <1>4, <1>5, RewritesSat
<1>7. AssumedPart'
  <2>1. CASE InSearch
    <3>1. \A k \in 1 .. Len(assumps) : ~(k > DecisionLevel /\ k <= DecisionLevel')
      BY <1>2, <1>5
    <3> QED BY <1>2, <1>5, <2>1, <3>1, AssumedStep DEF SatInv
  <2>2. CASE ~InSearch
    BY <1>2, <1>3, <2>2 DEF AssumedPart, InSearch, Inside, Adding
  <2> QED BY <2>1, <2>2
<1> QED BY <1>3, <1>6, <1>7 DEF SatInv, SatPart, AddingPart, Adding

(* New clauses beside those stored.                                        *)
LEMMA MoreBinaries ==
  ASSUME CoreInv, NEW s \in Seq(Lit), Len(s) = 2, AttachBinary(s)
  PROVE  /\ UNCHANGED <<lits, constr, learnts>>
         /\ \A a, b \in Lit : watch[-a][b] > 0 => watch'[-a][b] > 0
         /\ watch'[-s[1]][s[2]] > 0 /\ watch'[-s[2]][s[1]] > 0
<1>1. /\ UNCHANGED <<lits, constr, learnts>> /\ watch' = AddWatchers(-s[1], s[2], -s[2], s[1])
      /\ watch \in [Lit -> [Watcher -> Nat]]
  BY DEF AttachBinary, CoreInv, DbPart, ImplTypeOK
<1>2. PICK p \in Lit, q \in Lit : p = s[1] /\ q = s[2]
  <2>1. s[1] \in Lit /\ s[2] \in Lit
    OBVIOUS
  <2> QED BY <2>1
<1>3. \A l, w \in Lit : /\ watch[l][w] \in Nat
                        /\ watch'[l][w] = watch[l][w] + (IF l = -p /\ w = q THEN 1 ELSE 0)
                                                      + (IF l = -q /\ w = p THEN 1 ELSE 0)
  <2> TAKE l, w \in Lit
  <2>1. w \in Watcher
    BY WatcherKinds
  <2> QED BY <1>1, <1>2, <2>1 DEF AddWatchers
<1>4. -p \in Lit /\ -q \in Lit /\ \A a \in Lit : -a \in Lit
  BY LitFacts
<1>5. \A l, w \in Lit : watch[l][w] > 0 => watch'[l][w] > 0
  BY <1>3
<1>6. watch'[-p][q] > 0
  <2>1. watch'[-p][q] = watch[-p][q] + 1 + (IF -p = -q /\ q = p THEN 1 ELSE 0)
    BY <1>3, <1>4
  <2> QED BY <1>3, <1>4, <2>1
<1>7. watch'[-q][p] > 0
  <2>1. watch'[-q][p] = watch[-q][p] + (IF -q = -p /\ p = q THEN 1 ELSE 0) + 1
    BY <1>3, <1>4
  <2> QED BY <1>3, <1>4, <2>1
<1> QED BY <1>1, <1>2, <1>4, <1>5, <1>6, <1>7

LEMMA MoreClauseObjects ==
  ASSUME CoreInv, NEW s \in Seq(Lit), NEW c \in ClauseId, FreshId(c), AttachClause(c, s)
  PROVE  /\ c \notin constr /\ c \notin learnts /\ lits'[c] = s
         /\ \A d \in Live : lits'[d] = lits[d]
         /\ \A a, b \in Lit : watch'[-a][b] = watch[-a][b]
<1>1. /\ lits' = [lits EXCEPT ![c] = s] /\ watch' = AddWatchers(-s[1], c, -s[2], c)
      /\ watch \in [Lit -> [Watcher -> Nat]] /\ lits \in [ClauseId -> Seq(Lit)]
      /\ Live \subseteq ClauseId /\ c \notin Live
  BY DEF AttachClause, FreshId, CoreInv, DbPart, ImplTypeOK, Live
<1>2. \A a, b \in Lit : watch'[-a][b] = watch[-a][b]
  <2> TAKE a, b \in Lit
  <2>1. b \in Watcher /\ b # c /\ -a \in Lit
    BY WatcherKinds, LitFacts
  <2>2. watch[-a][b] \in Nat
    BY <1>1, <2>1
  <2> QED BY <1>1, <2>1, <2>2 DEF AddWatchers
<1>3. lits'[c] = s /\ \A d \in Live : lits'[d] = lits[d]
  BY <1>1
<1> QED BY <1>1, <1>2, <1>3 DEF Live

LEMMA LearnSat ==
  ASSUME CoreInv, SearchInv, EntailInv, SatInv, Learn
  PROVE  SatInv'
<1>1. /\ pc = "learn" /\ UNCHANGED <<cnf, varNum, sane, assumps>> /\ TrailInv /\ LearnPart
      /\ learnt \in Seq(Lit) /\ Len(learnt) \in Nat
      /\ learnt # <<>> /\ Eval(learnt[1]) = 0 /\ DecisionLevel \in Nat
  BY TrailFacts DEF Learn, clientVars, varVars, SearchInv, AnalysisPart, LearnPart, CoreInv, AnaPart, AnaTypeOK
<1>2. /\ Len(learnt) = 1 => LearnUnit(learnt[1])
      /\ Len(learnt) = 2 => LearnBinary(learnt)
      /\ Len(learnt) # 1 /\ Len(learnt) # 2 => LearnLong(learnt)
      /\ GoTo("imply", "search")
  <2>1. /\ CASE Len(learnt) = 1 -> LearnUnit(learnt[1])
             [] Len(learnt) = 2 -> LearnBinary(learnt)
             [] OTHER           -> LearnLong(learnt)
        /\ GoTo("imply", "search")
    BY <1>1 DEF Learn
  <2>2. CASE Len(learnt) = 1
    BY <2>1, <2>2
  <2>3. CASE Len(learnt) = 2
    BY <2>1, <2>3
  <2>4. CASE Len(learnt) # 1 /\ Len(learnt) # 2
    BY <2>1, <2>4
  <2> QED BY <2>2, <2>3, <2>4
<1>3. PICK s \in Seq(Lit) : s = learnt
  BY <1>1
<1>4. Len(s) \in Nat /\ s[1] \in Lit
  <2>1. 1 \in 1 .. Len(s)
    BY <1>1, <1>3
  <2> QED BY <1>1, <1>3, <2>1, ElementOfSeq
<1>5. PICK l \in Lit : l = s[1]
  BY <1>4
<1>6. ASSUME NEW r \in Reason, Assign(l, r)
      PROVE  KeepsTrue /\ DecisionLevel' = DecisionLevel
  <2>1. PICK k \in Nat : k = DecisionLevel
    BY <1>1
  <2>2. Grown(l, k, r) /\ DecisionLevel' = k /\ Eval(l) = 0
    BY <1>1, <1>3, <1>5, <1>6, <2>1, AssignFacts
  <2> QED BY <1>1, <2>1, <2>2, KeepsGrown
<1>7. StoredPart' /\ KeepsTrue /\ DecisionLevel' = DecisionLevel
  <2>1. CASE Len(s) = 1
    <3>1. Assign(l, None) /\ UNCHANGED dbVars /\ None \in Reason
      BY <1>1, <1>2, <1>3, <1>5, <2>1, ReasonKinds DEF LearnUnit
    <3>2. KeepsTrue /\ DecisionLevel' = DecisionLevel
      BY <1>6, <3>1
    <3> QED BY <1>1, <3>1, <3>2, StoredSame DEF SatInv
  <2>2. CASE Len(s) = 2
    <3>1. AttachBinary(s) /\ Assign(l, s[2])
      BY <1>2, <1>3, <1>5, <2>2 DEF LearnBinary
    <3>2. s[2] \in Reason
      <4>1. 2 \in 1 .. Len(s)
        BY <2>2
      <4>2. s[2] \in Lit
        BY <4>1, ElementOfSeq
      <4> QED BY <4>2, ReasonKinds
    <3>3. KeepsTrue /\ DecisionLevel' = DecisionLevel
      BY <1>6, <3>1, <3>2
    <3>4. UNCHANGED <<lits, constr, learnts>> /\ \A a, b \in Lit : watch[-a][b] > 0 => watch'[-a][b] > 0
      BY <2>2, <3>1, MoreBinaries
    <3>5. constr' \cap learnts' = {} /\ \A c \in constr' : Decided(lits'[c])
      BY <3>4 DEF SatInv, StoredPart
    <3> QED BY <1>1, <3>3, <3>4, <3>5, StoredStep DEF SatInv
  <2>3. CASE Len(s) # 1 /\ Len(s) # 2
    <3>1. PICK c \in ClauseId : /\ FreshId(c) /\ AttachClause(c, s)
                                /\ learnts' = learnts \cup {c} /\ UNCHANGED constr
                                /\ Assign(l, c)
      BY <1>2, <1>3, <1>5, <2>3 DEF LearnLong
    <3>2. KeepsTrue /\ DecisionLevel' = DecisionLevel
      BY <1>6, <3>1, ReasonKinds
    <3>3. /\ c \notin constr
          /\ \A d \in constr : lits'[d] = lits[d]
          /\ \A a, b \in Lit : watch'[-a][b] = watch[-a][b]
      BY <3>1, MoreClauseObjects DEF Live
    <3>4. constr' \cap learnts' = {} /\ \A d \in constr' : Decided(lits'[d])
      BY <3>1, <3>3 DEF SatInv, StoredPart
    <3> QED BY <1>1, <3>1, <3>2, <3>3, <3>4, StoredStep DEF SatInv
  <2> QED BY <2>1, <2>2, <2>3
<1>8. AssumedPart'
  <2>1. \A k \in 1 .. Len(assumps) : ~(k > DecisionLevel /\ k <= DecisionLevel')
    BY <1>1, <1>7
  <2>2. InSearch
    BY <1>1 DEF InSearch, Inside, Adding
  <2> QED BY <1>1, <1>7, <2>1, <2>2, AssumedStep DEF SatInv
<1> QED BY <1>2, <1>7, <1>8 DEF SatInv, SatPart, AddingPart, Adding, GoTo

(* add_clause() keeps the order of the literals.                           *)
LEMMA CompactedDecided ==
  ASSUME NEW s0 \in Seq(Lit), NEW s \in Compacted(s0), Decided(s0)
  PROVE  Decided(s)
<1> DEFINE kept == {i \in DOMAIN s0 : Eval(s0[i]) # -1}
           n == Cardinality(kept)
<1>1. DOMAIN s0 = 1 .. Len(s0) /\ Len(s0) \in Nat
  OBVIOUS
<1>2. n \in Nat
  <2>1. IsFiniteSet(1 .. Len(s0)) /\ kept \in SUBSET (1 .. Len(s0))
    BY <1>1, FS_Interval
  <2> HIDE DEF kept
  <2>2. IsFiniteSet(kept)
    BY <2>1, FS_Subset
  <2> QED BY <2>2, FS_CardinalityType
<1>3. PICK f \in [1 .. n -> kept] :
        /\ \A i, j \in 1 .. n : i < j => f[i] < f[j]
        /\ s = [k \in 1 .. n |-> s0[f[k]]]
  BY DEF Compacted
<1>4. \A k \in 1 .. n : f[k] \in DOMAIN s0 /\ f[k] \in Int
  BY <1>1, <1>3
<1> HIDE DEF n, kept
<1>5. ASSUME NEW j \in 1 .. n, NEW k \in 1 .. n, j # k
      PROVE  f[j] # f[k]
  <2>1. j < k \/ k < j
    BY <1>2, <1>5
  <2>2. f[j] < f[k] \/ f[k] < f[j]
    BY <1>3, <2>1
  <2> QED BY <1>4, <2>2
<1>6. DOMAIN s = 1 .. n /\ \A k \in 1 .. n : s[k] = s0[f[k]]
  BY <1>3
<1> QED BY <1>4, <1>5, <1>6 DEF Decided

LEMMA AddedStep ==
  ASSUME StoredPart, KeepsTrue, varNum' = varNum, sane' => sane,
         NEW C \in SUBSET Lit, cnf' = cnf \cup {C}, \A l \in C : VarOf(l) <= varNum,
         sane' => Stored(C)',
         constr' \cap learnts' = {},
         \A c \in constr' : Decided(lits'[c]),
         \A c \in constr : c \in constr' /\ lits'[c] = lits[c],
         \A a, b \in Lit : watch[-a][b] > 0 => watch'[-a][b] > 0
  PROVE  StoredPart'
<1>1. ASSUME sane', NEW B \in cnf PROVE Stored(B)'
  <2>1. B \in SUBSET Lit /\ Stored(B)
    BY <1>1 DEF StoredPart
  <2> QED BY <2>1, StoredStays
<1>2. \A B \in cnf' : B \subseteq Lit /\ \A l \in B : VarOf(l) <= varNum'
  BY DEF StoredPart
<1> QED BY <1>1, <1>2 DEF StoredPart

LEMMA AddClauseSat ==
  ASSUME MenuDecided, CoreInv, SearchInv, SatInv, NEW i \in DOMAIN Menu, AddClause(i)
  PROVE  SatInv'
<1>1. /\ pc = "idle" /\ sane /\ varNum' = varNum /\ stat' = "none"
      /\ TrailInv /\ DecisionLevel = 0 /\ StoredPart
      /\ constr \cap learnts = {} /\ \A c \in constr : Decided(lits[c])
  BY DEF AddClause, AllocVar, SearchInv, ControlPart, LevelPart, SatInv, StoredPart
<1>2. PICK C \in SUBSET Lit : C = Elems(Menu[i])
  BY ClientAssumption, ElemsOfSeq
<1>3. cnf' = cnf \cup {C} /\ (\A l \in C : VarOf(l) <= varNum) /\ Decided(Menu[i]) /\ Menu[i] \in Seq(Lit)
  BY <1>2, ClientAssumption DEF AddClause, MenuDecided
<1>4. CASE AddTrue /\ \E l \in C : Eval(l) = 1
  <2>1. UNCHANGED <<trailVars, val, level, lits, constr, learnts, watch, sane>> /\ pc' = "idle"
    BY <1>4 DEF AddTrue, trailVars, dbVars, GoTo
  <2>2. KeepsTrue
    BY <1>1, <2>1, KeepsUnchanged
  <2>3. Stored(C)'
    <3>1. \E l \in C : TrueForGood(l)
      BY <1>1, <1>2, <1>4, TrueAtTop
    <3> QED BY <2>2, <3>1, KeepsForGood DEF Stored
  <2>4. StoredPart'
    BY <1>1, <1>3, <2>1, <2>2, <2>3, AddedStep
  <2> QED BY <1>1, <2>1, <2>4 DEF SatInv, AssumedPart, InSearch, Inside, SatPart, AddingPart
<1>5. ASSUME NEW s \in Compacted(Menu[i]), s \in Seq(Lit), \A l \in Elems(s) : Eval(l) = 0,
             Elems(s) \subseteq C,
             \/ Len(s) = 0 /\ AddEmpty
             \/ Len(s) = 1 /\ AddUnit(s[1])
             \/ Len(s) = 2 /\ AddBinary(s)
             \/ Len(s) >= 3 /\ AddLong(s)
      PROVE  SatInv'
  <2>0. Decided(s)
    BY <1>3, CompactedDecided
  <2>1. CASE Len(s) = 0 /\ AddEmpty
    <3>1. UNCHANGED <<trailVars, lits, constr, learnts, watch>> /\ pc' = "idle" /\ ~sane'
      BY <2>1 DEF AddEmpty, dbVars, GoTo
    <3>2. KeepsTrue
      BY <1>1, <3>1, KeepsUnchanged
    <3>3. StoredPart'
      BY <1>1, <1>3, <3>1, <3>2, AddedStep
    <3> QED BY <1>1, <3>1, <3>3 DEF SatInv, AssumedPart, InSearch, Inside, SatPart, AddingPart
  <2>2. CASE Len(s) = 1 /\ AddUnit(s[1])
    <3>1. /\ UNCHANGED <<lits, constr, learnts, watch, sane>> /\ pc' = "imply" /\ cont' = "add"
          /\ Assign(s[1], None)
      BY <2>2 DEF AddUnit, dbVars, GoTo
    <3>2. PICK l \in Lit : l = s[1] /\ l \in Elems(s)
      BY <2>2, <1>5 DEF Elems
    <3>3. Eval(l) = 0 /\ l \in C
      BY <1>5, <3>2
    <3>4. Grown(l, 0, None) /\ DecisionLevel' = 0
      BY <1>1, <3>1, <3>2, <3>3, ReasonKinds, AssignFacts
    <3>5. KeepsTrue
      BY <1>1, <3>3, <3>4, KeepsGrown
    <3>6. TrueForGood(l)'
      <4>1. Eval(l)' = 1 /\ level'[VarOf(l)] = 0
        BY <3>4 DEF Grown
      <4> QED BY <4>1 DEF TrueForGood, LevelOf
    <3>7. Stored(C)'
      BY <3>3, <3>6 DEF Stored
    <3>8. StoredPart'
      BY <1>1, <1>3, <3>1, <3>5, <3>7, AddedStep
    <3> QED BY <1>1, <3>1, <3>8 DEF SatInv, AssumedPart, InSearch, Adding, SatPart, AddingPart
  <2>3. CASE Len(s) = 2 /\ AddBinary(s)
    <3>1. AttachBinary(s) /\ UNCHANGED <<trailVars, sane>> /\ pc' = "idle"
      BY <2>3 DEF AddBinary, GoTo
    <3>2. /\ UNCHANGED <<lits, constr, learnts>>
          /\ \A a, b \in Lit : watch[-a][b] > 0 => watch'[-a][b] > 0
          /\ watch'[-s[1]][s[2]] > 0 /\ watch'[-s[2]][s[1]] > 0
      BY <1>5, <2>3, <3>1, MoreBinaries
    <3>3. KeepsTrue
      BY <1>1, <3>1, KeepsUnchanged
    <3>4. Stored(C)'
      <4>1. 1 \in DOMAIN s /\ 2 \in DOMAIN s
        BY <1>5, <2>3
      <4>2. s[1] \in C /\ s[2] \in C /\ (VarOf(s[1]) \in DecVar \/ VarOf(s[2]) \in DecVar)
        BY <1>5, <2>0, <4>1 DEF Elems, Decided
      <4>3. PICK a \in C, b \in C : a = s[1] /\ b = s[2]
        BY <4>2
      <4>4. StoredPair(a, b)'
        BY <3>2, <4>2, <4>3 DEF StoredPair
      <4> QED BY <4>4 DEF Stored
    <3>5. StoredPart'
      BY <1>1, <1>3, <3>1, <3>2, <3>3, <3>4, AddedStep
    <3> QED BY <1>1, <3>1, <3>5 DEF SatInv, AssumedPart, InSearch, Inside, SatPart, AddingPart
  <2>4. CASE Len(s) >= 3 /\ AddLong(s)
    <3>1. PICK c \in ClauseId : FreshId(c) /\ AttachClause(c, s) /\ constr' = constr \cup {c}
      BY <2>4 DEF AddLong
    <3>2. UNCHANGED <<trailVars, sane, learnts>> /\ pc' = "idle"
      BY <2>4 DEF AddLong, GoTo
    <3>3. /\ c \notin constr /\ c \notin learnts /\ lits'[c] = s
          /\ \A d \in constr : lits'[d] = lits[d]
          /\ \A a, b \in Lit : watch'[-a][b] = watch[-a][b]
      BY <1>5, <3>1, MoreClauseObjects DEF Live
    <3>4. KeepsTrue
      BY <1>1, <3>2, KeepsUnchanged
    <3>5. Stored(C)'
      BY <1>5, <3>1, <3>3 DEF Stored
    <3>6. constr' \cap learnts' = {} /\ \A d \in constr' : Decided(lits'[d])
      BY <1>1, <2>0, <3>1, <3>2, <3>3
    <3>7. StoredPart'
      BY <1>1, <1>3, <3>1, <3>2, <3>3, <3>4, <3>5, <3>6, AddedStep
    <3> QED BY <1>1, <3>2, <3>7 DEF SatInv, AssumedPart, InSearch, Inside, SatPart, AddingPart
  <2> QED BY <1>5, <2>1, <2>2, <2>3, <2>4
<1> QED BY <1>1, <1>2, <1>4, <1>5, AddClauseSplit

LEMMA SatInitOK == Init => SatInv
BY DEF Init, ImplInit, SatInv, StoredPart, AssumedPart, InSearch, Inside, SatPart, AddingPart, Adding

LEMMA SatNextKeeps ==
  ASSUME MenuDecided
  PROVE  (CoreInv /\ SearchInv /\ EntailInv /\ PropInv) /\ SatInv /\ [Next]_vars => SatInv'
<1> SUFFICES ASSUME CoreInv, SearchInv, EntailInv, PropInv, SatInv, [Next]_vars PROVE SatInv'
  OBVIOUS
<1>1. CASE UNCHANGED vars
  BY <1>1, StutterSat
<1>2. CASE Client
  BY <1>2, NewVariableSat, AddClauseSat, SetBudgetSat, SolveSat DEF Client
<1>3. CASE Stop
  BY <1>3, StopSat
<1>4. CASE Rest
  BY <1>4, StutterSat DEF Rest
<1>5. CASE Search
  BY <1>5, SolveInitSat, PropagateSat, ConflictSat, ImplicationDoneSat,
     SkipSweepSat, SweepSat, StartSearchSat, CaptureSat, BackjumpSat, LearnSat,
     GiveUpSat, GoAheadSat, ReduceSat, SkipAssumptionSat, DecideAssumptionSat,
     RefuteAssumptionSat, DecideFreeSat, NothingToDecideSat, RestartSat, FinishSat
     DEF Search
<1> QED BY <1>1, <1>2, <1>3, <1>4, <1>5 DEF Next

(* All that is proved of the engine, as one invariant.                     *)
THEOREM SatAlwaysInv ==
  ASSUME MenuDecided
  PROVE  Spec => [](CoreInv /\ SearchInv /\ EntailInv /\ PropInv /\ SatInv)
<1>1. Init => SatInv
  BY SatInitOK
<1>2. (CoreInv /\ SearchInv /\ EntailInv /\ PropInv) /\ SatInv /\ [Next]_vars => SatInv'
  BY SatNextKeeps
<1> QED BY <1>1, <1>2, EntailAlwaysInv, PropAlwaysInv, PTL DEF Spec

(* When solve() answers True, the values satisfy every clause the client   *)
(* has added and every assumption, whatever has been learnt, forgotten and *)
(* swept since: no clause is lost from the watcher lists, and none that is *)
(* not false is left with an open decision variable.                       *)
THEOREM EngineSatSound ==
  ASSUME MenuDecided
  PROVE  Spec => []SatSound
<1>1. SatInv => SatSound
  BY DEF SatInv, SatPart, ModelHolds, SatSound
<1> QED BY <1>1, SatAlwaysInv, PTL

(***************************************************************************)
(* Refinement: the engine implements SatOracle.  The oracle takes a clause *)
(* when add_clause() is called and a query when solve() is; it replies at  *)
(* the end of solve(); every other step of the engine stutters.            *)
(***************************************************************************)
Busy == InSolve
Answer == IF pc = "idle" THEN stat ELSE "none"
promised == <<cnf, Elems(assumps), Busy, Answer, conflicts>>

LEMMA SameMeaning ==
  /\ \A F : Oracle!Models(F) = Models(F)
  /\ \A F, C : Oracle!Entails(F, C) = Entails(F, C)
  /\ \A A : Oracle!Units(A) = Units(A)
  /\ Oracle!Lit = Lit
<1>1. Oracle!Lit = Lit /\ \A A : Oracle!Units(A) = Units(A)
  BY Zenon DEF Oracle!Lit, Lit, Oracle!Units, Units
<1>2. Oracle!Assignment = Assignment
  BY Zenon DEF Oracle!Assignment, Assignment, Oracle!Var, Var
<1>3. \A a, C : Oracle!Satisfies(a, C) <=> Satisfies(a, C)
  BY Zenon DEF Oracle!Satisfies, Satisfies, Oracle!ValueOf, ValueOf
<1>4. \A F : Oracle!Models(F) = Models(F)
  BY <1>2, <1>3, Zenon DEF Oracle!Models, Models
<1>5. \A F, C : Oracle!Entails(F, C) = Entails(F, C)
  BY <1>3, <1>4, Zenon DEF Oracle!Entails, Entails
<1> QED BY <1>1, <1>4, <1>5

LEMMA InitOracle == Init => Oracle!OracleInit
<1> SUFFICES ASSUME Init PROVE Oracle!OracleInit
  OBVIOUS
<1>1. Elems(<<>>) = {}
  BY DEF Elems
<1> QED BY <1>1 DEF Init, Oracle!OracleInit, InSolve

(* Values that make every clause true can be completed to a model.         *)
LEMMA HoldingHasModel ==
  ASSUME TrailInv, NEW F, F \subseteq SUBSET Lit, \A C \in F : \E l \in C : Eval(l) = 1
  PROVE  Models(F) # {}
<1> DEFINE a == [v \in Var |-> IF val[v] = 0 THEN 1 ELSE val[v]]
<1>1. val \in [Var -> Bool3]
  BY DEF TrailInv, TrailTypeOK
<1>2. a \in Assignment
  BY <1>1 DEF Assignment, Bool3
<1>3. ASSUME NEW l \in Lit, Eval(l) = 1 PROVE ValueOf(a, l) = 1
  <2>1. /\ l > 0 => l \in Var
        /\ ~(l > 0) => -l \in Var
    BY SizeAssumption DEF Lit, Var
  <2>2. CASE l > 0
    BY <1>3, <2>1, <2>2 DEF Eval, ValueOf
  <2>3. CASE ~(l > 0)
    <3>1. -val[-l] = 1
      BY <1>3, <2>3 DEF Eval, ValueOf
    <3>2. val[-l] = -1
      BY <1>1, <2>1, <2>3, <3>1 DEF Bool3
    <3> QED BY <2>1, <2>3, <3>2 DEF ValueOf
  <2> QED BY <2>2, <2>3
<1>4. \A C \in F : Satisfies(a, C)
  BY <1>3 DEF Satisfies
<1>5. a \in Models(F)
  BY <1>2, <1>4 DEF Models
<1> QED BY <1>5

LEMMA FormulaTyped == CoreInv => Formula \subseteq SUBSET Lit
<1> SUFFICES ASSUME CoreInv PROVE Formula \subseteq SUBSET Lit
  OBVIOUS
<1>1. cnf \subseteq SUBSET Lit /\ assumps \in Seq(Lit)
  BY DEF CoreInv, QueryPart
<1>2. Elems(assumps) \subseteq Lit
  BY <1>1, ElemsOfSeq
<1> QED BY <1>1, <1>2 DEF Formula, Units

(* A reply, from what the engine answers and hands out.                    *)
LEMMA ReplyOracle ==
  ASSUME Busy, ~Busy', NEW r \in {"sat", "unsat", "unknown"}, Answer' = r,
         cnf' = cnf, assumps' = assumps, conflicts' \subseteq Lit,
         r = "sat" => Models(Formula) # {}, r = "unsat" => Models(Formula) = {},
         r # "unsat" => conflicts' = conflicts,
         conflicts' # conflicts => Entails(cnf, conflicts')
  PROVE  Oracle!OracleNext
<1>1. Elems(assumps') = Elems(assumps)
  BY Zenon
<1>2. Oracle!Reply(r)
  <2>1. Oracle!Models(cnf \cup Oracle!Units(Elems(assumps))) = Models(Formula)
    BY SameMeaning, Zenon DEF Formula
  <2>2. Oracle!Entails(cnf, conflicts') <=> Entails(cnf, conflicts')
    BY SameMeaning, Zenon
  <2>3. /\ InSolve /\ InSolve' = FALSE
        /\ (IF pc' = "idle" THEN stat' ELSE "none") = r
    BY DEF Busy, Answer, InSolve
  <2> QED BY <1>1, <2>1, <2>2, <2>3 DEF Oracle!Reply
<1>3. conflicts' \in SUBSET Oracle!Lit
  BY SameMeaning
<1> QED BY <1>2, <1>3, Zenon DEF Oracle!OracleNext

(* The steps of the client.                                                *)
LEMMA ClientOracle ==
  ASSUME CoreInv, SearchInv, Client
  PROVE  Oracle!OracleNext \/ UNCHANGED promised
<1>1. CASE NewVariable
  <2>1. pc = "idle" /\ pc' = "idle" /\ stat' = "none" /\ cnf' = cnf
        /\ assumps' = assumps /\ conflicts' = conflicts
    BY <1>1, Zenon DEF NewVariable, ctlVars, clientVars
  <2>2. Oracle!Forget
    BY <2>1 DEF Oracle!Forget, InSolve
  <2> QED BY <2>2, Zenon DEF Oracle!OracleNext
<1>2. ASSUME NEW i \in DOMAIN Menu, AddClause(i) PROVE Oracle!OracleNext
  <2>1. Elems(Menu[i]) \in SUBSET Oracle!Lit
    <3>1. Menu[i] \in Seq(Lit)
      BY ClientAssumption
    <3> QED BY <3>1, ElemsOfSeq, SameMeaning
  <2>2. pc = "idle" /\ stat' = "none" /\ cnf' = cnf \cup {Elems(Menu[i])}
        /\ assumps' = assumps /\ conflicts' = conflicts
    BY <1>2, Zenon DEF AddClause
  <2>3. pc' = "idle" \/ (pc' = "imply" /\ cont' = "add")
    <3>1. CASE AddTrue
      BY <3>1 DEF AddTrue, GoTo
    <3>2. CASE \E s \in Compacted(Menu[i]) :
                 AddEmpty \/ AddUnit(s[1]) \/ AddBinary(s) \/ AddLong(s)
      BY <3>2 DEF AddEmpty, AddUnit, AddBinary, AddLong, GoTo
    <3> QED BY <1>2, <3>1, <3>2 DEF AddClause
  <2>4. Oracle!Add(Elems(Menu[i]))
    BY <2>2, <2>3 DEF Oracle!Add, InSolve
  <2> QED BY <2>1, <2>4, Zenon DEF Oracle!OracleNext
<1>3. ASSUME NEW b \in Budgets, SetBudget(b) PROVE UNCHANGED promised
  <2>1. UNCHANGED <<cnf, assumps, pc, cont, stat, conflicts>>
    BY <1>3, Zenon DEF SetBudget, ctlVars, clientVars, answerVars
  <2> QED BY <2>1 DEF promised, Busy, Answer, InSolve
<1>4. ASSUME NEW A \in Assumptions, Solve(A) PROVE Oracle!OracleNext
  <2>1. Elems(A) \in SUBSET Oracle!Lit
    <3>1. A \in Seq(Lit)
      BY ClientAssumption
    <3> QED BY <3>1, ElemsOfSeq, SameMeaning
  <2>2. pc = "idle" /\ pc' = "entry" /\ cnf' = cnf
        /\ assumps' = A /\ conflicts' = conflicts
    BY <1>4, Zenon DEF Solve, GoTo
  <2>3. Oracle!Ask(Elems(A))
    BY <2>2 DEF Oracle!Ask, InSolve
  <2> QED BY <2>1, <2>3, Zenon DEF Oracle!OracleNext
<1> QED BY <1>1, <1>2, <1>3, <1>4, Zenon DEF Client

(* The steps of search() and of implication() are invisible, also those of *)
(* a propagation in add_clause().                                          *)
LEMMA QuietOracle ==
  ASSUME CoreInv, SearchInv, SatInv, Search, ~SolveInit, ~Finish
  PROVE  UNCHANGED promised
<1>1. UNCHANGED <<cnf, assumps, conflicts>>
  BY Zenon DEF Search, PropagateStep, ConflictStep, ImplicationDone, SkipSweep, Sweep, StartSearch,
     Capture, Backjump, Learn, GiveUp, GoAhead, Reduce, SkipAssumption, DecideAssumption,
     RefuteAssumption, DecideFree, NothingToDecide, Restart, clientVars, answerVars
<1>2. CASE /\ pc \notin {"idle", "imply"}
           /\ pc' # "idle" /\ (pc' = "imply" => cont' = "search")
  BY <1>1, <1>2 DEF promised, Busy, Answer, InSolve
<1>3. CASE PropagateStep
  <2>1. UNCHANGED <<pc, cont, stat>>
    BY <1>3, Zenon DEF PropagateStep, ctlVars, answerVars
  <2> QED BY <1>1, <2>1 DEF promised, Busy, Answer, InSolve
<1>4. CASE ConflictStep \/ ImplicationDone
  <2>1. pc = "imply"
    BY <1>4, Zenon DEF ConflictStep, ImplicationDone
  <2>2. CASE cont = "add"
    <3>1. pc' = "idle" /\ stat' = stat
      <4>1. CASE ConflictStep
        BY <2>2, <4>1 DEF ConflictStep, GoTo
      <4>2. CASE ImplicationDone
        BY <2>2, <4>2 DEF ImplicationDone, GoTo, answerVars
      <4> QED BY <1>4, <4>1, <4>2
    <3>2. stat = "none"
      BY <2>1, <2>2 DEF SatInv, AddingPart, Adding
    <3> QED BY <1>1, <2>1, <2>2, <3>1, <3>2 DEF promised, Busy, Answer, InSolve
  <2>3. CASE cont # "add"
    <3>1. pc' \in {"error", "stat", "capture", "sweep", "check"}
      <4>1. CASE ConflictStep
        BY <2>3, <4>1 DEF ConflictStep, GoTo, Halt
      <4>2. CASE ImplicationDone
        BY <2>3, <4>2 DEF ImplicationDone, GoTo
      <4> QED BY <1>4, <4>1, <4>2
    <3> QED BY <1>1, <2>1, <2>3, <3>1 DEF promised, Busy, Answer, InSolve
  <2> QED BY <2>2, <2>3
<1>5. CASE SkipAssumption
  <2>1. pc = "decide" /\ pc' = "decide"
    BY <1>5, Zenon DEF SkipAssumption, Assuming, ctlVars
  <2> QED BY <1>2, <2>1
<1>6. CASE \/ SkipSweep \/ Sweep \/ StartSearch \/ Capture \/ Backjump \/ Learn \/ GiveUp
           \/ GoAhead \/ Reduce
  <2>1. pc \in {"sweep", "search", "capture", "minimize", "learn", "check", "reduce"}
    BY <1>6, Zenon DEF SkipSweep, Sweep, StartSearch, Capture, Backjump, Learn, GiveUp, GoAhead, Reduce
  <2>2. pc' # "idle" /\ (pc' = "imply" => cont' = "search")
    BY <1>6 DEF SkipSweep, Sweep, SweepExit, StartSearch, Capture, Backjump, Learn, GiveUp,
       GoAhead, Reduce, GoTo, Halt
  <2> QED BY <1>2, <2>1, <2>2
<1>7. CASE \/ DecideAssumption \/ RefuteAssumption \/ DecideFree \/ NothingToDecide \/ Restart
  <2>1. pc \in {"decide", "stat"}
    BY <1>7, Zenon DEF DecideAssumption, RefuteAssumption, DecideFree, NothingToDecide, Restart,
       Assuming, Deciding
  <2>2. pc' # "idle" /\ (pc' = "imply" => cont' = "search")
    BY <1>7 DEF DecideAssumption, RefuteAssumption, DecideFree, NothingToDecide, Restart, GoTo
  <2> QED BY <1>2, <2>1, <2>2
<1> QED BY <1>3, <1>4, <1>5, <1>6, <1>7, Zenon DEF Search

(* A solver known to have contradictory clauses answers at once.           *)
LEMMA SolveInitOracle ==
  ASSUME CoreInv, SearchInv, EntailInv, SolveInit
  PROVE  Oracle!OracleNext \/ UNCHANGED promised
<1>1. UNCHANGED <<cnf, assumps, conflicts>> /\ pc = "entry" /\ conflicts \subseteq Lit
  BY Zenon DEF SolveInit, clientVars, CoreInv, QueryPart
<1>2. CASE sane
  <2>1. pc' = "imply" /\ cont' = "init"
    BY <1>2, Zenon DEF SolveInit, GoTo
  <2> QED BY <1>1, <2>1 DEF promised, Busy, Answer, InSolve
<1>3. CASE ~sane
  <2>1. pc' = "idle" /\ stat' = "unsat"
    BY <1>3, Zenon DEF SolveInit, GoTo
  <2>2. Models(cnf) = {}
    BY <1>3, Zenon DEF EntailInv, NoModelPart
  <2>3. Models(Formula) = {}
    BY <2>2, MoreClauses DEF Formula
  <2>4. Busy /\ ~Busy' /\ Answer' = "unsat"
    BY <1>1, <2>1 DEF Busy, Answer, InSolve
  <2> QED BY <1>1, <2>3, <2>4, ReplyOracle
<1> QED BY <1>2, <1>3

(* The end of solve().                                                     *)
LEMMA FinishOracle ==
  ASSUME CoreInv, SearchInv, EntailInv, SatInv, SearchInv', Finish
  PROVE  Oracle!OracleNext
<1>1. UNCHANGED <<cnf, assumps, stat>> /\ pc = "finish"
      /\ conflicts' = IF stat = "unsat" THEN finals ELSE conflicts
  BY Zenon DEF Finish, clientVars
<1>2. pc' = "idle"
  BY DEF Finish, GoTo, Halt, SearchInv, ControlPart, PlacePart
<1>3. stat \in {"sat", "unsat", "unknown"}
  BY <1>1 DEF SearchInv, ControlPart, PlacePart
<1>4. stat = "sat" => Models(Formula) # {}
  <2>1. TrailInv /\ Formula \subseteq SUBSET Lit
    BY FormulaTyped DEF SearchInv
  <2>2. stat = "sat" => \A C \in Formula : \E l \in C : Eval(l) = 1
    BY <1>1 DEF SatInv, SatPart, ModelHolds
  <2> QED BY <2>1, <2>2, HoldingHasModel
<1>5. stat = "unsat" => Models(Formula) = {}
  BY <1>1, UnsatImplies DEF UnsatSound
<1>6. stat = "unsat" => Entails(cnf, finals)
  <2>1. CASE finals = {}
    BY <1>1, <2>1 DEF EntailInv, NoModelPart, Refuted, Entails
  <2>2. CASE finals # {}
    BY <1>1, <2>2 DEF EntailInv, FinalsPart, Follows
  <2> QED BY <2>1, <2>2
<1>7. conflicts' \subseteq Lit
  BY <1>1, Zenon DEF CoreInv, QueryPart
<1>8. Busy /\ ~Busy' /\ Answer' = stat
  BY <1>1, <1>2 DEF Busy, Answer, InSolve
<1>9. /\ stat # "unsat" => conflicts' = conflicts
      /\ conflicts' # conflicts => Entails(cnf, conflicts')
  BY <1>1, <1>6, Zenon
<1> QED BY <1>1, <1>3, <1>4, <1>5, <1>7, <1>8, <1>9, ReplyOracle

LEMMA StepOracle ==
  (CoreInv /\ SearchInv /\ EntailInv /\ PropInv /\ SatInv) /\ [Next]_vars
    => [Oracle!OracleNext]_promised
<1> SUFFICES ASSUME CoreInv, SearchInv, EntailInv, SatInv, [Next]_vars
             PROVE  Oracle!OracleNext \/ UNCHANGED promised
  OBVIOUS
<1>1. CASE Client
  BY <1>1, ClientOracle
<1>2. CASE Search
  <2>1. CASE SolveInit
    BY <2>1, SolveInitOracle
  <2>2. CASE Finish
    BY <2>2, SearchNextKeeps, FinishOracle
  <2> QED BY <1>2, <2>1, <2>2, QuietOracle
<1>3. CASE Stop \/ UNCHANGED vars
  <2>1. UNCHANGED <<cnf, assumps, pc, cont, stat, conflicts>>
    BY <1>3, Zenon DEF Stop, vars, ctlVars, clientVars, answerVars
  <2> QED BY <2>1 DEF promised, Busy, Answer, InSolve
<1> QED BY <1>1, <1>2, <1>3, Zenon DEF Next, Rest

(* The engine keeps what SatSolver.h promises: every answer of solve() is  *)
(* right for the clauses added so far and the assumptions of this call,    *)
(* and the conflict literals it hands out follow from the clauses, however *)
(* clauses, calls and stop() are interleaved.                              *)
THEOREM EngineImplementsOracle ==
  ASSUME MenuDecided
  PROVE  Spec => ImplementsOracle
<1>1. (CoreInv /\ SearchInv /\ EntailInv /\ PropInv /\ SatInv) /\ [Next]_vars
        => [Oracle!OracleNext]_(Oracle!oracleVars)
  BY StepOracle DEF Oracle!oracleVars, promised, Busy, Answer
<1> QED BY <1>1, InitOracle, SatAlwaysInv, PTL DEF Spec, ImplementsOracle, Oracle!OracleSpec
=============================================================================
