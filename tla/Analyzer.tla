------------------------------ MODULE Analyzer ------------------------------
(***************************************************************************)
(* Conflict analysis: SaUIP1::capture() walks the trail backwards and      *)
(* resolves the conflict with the reasons of current-level literals until  *)
(* one of them is left (the first UIP); SaBase::make_minimal() drops the   *)
(* literals implied by the others; reorder() puts a literal of the highest *)
(* remaining level second and returns that level.                          *)
(*                                                                         *)
(* Activities are abstracted (they only order the variable heap and the    *)
(* learnt clauses), and so is the order of the literals after the second.  *)
(*                                                                         *)
(* SaUIP2 differs from SaUIP1 in put_lit() only: see Written.              *)
(***************************************************************************)
EXTENDS Implication

CONSTANTS
  LevelBits,  (* width of the level bitmap of make_minimal(), 64           *)
  Analyzers   (* what the option "analyzer" may be                        *)

ASSUME LevelBitsAssumption == LevelBits \in Nat \ {0}

VARIABLES
  analyzer,   (* the one chosen when the solver is made                   *)
  resolving,  (* literals of the clause creason put_lit() is applied to   *)
  mark,       (* mMark                                                    *)
  lower,      (* the literals of lower levels that learnt[1..] is made of *)
  uip,        (* learnt[0]                                                *)
  count,      (* marked literals of the current level still to be met     *)
  last,       (* 1 + last, the position in the trail                      *)
  learnt      (* learnt_lits after analyze(), << >> between two analyses  *)

captureVars == <<analyzer, resolving, mark, lower, uip, count, last>>
anaVars == <<captureVars, learnt>>

AnaInit ==
  /\ analyzer \in Analyzers
  /\ resolving = {} /\ mark = {} /\ lower = {} /\ uip = 0
  /\ count = 0 /\ last = 0 /\ learnt = <<>>

(* analyze() is entered with the literals C of the conflict clause.        *)
StartAnalysis(C) ==
  /\ resolving' = C
  /\ last' = Len(trail)
  /\ UNCHANGED <<analyzer, mark, lower, uip, count, learnt>>

EndAnalysis ==
  /\ resolving' = {} /\ mark' = {} /\ lower' = {} /\ uip' = 0
  /\ count' = 0 /\ last' = 0 /\ UNCHANGED analyzer

(* put_lit() over the clause: unmarked literals above level 0 are marked;  *)
(* those below the current level are learnt, the others counted.           *)
NewLits == {q \in resolving : VarOf(q) \notin mark /\ LevelOf(q) > 0}
NewLower == {q \in NewLits : LevelOf(q) < DecisionLevel}
Marked == mark \cup Vars(NewLits)
(* Variant: every literal is counted, whatever its level.                  *)
NewCountAll == count + Cardinality(Vars(NewLits))
NewCount == count + Cardinality(Vars(NewLits \ NewLower))

(* The last marked position of the trail not after last.                   *)
Latest(i) ==
  /\ i \in 1 .. last
  /\ VarOf(trail[i]) \in Marked
  /\ \A j \in i + 1 .. last : VarOf(trail[j]) \notin Marked

(* Variant: only the last clause contributes literals of lower levels.     *)
CaptureAtAnew(i) ==
  /\ Latest(i)
  /\ mark' = Marked \ {VarOf(trail[i])}
  /\ lower' = NewLower
  /\ uip' = -trail[i]
  /\ count' = NewCount - 1
  /\ last' = i
  /\ UNCHANGED <<analyzer, learnt>>

(* One iteration of capture() that meets the literal at position i.        *)
CaptureAt(i) ==
  /\ Latest(i)
  /\ mark' = Marked \ {VarOf(trail[i])}
  /\ lower' = lower \cup NewLower
  /\ uip' = -trail[i]
  /\ count' = NewCount - 1
  /\ last' = i
  /\ UNCHANGED <<analyzer, learnt>>

(* ... which is resolved away, because others of its level are pending.    *)
ResolveAt(i) ==
  /\ CaptureAt(i)
  /\ NewCount # 1
  /\ reason[VarOf(trail[i])] # None
  /\ resolving' = Antecedents(reason[VarOf(trail[i])])

(* ... which is the first UIP.                                             *)
FoundUIP(i) ==
  /\ CaptureAt(i)
  /\ NewCount = 1
  /\ resolving' = {}

(* The code has no answer when no marked literal is left (an assertion) or *)
(* when a decision is to be resolved (a null Clause is dereferenced).      *)
CaptureFails ==
  \/ \A i \in 1 .. last : ~Latest(i)
  \/ \E i \in 1 .. last :
       Latest(i) /\ NewCount # 1 /\ reason[VarOf(trail[i])] = None

(* Variant: one marked antecedent is enough.                               *)
RedundantIfAny(v) ==
  /\ reason[v] # None
  /\ \E q \in Antecedents(reason[v]) : VarOf(q) \in mark

(* Variant: the other literal of the binary clause is turned over.         *)
WrittenNegated(q) ==
  IF analyzer = "uip2" /\ q \in lower /\ reason[VarOf(q)] \in Lit
  THEN -reason[VarOf(q)] ELSE q

(* The literal that put_lit() writes to learnt for q: SaUIP2 replaces one  *)
(* implied by a binary clause by the other literal of that clause.  Only q *)
(* is marked, so the same literal may be written for several.              *)
Written(q) ==
  IF analyzer = "uip2" /\ q \in lower /\ reason[VarOf(q)] \in Lit
  THEN reason[VarOf(q)] ELSE q

(* check_recur(): v and, recursively, all it was implied by are implied by *)
(* marked or level-0 variables.  A level whose bit is not in the bitmap of *)
(* the learnt literals' levels ends the search early.                      *)
Bitmap == {LevelOf(Written(l)) % LevelBits : l \in lower \cup {uip}}
Redundant(v) ==
  \E S \in SUBSET Var :
    /\ v \in S
    /\ \A u \in S :
         /\ reason[u] # None
         /\ level[u] % LevelBits \in Bitmap
         /\ \A q \in Antecedents(reason[u]) :
              VarOf(q) \in mark \cup S \/ LevelOf(q) = 0

Minimal == {l \in lower \cup {uip} : ~Redundant(VarOf(Written(l)))}

(* Variant: analyze() without reorder().                                   *)
IsLearntUnordered(s) ==
  /\ Elems(s) = Minimal
  /\ uip \in Minimal => s[1] = uip

(* The orders in which analyze() may leave what is written for Minimal.    *)
IsLearnt(s) ==
  /\ Elems(s) = Minimal
  /\ uip \in Minimal => s[1] = uip
  /\ \A i \in 3 .. Len(s) : LevelOf(Written(s[i])) <= LevelOf(Written(s[2]))
LearntOrders ==
  {[i \in DOMAIN s |-> Written(s[i])] :
     s \in {t \in [1 .. Cardinality(Minimal) -> Minimal] : IsLearnt(t)}}
BackjumpLevel(s) == IF Len(s) < 2 THEN 0 ELSE LevelOf(s[2])
-----------------------------------------------------------------------------
AnaTypeOK ==
  /\ analyzer \in Analyzers
  /\ resolving \subseteq Lit
  /\ mark \subseteq Var
  /\ lower \subseteq Lit
  /\ uip \in Lit \cup {0}
  /\ count \in Int
  /\ last \in Nat
  /\ learnt \in Seq(Lit)
=============================================================================
