------------------------------ MODULE SatCore ------------------------------
(***************************************************************************)
(* The CDCL engine (c++-src/ymsat/core/SatCore.cc): clauses and variables  *)
(* are added between calls of solve(); solve() restarts search() until it  *)
(* has an answer or a budget is exhausted; search() alternates propagation *)
(* with conflict analysis or with a decision; stop() may be called by      *)
(* another thread while solve() runs.                                      *)
(*                                                                         *)
(* pc is the place in solve() and search(); cont is where implication() or *)
(* reduce_CNF() was called from.  Budgets and limits come from constants;  *)
(* decisions take any variable of the heap (activities are abstracted).    *)
(***************************************************************************)
EXTENDS Analyzer

CONSTANTS
  DecVar,         (* variables created with new_variable(true)             *)
  InitVars,       (* variables that exist from the start                   *)
  Menu,           (* sequence of clauses, each a sequence in index order,  *)
                  (* of which the client adds some, in this order          *)
  Assumptions,    (* sequences of literals solve() may be given            *)
  MaxSolves,      (* bound: calls of solve()                               *)
  ConflictLimits, (* conflicts after which search() gives up               *)
  LearntLimits,   (* mLearntLimit                                          *)
  Budgets,        (* pairs of budgets, of conflicts and of propagations,   *)
                  (* the client may set; 0 stands for none                 *)
  PhaseCache,     (* SelBase::mPhaseCache                                  *)
  Phases,         (* polarities choose_phase() may return                  *)
  MayStop         (* whether another thread may call stop()                *)

ASSUME ClientAssumption ==
  /\ DecVar \subseteq Var /\ InitVars \in 0 .. NVar
  /\ Menu \in Seq(Seq(Lit))
  /\ Assumptions \subseteq Seq(Lit)
  /\ MaxSolves \in Nat
  /\ MayStop \in BOOLEAN

ASSUME ParamAssumption ==
  /\ ConflictLimits \subseteq Nat /\ LearntLimits \subseteq Nat
  /\ Budgets \subseteq Nat \X Nat
  /\ PhaseCache \in BOOLEAN /\ Phases \subseteq {-1, 1}

VARIABLES
  varNum,       (* mVarNum                                                 *)
  oldVarNum,    (* mOldVarNum: variables alloc_var() has set up            *)
  prev,         (* mVal >> 2: value before the last backtrack              *)
  heap,         (* decision variables in mVarHeap                          *)
  sane,         (* mSane                                                   *)
  goOn,         (* mGoOn                                                   *)
  sweepAssigns, (* mSweep_assigns: length of the trail at the last sweep   *)
  conflictBudget, propBudget,  (* mConflictBudget, mPropagationBudget      *)
  conflictNum,  (* mConflictNum, counted up to the largest of Budgets      *)
  propNum,      (* mPropagationNum, likewise                               *)
  assumps,      (* mAssumptions                                            *)
  finals,       (* mConflicts, filled by analyze_final()                   *)
  quota,        (* conflict_limit() - cur_confl_num, not below 0           *)
  stat,         (* sat_stat; when idle, what solve() has just returned     *)
  conflicts,    (* the conflicts argument: the caller's vector             *)
  pc, cont,
  cnf,          (* ghost: the clauses the client has added                 *)
  menuPos,      (* ghost: how far the client is in Menu                    *)
  solves,       (* ghost: calls of solve() so far                          *)
  stopped       (* ghost: stop() has been called since solve() was         *)

limitVars == <<conflictBudget, propBudget>>
budgetVars == <<limitVars, conflictNum, propNum>>
clientVars == <<cnf, menuPos, solves, stopped>>
varVars == <<varNum, oldVarNum>>
selVars == <<prev, heap>>
answerVars == <<stat, conflicts, finals>>
ctlVars == <<pc, cont>>
vars == <<trailVars, dbVars, implVars, anaVars, varVars, selVars, sane, goOn,
          sweepAssigns, budgetVars, assumps, quota, answerVars, ctlVars, clientVars>>

Init ==
  /\ TrailInit /\ ImplInit /\ AnaInit
  /\ varNum = InitVars /\ oldVarNum = 0
  /\ prev = [v \in Var |-> 0] /\ heap = {}
  /\ sane = TRUE /\ goOn = FALSE /\ sweepAssigns = -1
  /\ conflictBudget = 0 /\ propBudget = 0
  /\ conflictNum = 0 /\ propNum = 0
  /\ assumps = <<>> /\ finals = {} /\ quota = 0
  /\ stat = "none" /\ conflicts = {}
  /\ pc = "idle" /\ cont = "none"
  /\ cnf = {} /\ menuPos = 0 /\ solves = 0 /\ stopped = FALSE
-----------------------------------------------------------------------------
(***************************************************************************)
(* Shared pieces.                                                          *)
(***************************************************************************)
GoTo(p, k) == pc' = p /\ cont' = k

CheckBudget ==
  /\ goOn
  /\ conflictBudget = 0 \/ conflictNum < conflictBudget
  /\ propBudget = 0 \/ propNum < propBudget

CountUpTo(n, bounds) == IF \E b \in bounds : n < b THEN n + 1 ELSE n
CountConflict == CountUpTo(conflictNum, {b[1] : b \in Budgets})
CountPropagation == CountUpTo(propNum, {b[2] : b \in Budgets})

(* alloc_var(): the decision variables created since the last call enter   *)
(* the heap.                                                               *)
AllocVar ==
  /\ oldVarNum' = varNum
  /\ heap' = heap \cup (DecVar \cap (oldVarNum + 1 .. varNum))
  /\ UNCHANGED varNum

(* Variant: the variables do not return to the heap.                       *)
BacktrackWithoutPush(k) ==
  /\ Backtrack(k)
  /\ LET undone == IF k < DecisionLevel THEN Undone(k) ELSE {} IN
       prev' = [v \in Var |-> IF PhaseCache /\ v \in undone THEN val[v] ELSE prev[v]]
  /\ UNCHANGED heap

(* backtrack(k) with what it does beyond the trail: the values become the  *)
(* cached phases, and the variables return to the heap.                    *)
BacktrackTo(k) ==
  /\ Backtrack(k)
  /\ LET undone == IF k < DecisionLevel THEN Undone(k) ELSE {} IN
       /\ heap' = heap \cup (undone \cap DecVar)
       /\ prev' = [v \in Var |-> IF PhaseCache /\ v \in undone THEN val[v] ELSE prev[v]]

Halt == GoTo("error", cont)
-----------------------------------------------------------------------------
(***************************************************************************)
(* The client, between two calls of solve().                               *)
(***************************************************************************)
NewVariable ==
  /\ pc = "idle"
  /\ varNum < NVar
  /\ varNum' = varNum + 1
  /\ stat' = "none"
  /\ UNCHANGED <<trailVars, dbVars, implVars, anaVars, oldVarNum, selVars, sane, goOn,
                 sweepAssigns, budgetVars, assumps, quota, conflicts, finals, ctlVars, clientVars>>

(* The loop of add_clause(): literals false at level 0 are dropped.  f     *)
(* gives for each position written (wpos) the position read (rpos).  The   *)
(* variable prev of the loop is never assigned, so neither repeated nor    *)
(* complementary literals are noticed.                                     *)
Compacted(s) ==
  LET kept == {i \in DOMAIN s : Eval(s[i]) # -1}
      n == Cardinality(kept)
      increasing == {f \in [1 .. n -> kept] : \A i, j \in 1 .. n : i < j => f[i] < f[j]}
  IN {[k \in 1 .. n |-> s[f[k]]] : f \in increasing}

AddTrue == UNCHANGED <<trailVars, dbVars, sane>> /\ GoTo("idle", cont)

AddEmpty ==
  /\ sane' = FALSE
  /\ UNCHANGED <<trailVars, dbVars>>
  /\ GoTo("idle", cont)

(* check_and_assign(), then implication().                                 *)
AddUnit(l) ==
  /\ Assign(l, None)
  /\ UNCHANGED <<dbVars, sane>>
  /\ GoTo("imply", "add")

AddBinary(s) ==
  /\ AttachBinary(s)
  /\ UNCHANGED <<trailVars, sane>>
  /\ GoTo("idle", cont)

AddLong(s) ==
  /\ \E c \in ClauseId :
       /\ FreshId(c)
       /\ AttachClause(c, s)
       /\ constr' = constr \cup {c}
  /\ UNCHANGED <<trailVars, learnts, sane>>
  /\ GoTo("idle", cont)

AddClause(i) ==
  /\ pc = "idle"
  /\ sane                              \* otherwise add_clause() throws
  /\ i \in menuPos + 1 .. Len(Menu)
  /\ \A l \in Elems(Menu[i]) : VarOf(l) <= varNum
  /\ menuPos' = i
  /\ cnf' = cnf \cup {Elems(Menu[i])}
  /\ AllocVar
  /\ stat' = "none"
  /\ IF \E l \in Elems(Menu[i]) : Eval(l) = 1
       THEN AddTrue
       ELSE \E s \in Compacted(Menu[i]) :
              CASE Len(s) = 0 -> AddEmpty
                [] Len(s) = 1 -> AddUnit(s[1])
                [] Len(s) = 2 -> AddBinary(s)
                [] OTHER      -> AddLong(s)
  /\ UNCHANGED <<implVars, anaVars, prev, goOn, sweepAssigns, budgetVars, assumps,
                 quota, conflicts, finals, solves, stopped>>

(* solve() up to the place where mGoOn is set.                             *)
Solve(A) ==
  /\ pc = "idle"
  /\ solves < MaxSolves
  /\ A \in Assumptions
  /\ \A l \in Elems(A) : VarOf(l) <= varNum
  /\ solves' = solves + 1
  /\ stopped' = FALSE
  /\ assumps' = A
  /\ stat' = "none"
  /\ AllocVar
  /\ GoTo("entry", cont)
  /\ UNCHANGED <<trailVars, dbVars, implVars, anaVars, prev, sane, goOn, sweepAssigns,
                 budgetVars, quota, conflicts, finals, cnf, menuPos>>

(* set_conflict_budget() and set_propagation_budget().  The counters they  *)
(* bound are never reset: a budget is for the life of the solver.          *)
SetBudget(b) ==
  /\ pc = "idle"
  /\ b \in Budgets
  /\ conflictBudget' = b[1] /\ propBudget' = b[2]
  /\ UNCHANGED <<trailVars, dbVars, implVars, anaVars, varVars, selVars, sane, goOn,
                 sweepAssigns, conflictNum, propNum, assumps, quota, answerVars, ctlVars,
                 clientVars>>

(* stop(), called by an interrupt handler or another thread.               *)
Stop ==
  /\ MayStop
  /\ pc \notin {"idle", "error"}
  /\ goOn' = FALSE
  /\ stopped' = TRUE
  /\ UNCHANGED <<trailVars, dbVars, implVars, anaVars, varVars, selVars, sane, sweepAssigns,
                 budgetVars, assumps, quota, answerVars, ctlVars, cnf, menuPos, solves>>
-----------------------------------------------------------------------------
(***************************************************************************)
(* solve() and search().                                                   *)
(***************************************************************************)

(* mGoOn = true; mConflicts.clear(); and, when the clauses are already     *)
(* known to be contradictory, the jump to the end of solve().              *)
SolveInit ==
  /\ pc = "entry"
  /\ goOn' = TRUE
  /\ finals' = {}
  /\ IF sane
       THEN GoTo("imply", "init") /\ UNCHANGED stat
       ELSE GoTo("idle", cont) /\ stat' = "unsat"
  /\ UNCHANGED <<trailVars, dbVars, implVars, anaVars, varVars, selVars, sane, sweepAssigns,
                 budgetVars, assumps, quota, conflicts, clientVars>>

(* implication() called from add_clause, reduce_CNF or search.             *)
PropagateStep ==
  /\ pc = "imply"
  /\ Propagate
  /\ propNum' = IF head' = head THEN propNum ELSE CountPropagation
  /\ UNCHANGED <<anaVars, varVars, selVars, sane, goOn, sweepAssigns, limitVars,
                 conflictNum, assumps, quota, answerVars, ctlVars, clientVars>>

(* implication() returns a conflict.  During add_clause(), and at level 0  *)
(* of a search, the clauses are contradictory.                             *)
ConflictStep ==
  /\ pc = "imply"
  /\ \E w \in Watcher :
       /\ Conflict(w)
       /\ IF cont = "search" /\ DecisionLevel > 0
            THEN StartAnalysis(ConflictLits(w))
            ELSE UNCHANGED anaVars
  /\ IF cont = "search"
       THEN /\ conflictNum' = CountConflict
            /\ quota' = IF quota > 0 THEN quota - 1 ELSE 0
       ELSE UNCHANGED <<conflictNum, quota>>
  /\ CASE cont = "add" -> GoTo("idle", "none") /\ sane' = FALSE /\ UNCHANGED stat
       [] cont = "init" -> Halt /\ UNCHANGED <<sane, stat>>
       [] cont = "search" /\ DecisionLevel = 0 ->
            GoTo("stat", "none") /\ stat' = "unsat" /\ UNCHANGED sane
       [] OTHER -> GoTo("capture", "none") /\ UNCHANGED <<sane, stat>>
  /\ UNCHANGED <<varVars, selVars, goOn, sweepAssigns, limitVars, propNum, assumps,
                 conflicts, finals, clientVars>>

(* implication() returns without a conflict.                               *)
ImplicationDone ==
  /\ pc = "imply"
  /\ EndImplication
  /\ CASE cont = "add" -> GoTo("idle", "none")
       [] cont = "init" -> GoTo("sweep", "init")
       [] OTHER -> GoTo("check", "none")
  /\ UNCHANGED <<anaVars, varVars, selVars, sane, goOn, sweepAssigns, budgetVars, assumps,
                 quota, answerVars, clientVars>>

(* reduce_CNF() after its implication(), called by solve() or by search()  *)
(* at level 0 (where the queue is empty already).  It is skipped unless    *)
(* the trail has grown; it may also be skipped because fewer literals have *)
(* been propagated than the clauses had at the last sweep (mSweep_props),  *)
(* a count that is abstracted: a sweep may always be skipped.              *)
SweepExit == IF cont = "init" THEN GoTo("search", "none") ELSE GoTo("reduce", "none")

SkipSweep ==
  /\ pc = "sweep"
  /\ SweepExit
  /\ UNCHANGED <<trailVars, dbVars, implVars, anaVars, varVars, selVars, sane, goOn,
                 sweepAssigns, budgetVars, assumps, quota, answerVars, clientVars>>

(* Variant: locked clauses are deleted too.                                *)
SweepableAll == {c \in Live : \E l \in Elems(lits[c]) : Eval(l) = 1}
Sweepable == {c \in Live : ~Locked(c) /\ \E l \in Elems(lits[c]) : Eval(l) = 1}
Sweep ==
  /\ pc = "sweep"
  /\ Len(trail) # sweepAssigns
  /\ DetachClauses(Sweepable, TRUE)
  /\ heap' = {v \in DecVar : v <= varNum /\ val[v] = 0}
  /\ sweepAssigns' = Len(trail)
  /\ SweepExit
  /\ UNCHANGED <<trailVars, implVars, anaVars, varVars, prev, sane, goOn, budgetVars,
                 assumps, quota, answerVars, clientVars>>

(* search() is entered; its conflict limit comes from the controller, and  *)
(* set_conflict_limit() cuts it down to the budget.                        *)
StartSearch ==
  /\ pc = "search"
  /\ \E limit \in ConflictLimits :
       quota' = IF conflictBudget > 0 /\ conflictBudget < limit
                  THEN conflictBudget ELSE limit
  /\ GoTo("imply", "search")
  /\ UNCHANGED <<trailVars, dbVars, implVars, anaVars, varVars, selVars, sane, goOn,
                 sweepAssigns, budgetVars, assumps, answerVars, clientVars>>

(* SaUIP1::capture(): one literal of the current level is met.             *)
Capture ==
  /\ pc = "capture"
  /\ IF CaptureFails
       THEN Halt /\ UNCHANGED anaVars
       ELSE \E i \in 1 .. last :
              \/ ResolveAt(i) /\ GoTo("capture", cont)
              \/ FoundUIP(i) /\ GoTo("minimize", cont)
  /\ UNCHANGED <<trailVars, dbVars, implVars, varVars, selVars, sane, goOn, sweepAssigns,
                 budgetVars, assumps, quota, answerVars, clientVars>>

(* make_minimal(), reorder() and the backtrack of search().                *)
Backjump ==
  /\ pc = "minimize"
  /\ \E s \in LearntOrders :
       /\ learnt' = s
       /\ BacktrackTo(BackjumpLevel(s))
  /\ EndAnalysis
  /\ GoTo("learn", cont)
  /\ UNCHANGED <<dbVars, implVars, varVars, sane, goOn, sweepAssigns, budgetVars, assumps,
                 quota, answerVars, clientVars>>

(* add_learnt_clause(), which throws when its clause is empty or false.    *)
LearnUnit(l) ==
  /\ IF Eval(l) = 0 THEN Assign(l, None) ELSE UNCHANGED trailVars
  /\ UNCHANGED dbVars

LearnBinary(s) == AttachBinary(s) /\ Assign(s[1], s[2])

LearnLong(s) ==
  \E c \in ClauseId :
    /\ FreshId(c)
    /\ AttachClause(c, s)
    /\ learnts' = learnts \cup {c}
    /\ Assign(s[1], c)
    /\ UNCHANGED constr

Learn ==
  /\ pc = "learn"
  /\ IF learnt = <<>> \/ Eval(learnt[1]) = -1
       THEN Halt /\ UNCHANGED <<trailVars, dbVars>>
       ELSE /\ CASE Len(learnt) = 1 -> LearnUnit(learnt[1])
                 [] Len(learnt) = 2 -> LearnBinary(learnt)
                 [] OTHER           -> LearnLong(learnt)
            /\ GoTo("imply", "search")
  /\ learnt' = <<>>
  /\ UNCHANGED <<implVars, captureVars, varVars, selVars, sane, goOn, sweepAssigns,
                 budgetVars, assumps, quota, answerVars, clientVars>>

(* The limits are looked at only here, after a propagation without a       *)
(* conflict.                                                               *)
GiveUp ==
  /\ pc = "check"
  /\ quota = 0 \/ ~CheckBudget
  /\ BacktrackTo(0)
  /\ stat' = "unknown"
  /\ GoTo("stat", "none")
  /\ UNCHANGED <<dbVars, implVars, anaVars, varVars, sane, goOn, sweepAssigns, budgetVars,
                 assumps, quota, conflicts, finals, clientVars>>

GoAhead ==
  /\ pc = "check"
  /\ quota # 0 /\ CheckBudget
  /\ IF DecisionLevel = 0 THEN GoTo("sweep", "top") ELSE GoTo("reduce", "none")
  /\ UNCHANGED <<trailVars, dbVars, implVars, anaVars, varVars, selVars, sane, goOn,
                 sweepAssigns, budgetVars, assumps, quota, answerVars, clientVars>>

(* reduce_learnt_clause(): when the learnt clauses are too many, the less  *)
(* active half F and any others E whose activity is under a limit are      *)
(* deleted, unless locked.  last_assign() wraps around on an empty trail:  *)
(* the sum is then mLearntLimit - 1, or huge.                              *)
TooManyLearnts(limit) ==
  /\ ~(trail = <<>> /\ limit = 0)
  /\ Cardinality(learnts) >= Len(trail) - 1 + limit

(* Variant: they are deleted at level 0, to which the search goes back.    *)
ReduceAtTop ==
  /\ pc = "reduce"
  /\ \E limit \in LearntLimits :
       IF TooManyLearnts(limit)
         THEN /\ \E F \in SUBSET learnts : \E E \in SUBSET learnts :
                   /\ Cardinality(F) = Cardinality(learnts) \div 2
                   /\ E \cap F = {}
                   /\ DetachClauses({c \in F \cup E : ~Locked(c)}, FALSE)
              /\ BacktrackTo(0)
              /\ GoTo("imply", "search")
         ELSE UNCHANGED <<trailVars, selVars, dbVars>> /\ GoTo("decide", "none")
  /\ UNCHANGED <<implVars, anaVars, varVars, sane, goOn, sweepAssigns, budgetVars,
                 assumps, quota, answerVars, clientVars>>

Reduce ==
  /\ pc = "reduce"
  /\ \E limit \in LearntLimits :
       IF TooManyLearnts(limit)
         THEN \E F \in SUBSET learnts : \E E \in SUBSET learnts :
                /\ Cardinality(F) = Cardinality(learnts) \div 2
                /\ E \cap F = {}
                /\ DetachClauses({c \in F \cup E : ~Locked(c)}, FALSE)
         ELSE UNCHANGED dbVars
  /\ GoTo("decide", "none")
  /\ UNCHANGED <<trailVars, implVars, anaVars, varVars, selVars, sane, goOn, sweepAssigns,
                 budgetVars, assumps, quota, answerVars, clientVars>>

(* The assumptions are decided first, one level each; one that is already  *)
(* true gets an empty level.                                               *)
Assumed == assumps[DecisionLevel + 1]
Assuming == pc = "decide" /\ DecisionLevel < Len(assumps)

SkipAssumption ==
  /\ Assuming
  /\ Eval(Assumed) = 1
  /\ SetMarker
  /\ UNCHANGED <<dbVars, implVars, anaVars, varVars, selVars, sane, goOn, sweepAssigns,
                 budgetVars, assumps, quota, answerVars, ctlVars, clientVars>>

DecideAssumption ==
  /\ Assuming
  /\ Eval(Assumed) = 0
  /\ Decide(Assumed)
  /\ GoTo("imply", "search")
  /\ UNCHANGED <<dbVars, implVars, anaVars, varVars, selVars, sane, goOn, sweepAssigns,
                 budgetVars, assumps, quota, answerVars, clientVars>>

(* analyze_final(l): the trail is read backwards from the variable of l    *)
(* through the reasons above level 0.  A marked variable without a reason  *)
(* contributes its literal; the variable of l itself may be one such even  *)
(* at level 0.                                                             *)
TracesBack(M) ==
  \A v \in M : reason[v] # None =>
    \A q \in Antecedents(reason[v]) : LevelOf(q) > 0 => VarOf(q) \in M
Traced(v) == {u \in Var : \A M \in SUBSET Var : v \in M /\ TracesBack(M) => u \in M}
(* Variant: the failed assumption alone is reported.                       *)
FinalsAlone(l) == {l}
Finals(l) ==
  {l} \cup (IF DecisionLevel = 0 THEN {}
            ELSE {-trail[i] : i \in {j \in DOMAIN trail :
                    /\ VarOf(trail[j]) \in Traced(VarOf(l))
                    /\ reason[VarOf(trail[j])] = None}})

RefuteAssumption ==
  /\ Assuming
  /\ Eval(Assumed) = -1
  /\ finals' = finals \cup Finals(-Assumed)
  /\ stat' = "unsat"
  /\ GoTo("stat", "none")
  /\ UNCHANGED <<trailVars, dbVars, implVars, anaVars, varVars, selVars, sane, goOn,
                 sweepAssigns, budgetVars, assumps, quota, conflicts, clientVars>>

(* next_decision(): variables are popped until an unassigned decision      *)
(* variable shows up; a random pick leaves the heap alone.                 *)
(* Variant: the last assumption is left out.                               *)
DecidingEarly == pc = "decide" /\ DecisionLevel + 1 >= Len(assumps)
Deciding == pc = "decide" /\ DecisionLevel >= Len(assumps)
Assigned(S) == {u \in S : val[u] # 0}
(* Variant: unassigned variables are dropped on the way, too.              *)
HeapsAfterAny(v) == {heap \ (P \cup {v}) : P \in SUBSET heap}
HeapsAfter(v) == {heap} \cup {heap \ (P \cup {v}) : P \in SUBSET Assigned(heap)}
PhasesOf(v) == IF PhaseCache /\ prev[v] # 0 THEN {prev[v]} ELSE Phases

DecideFree ==
  /\ Deciding
  /\ \E v \in heap \ Assigned(heap) :
       /\ heap' \in HeapsAfter(v)
       /\ \E s \in PhasesOf(v) : Decide(s * v)
  /\ GoTo("imply", "search")
  /\ UNCHANGED <<dbVars, implVars, anaVars, varVars, prev, sane, goOn, sweepAssigns,
                 budgetVars, assumps, quota, answerVars, clientVars>>

NothingToDecide ==
  /\ Deciding
  /\ heap \subseteq Assigned(heap)
  /\ heap' = {}
  /\ stat' = "sat"
  /\ GoTo("stat", "none")
  /\ UNCHANGED <<trailVars, dbVars, implVars, anaVars, varVars, prev, sane, goOn, sweepAssigns,
                 budgetVars, assumps, quota, conflicts, finals, clientVars>>

(* Variant: the budget is not looked at.                                   *)
RestartRegardless ==
  /\ pc = "stat"
  /\ IF stat = "unknown" THEN GoTo("search", "none") ELSE GoTo("finish", "none")
  /\ UNCHANGED <<trailVars, dbVars, implVars, anaVars, varVars, selVars, sane, goOn,
                 sweepAssigns, budgetVars, assumps, quota, answerVars, clientVars>>

(* The loop of solve() around search().                                    *)
Restart ==
  /\ pc = "stat"
  /\ IF CheckBudget /\ stat = "unknown" THEN GoTo("search", "none") ELSE GoTo("finish", "none")
  /\ UNCHANGED <<trailVars, dbVars, implVars, anaVars, varVars, selVars, sane, goOn,
                 sweepAssigns, budgetVars, assumps, quota, answerVars, clientVars>>

(* The end of solve(): the model is read off the values (which must all be *)
(* there), or the conflicting literals are handed out.                     *)
Model == [v \in {u \in DecVar : u <= varNum} |-> val[v]]
ModelFails == stat = "sat" /\ \E v \in DOMAIN Model : Model[v] = 0

(* Variant: a failed assumption, too, makes the clauses contradictory.     *)
FinishInsane ==
  /\ pc = "finish"
  /\ conflicts' = IF stat = "unsat" THEN finals ELSE conflicts
  /\ sane' = (sane /\ stat # "unsat")
  /\ BacktrackTo(0)
  /\ IF ModelFails THEN Halt ELSE GoTo("idle", cont)
  /\ UNCHANGED <<dbVars, implVars, anaVars, varVars, goOn, sweepAssigns, budgetVars,
                 assumps, quota, stat, finals, clientVars>>

Finish ==
  /\ pc = "finish"
  /\ conflicts' = IF stat = "unsat" THEN finals ELSE conflicts
  /\ sane' = (sane /\ ~(stat = "unsat" /\ finals = {}))
  /\ BacktrackTo(0)
  /\ IF ModelFails THEN Halt ELSE GoTo("idle", cont)
  /\ UNCHANGED <<dbVars, implVars, anaVars, varVars, goOn, sweepAssigns, budgetVars,
                 assumps, quota, stat, finals, clientVars>>
-----------------------------------------------------------------------------
Search ==
  \/ SolveInit \/ PropagateStep \/ ConflictStep \/ ImplicationDone
  \/ SkipSweep \/ Sweep \/ StartSearch
  \/ Capture \/ Backjump \/ Learn
  \/ GiveUp \/ GoAhead \/ Reduce
  \/ SkipAssumption \/ DecideAssumption \/ RefuteAssumption
  \/ DecideFree \/ NothingToDecide
  \/ Restart \/ Finish

Client ==
  \/ NewVariable
  \/ \E i \in DOMAIN Menu : AddClause(i)
  \/ \E b \in Budgets : SetBudget(b)
  \/ \E A \in Assumptions : Solve(A)

(* The client has called all it was going to call.                         *)
Rest == pc = "idle" /\ UNCHANGED vars

Next == Client \/ Search \/ Stop \/ Rest

Spec == Init /\ [][Next]_vars

(* A thread inside the solver keeps running; nothing is assumed of the     *)
(* client or of the caller of stop().                                      *)
FairSpec == Spec /\ WF_vars(Search)
-----------------------------------------------------------------------------
Places == {"idle", "entry", "imply", "sweep", "search", "capture", "minimize", "learn",
           "check", "reduce", "decide", "stat", "finish", "error"}

TypeOK ==
  /\ TrailTypeOK /\ ImplTypeOK /\ AnaTypeOK
  /\ varNum \in 0 .. NVar /\ oldVarNum \in 0 .. varNum
  /\ prev \in [Var -> Bool3] /\ heap \subseteq DecVar
  /\ sane \in BOOLEAN /\ goOn \in BOOLEAN /\ sweepAssigns \in Int
  /\ conflictBudget \in Nat /\ propBudget \in Nat
  /\ conflictNum \in Nat /\ propNum \in Nat /\ quota \in Nat
  /\ assumps \in Seq(Lit) /\ finals \subseteq Lit /\ conflicts \subseteq Lit
  /\ stat \in {"none", "sat", "unsat", "unknown"}
  /\ pc \in Places /\ cont \in {"none", "add", "init", "top", "search"}
  /\ cnf \subseteq SUBSET Lit /\ menuPos \in 0 .. Len(Menu)
  /\ solves \in Nat /\ stopped \in BOOLEAN

(* Nothing in the engine throws or trips an assertion, whatever the client *)
(* and the other thread do: no conflict in reduce_CNF(), no reason missing *)
(* in capture(), no empty or false learnt clause, no hole in the model.    *)
NoError == pc # "error"

(* The reason of an implied literal above level 0 is a live clause whose   *)
(* first literal it is, or the other literal of a binary clause, and all   *)
(* other literals are false and were assigned before it.  Locking is what  *)
(* keeps the clause alive; wl0 staying in place is what finds the literal. *)
Position(l) == CHOOSE i \in 1 .. Len(trail) : VarOf(trail[i]) = VarOf(l)
ReasonsHold ==
  \A i \in 1 .. Len(trail) :
    LET r == reason[VarOf(trail[i])] IN
      r # None =>
        /\ r \in ClauseId => r \in Live /\ wl0(r) = trail[i]
        /\ r \in Lit /\ LevelOf(r) > 0 => watch[-r][trail[i]] > 0
        /\ \A q \in Antecedents(r) : Eval(q) = -1 /\ Position(q) < i

(* No unassigned decision variable is ever missing from the heap, through  *)
(* pops, backtracks, rebuilds and late variables: an empty heap means that *)
(* nothing is left to decide.                                              *)
HeapCovers ==
  \A v \in DecVar : v <= oldVarNum /\ val[v] = 0 => v \in heap

(* Whatever is learnt follows from the clauses of the client alone, even   *)
(* in the middle of a search under assumptions: learnt clauses, learnt     *)
(* binaries, and values at level 0.                                        *)
LearntEntailed ==
  LET M == Models(cnf)
      Follows(C) == \A a \in M : Satisfies(a, C)
  IN /\ \A c \in Live : Follows(Elems(lits[c]))
     /\ \A l, w \in Lit : watch[l][w] > 0 => Follows({-l, w})
     /\ \A i \in 1 .. Len(trail) : LevelOf(trail[i]) = 0 => Follows({trail[i]})
     /\ pc = "learn" => Follows(Elems(learnt))

(* The learnt clause asserts its first literal where the search resumes:   *)
(* that literal is open and all others are false, at no higher level than  *)
(* the one backtracked to.                                                 *)
LearntAsserts ==
  pc = "learn" =>
    /\ learnt # <<>> /\ Eval(learnt[1]) = 0
    /\ \A i \in 2 .. Len(learnt) : Eval(learnt[i]) = -1
    /\ Len(learnt) > 1 => LevelOf(learnt[2]) = DecisionLevel

(* What an answer True asks of the client: no clause has two literals, or  *)
(* one twice, over variables it has declared not to be decided.  Nothing   *)
(* else would give both of them values.                                    *)
Decided(s) ==
  \A j, k \in DOMAIN s : j # k => VarOf(s[j]) \in DecVar \/ VarOf(s[k]) \in DecVar
MenuDecided == \A i \in DOMAIN Menu : Decided(Menu[i])

(* Answers, when solve() is about to return them.                          *)
Formula == cnf \cup Units(Elems(assumps))
SatSound ==
  pc = "finish" /\ stat = "sat" => \A C \in Formula : \E l \in C : Eval(l) = 1
UnsatSound == pc = "finish" /\ stat = "unsat" => Models(Formula) = {}

(* The conflicting literals form a clause that follows from the client's   *)
(* clauses, made of negated assumptions; the failed assumption itself may  *)
(* be in it only when it is false at level 0.                              *)
ConflictsExplain ==
  pc = "finish" /\ stat = "unsat" /\ finals # {} =>
    /\ Entails(cnf, finals)
    /\ \A l \in finals :
         \/ -l \in Elems(assumps)
         \/ l \in Elems(assumps) /\ Eval(l) = -1 /\ LevelOf(l) = 0

(* A solver that has given up on its clauses is right.                     *)
InsaneIsUnsat == ~sane => Models(cnf) = {}

(* When implication() has returned without a conflict no clause, added or  *)
(* learnt, is false, and none is unit unless both its watches rest on its  *)
(* one open literal.                                                       *)
AfterImplication == pc \in {"check", "sweep", "reduce", "decide"}
PropagationComplete == AfterImplication => AllPropagated

-----------------------------------------------------------------------------
(***************************************************************************)
(* Properties of steps and of whole behaviours.                            *)
(***************************************************************************)

(* The engine implements the oracle its header promises.  While            *)
(* add_clause() propagates a unit the oracle has already taken the clause. *)
InSolve == pc # "idle" /\ ~(pc = "imply" /\ cont = "add")
Oracle == INSTANCE SatOracle WITH
  query <- Elems(assumps),
  busy <- InSolve,
  answer <- IF pc = "idle" THEN stat ELSE "none"
ImplementsOracle == Oracle!OracleSpec

(* The engine keeps the contract of the trail.                             *)
ImplementsTrail == TrailSpec

(* A clause in use as a reason is never deleted or taken apart: the reason *)
(* of a variable that stays assigned names the same clause, with the same  *)
(* implied literal in front, for as long as the assignment lasts.          *)
ReasonStays ==
  [][\A v \in Var : val[v] # 0 /\ val'[v] = val[v] =>
       /\ reason'[v] = reason[v]
       /\ reason[v] \in ClauseId =>
            lits'[reason[v]] # <<>> /\ wl0(reason[v])' = wl0(reason[v])]_vars

(* Every call of solve() returns.                                          *)
SolveReturns == pc # "idle" ~> pc = "idle"

(* Once the search has been told to stop, or a budget is exhausted, solve()*)
(* returns, also when it is in the middle of a run of conflicts, where it  *)
(* does not look at the budget.                                            *)
StopHonoured == (pc \notin {"idle", "entry"} /\ ~CheckBudget) ~> pc = "idle"

-----------------------------------------------------------------------------
(***************************************************************************)
(* What the sources say and the code does not do.                          *)
(***************************************************************************)

(* A stop requested after solve() was called stays in effect until solve() *)
(* returns (SatSolverImpl.h: stop() is meant to be called asynchronously   *)
(* by an interrupt handler or by another thread).                          *)
StopStaysInEffect == pc # "idle" /\ stopped => ~goOn

(* The implications of what is assigned have been made when the search     *)
(* goes on (comments at the call of implication() in search() and in the   *)
(* loop of implication() itself): no clause is left unit.                  *)
ImplicationsMade == AfterImplication => NoUnits

(* The conflicts are negated assumptions (conflict_test.cc), also when an  *)
(* assumption is false at level 0.                                         *)
FinalsAreAssumptions ==
  pc = "finish" /\ stat = "unsat" => \A l \in finals : -l \in Elems(assumps)

(* conflict_literals() speaks of the query just answered (SatSolver.h),    *)
(* not of an earlier one.                                                  *)
ConflictsAreCurrent ==
  pc = "idle" /\ stat = "unsat" => Vars(conflicts) \subseteq Vars(Elems(assumps))
=============================================================================
