----------------------------- MODULE SatFacade -----------------------------
(***************************************************************************)
(* SatSolver::solve() (c++-src/SatSolver.cc) with its time limit, over the *)
(* five engines new_impl() may put behind it: ymsat, and the adapters of   *)
(* MiniSat, MiniSat2, GlueMiniSat2 and Lingeling.  A timer started before  *)
(* the engine's solve() and stopped after it calls stop() from a thread of *)
(* its own; the engines differ in what stop() sets, whether solve() resets *)
(* it, when the search looks at it, how budgets are counted, and in what   *)
(* becomes of the conflict literals.                                       *)
(*                                                                         *)
(* The search itself is abstract: a round is a burst of conflicts and the  *)
(* test that follows a propagation without one.  SatCore is ymsat's search *)
(* in full; the sources of the others are in MiniSat/Solver.C,             *)
(* MiniSat2/Solver.cc, glueminisat-2.2.8/Solver.cc and lingeling/lglib.c.  *)
(***************************************************************************)
EXTENDS SatLits

CONSTANTS
  Clauses,      (* clauses the client may add                              *)
  Queries,      (* sets of literals it may assume                          *)
  Amounts,      (* budgets it may set                                      *)
  MaxSolves,    (* bound: calls of solve()                                 *)
  MaxCount      (* bound: conflicts and propagations counted               *)

ASSUME FacadeAssumption ==
  /\ Clauses \subseteq SUBSET Lit /\ Queries \subseteq SUBSET Lit
  /\ Amounts \subseteq Nat
  /\ MaxSolves \in Nat /\ MaxCount \in Nat

MiniSat2s == {"minisat2", "glueminisat2"}
Rearming == {"ymsat", "minisat"}          (* solve() sets mGoOn            *)
Budgeted == {"ymsat"} \cup MiniSat2s      (* the others ignore budgets     *)
Engines == {"ymsat", "minisat", "lingeling"} \cup MiniSat2s
Kinds == {"conflict", "propagation"}

VARIABLES
  type,        (* SatInitParam::type()                                     *)
  cnf,         (* the clauses the client has added                         *)
  ok,          (* sane()                                                   *)
  goOn,        (* mGoOn, or ~asynch_interrupt                              *)
  count,       (* conflicts and propagations so far                        *)
  limit,       (* their budgets, -1 for none                               *)
  timer,       (* the IntervalTimer                                        *)
  pc,
  query,       (* the assumptions                                          *)
  timed,       (* time_limit > 0                                           *)
  found,       (* the engine's own conflict literals                       *)
  stat,        (* the answer, "none" when the client has done more since   *)
  conflicts,   (* mConflictLiterals                                        *)
  solves,      (* ghost: calls of solve()                                  *)
  fired,       (* ghost: the timer of this call has called stop()          *)
  firedBefore, (* ghost: the timer of an earlier call has                  *)
  lost         (* ghost: it did before solve() set mGoOn                   *)

clientVars == <<type, cnf, solves>>
callVars == <<query, timed>>
budgetVars == <<count, limit>>
answerVars == <<found, stat, conflicts>>
ghostVars == <<fired, firedBefore, lost>>
vars == <<clientVars, ok, goOn, budgetVars, timer, pc, callVars, answerVars, ghostVars>>

Init ==
  /\ type \in Engines
  /\ cnf = {} /\ ok = TRUE
  /\ goOn = (type \notin Rearming)
  /\ count = [k \in Kinds |-> 0] /\ limit = [k \in Kinds |-> -1]
  /\ timer = "off" /\ pc = "idle"
  /\ query = {} /\ timed = FALSE
  /\ found = {} /\ stat = "none" /\ conflicts = {}
  /\ solves = 0 /\ fired = FALSE /\ firedBefore = FALSE /\ lost = FALSE

-----------------------------------------------------------------------------
(***************************************************************************)
(* The client, between two queries.                                        *)
(***************************************************************************)
Satisfiable(A) == Models(cnf \cup Units(A)) # {}

(* Level-0 propagation may or may not meet the contradiction of F.         *)
Noticed(F) == IF ok /\ Models(F) = {} THEN BOOLEAN ELSE {ok}

(* add_clause(); SatCore::add_clause() throws once mSane is lost.          *)
AddClause(C) ==
  /\ pc = "idle"
  /\ type = "ymsat" => ok
  /\ C \notin cnf
  /\ cnf' = cnf \cup {C}
  /\ \/ type = "lingeling" /\ UNCHANGED ok
     \/ type # "lingeling" /\ C = {} /\ ok' = FALSE
     \/ type # "lingeling" /\ C # {} /\ ok' \in Noticed(cnf \cup {C})
  /\ stat' = "none"
  /\ UNCHANGED <<type, solves, goOn, budgetVars, timer, pc, callVars, found, conflicts, ghostVars>>

(* ymsat limits the total, and takes 0 for no limit; the others limit what *)
(* is counted from now on.                                                 *)
Limit(k, n) ==
  IF type # "ymsat" THEN count[k] + n ELSE IF n = 0 THEN -1 ELSE n

SetBudget(k, n) ==
  /\ pc = "idle" /\ type \in Budgeted
  /\ limit' = [limit EXCEPT ![k] = Limit(k, n)]
  /\ stat' = "none"
  /\ UNCHANGED <<clientVars, ok, goOn, count, timer, pc, callVars, found, conflicts, ghostVars>>

-----------------------------------------------------------------------------
(***************************************************************************)
(* SatSolver::solve() and the way into the engines.                        *)
(***************************************************************************)
Call(A, t) ==
  /\ pc = "idle" /\ solves < MaxSolves
  /\ solves' = solves + 1
  /\ query' = A /\ timed' = t
  /\ timer' = IF t THEN "armed" ELSE "off"
  /\ pc' = "enter" /\ stat' = "none"
  /\ fired' = FALSE /\ firedBefore' = (firedBefore \/ fired) /\ lost' = FALSE
  /\ UNCHANGED <<type, cnf, ok, goOn, budgetVars, found, conflicts>>

(* The timer's thread.                                                     *)
Fire ==
  /\ timer = "armed"
  /\ timer' = "fired" /\ fired' = TRUE
  /\ goOn' = (type = "lingeling" /\ goOn)
  /\ UNCHANGED <<clientVars, ok, budgetVars, pc, callVars, answerVars, firedBefore, lost>>

Return(answer) == stat' = answer /\ pc' = "returned"
Search == pc' = "search" /\ UNCHANGED stat

(* Variant: mGoOn keeps the value an earlier call left.                    *)
EnterYmsatStopped ==
  /\ pc = "enter" /\ type = "ymsat"
  /\ found' = {}
  /\ ok' \in Noticed(cnf)
  /\ IF ok' THEN Search ELSE Return("unsat")
  /\ UNCHANGED <<clientVars, goOn, budgetVars, timer, callVars, conflicts, fired, firedBefore, lost>>

(* SatCore::solve(): mGoOn and mConflicts, then reduce_CNF(); the early    *)
(* exit leaves the caller's conflicts alone.                               *)
EnterYmsat ==
  /\ pc = "enter" /\ type = "ymsat"
  /\ goOn' = TRUE /\ lost' = fired
  /\ found' = {}
  /\ ok' \in Noticed(cnf)
  /\ IF ok' THEN Search ELSE Return("unsat")
  /\ UNCHANGED <<clientVars, budgetVars, timer, callVars, conflicts, fired, firedBefore>>

(* MiniSat: simplifyDB(), then mGoOn.                                      *)
EnterMiniSat ==
  /\ pc = "enter" /\ type = "minisat"
  /\ ok' \in Noticed(cnf)
  /\ IF ok' THEN Search /\ goOn' = TRUE /\ lost' = fired
            ELSE Return("unsat") /\ UNCHANGED <<goOn, lost>>
  /\ UNCHANGED <<clientVars, budgetVars, timer, callVars, found, conflicts, fired, firedBefore>>

(* Variant: conflict.clear() is missing.                                   *)
EnterMiniSat2Uncleared ==
  /\ pc = "enter" /\ type \in MiniSat2s
  /\ count' = IF type = "minisat2" THEN count ELSE [k \in Kinds |-> 0]
  /\ IF ok THEN Search /\ UNCHANGED conflicts
           ELSE Return("unsat") /\ conflicts' = found
  /\ UNCHANGED <<clientVars, ok, goOn, limit, timer, callVars, found, ghostVars>>

(* MiniSat2: solve_() clears conflict, which the adapter copies after a    *)
(* False.  The adapter of GlueMiniSat2 clears the counters first.          *)
EnterMiniSat2 ==
  /\ pc = "enter" /\ type \in MiniSat2s
  /\ count' = IF type = "minisat2" THEN count ELSE [k \in Kinds |-> 0]
  /\ found' = {}
  /\ IF ok THEN Search /\ UNCHANGED conflicts
           ELSE Return("unsat") /\ conflicts' = {}
  /\ UNCHANGED <<clientVars, ok, goOn, limit, timer, callVars, ghostVars>>

EnterLingeling ==
  /\ pc = "enter" /\ type = "lingeling"
  /\ Search
  /\ UNCHANGED <<clientVars, ok, goOn, budgetVars, timer, callVars, found, conflicts, ghostVars>>

Enter == EnterYmsat \/ EnterMiniSat \/ EnterMiniSat2 \/ EnterLingeling

-----------------------------------------------------------------------------
(***************************************************************************)
(* search(): conflicts and propagations are counted, then                  *)
(***************************************************************************)
Within(n) == goOn /\ \A k \in Kinds : limit[k] = -1 \/ n[k] < limit[k]
BudgetUsedUp == \E k \in Kinds : limit[k] # -1 /\ count[k] >= limit[k]

Burst ==
  IF type \in Budgeted
  THEN /\ \E c, p \in 0 .. 1 : count' = [conflict |-> count["conflict"] + c,
                                         propagation |-> count["propagation"] + p]
       /\ \A k \in Kinds : count'[k] <= MaxCount
  ELSE UNCHANGED count

(* - a conflict at level 0 (in MiniSat: at the level of the assumptions)   *)
(*   ends the search, whatever the limits say; MiniSat's ok stays TRUE     *)
(*   even if nothing was assumed;                                          *)
Contradiction ==
  /\ ~Satisfiable(IF type = "minisat" THEN query ELSE {})
  /\ stat' = "unsat" /\ pc' = "loop"
  /\ UNCHANGED <<ok, found>>

(* - a limit, or a restart, ends it with X;                                *)
GiveUp == stat' = "unknown" /\ pc' = "loop" /\ UNCHANGED <<ok, found>>

(* - or an assumption is found false, and the clause over the assumptions  *)
(*   that explains it is kept; ymsat adds the assumption itself when it is *)
(*   false at level 0;                                                     *)
Negated(A) == {-l : l \in A}
Explanations ==
  LET own == {C \in SUBSET Negated(query) : C # {} /\ Entails(cnf, C)}
  IN  IF type = "ymsat"
      THEN own \cup {C \cup {p} : C \in own, p \in {l \in query : Entails(cnf, {-l})}}
      ELSE own
Refute ==
  /\ type # "minisat" /\ Within(count')
  /\ found' \in Explanations
  /\ stat' = "unsat" /\ pc' = "loop"
  /\ UNCHANGED ok

(* - or nothing is left to decide;                                         *)
Complete ==
  /\ Within(count') /\ Satisfiable(query)
  /\ stat' = "sat" /\ pc' = "loop"
  /\ UNCHANGED <<ok, found>>

(* - or a decision is made, and the search goes on.                        *)
Decide == Within(count') /\ UNCHANGED <<pc, stat, ok, found>>

Round ==
  /\ pc = "search" /\ type # "lingeling"
  /\ Burst
  /\ Contradiction \/ GiveUp \/ Refute \/ Complete \/ Decide
  /\ UNCHANGED <<clientVars, goOn, limit, timer, callVars, conflicts, ghostVars>>

(* lglsat() knows no limit, and an answer other than True is False.        *)
LglSat ==
  /\ pc = "search" /\ type = "lingeling"
  /\ Return(IF Satisfiable(query) THEN "sat" ELSE "unsat")
  /\ UNCHANGED <<clientVars, ok, goOn, budgetVars, timer, callVars, found, conflicts, ghostVars>>

-----------------------------------------------------------------------------
(***************************************************************************)
(* The loop of the engine's solve(), and the way back.                     *)
(***************************************************************************)
(* Variant: the loop looks at the answer alone.                            *)
RestartsAnyway == stat = "unknown"
Restarts == stat = "unknown" /\ Within(count)

Restart ==
  /\ pc = "loop" /\ Restarts
  /\ pc' = "search"
  /\ UNCHANGED <<clientVars, ok, goOn, budgetVars, timer, callVars, answerVars, ghostVars>>

(* Variant: False under assumptions is taken for False for good.           *)
InsaneAfterAll(literals) == TRUE
InsaneAfter(literals) == literals = {}

(* False without a conflict literal is for good; MiniSat's adapter leaves  *)
(* the conflict literals as they are.                                      *)
Finish ==
  /\ pc = "loop" /\ ~Restarts
  /\ pc' = "returned"
  /\ IF stat = "unsat" /\ type # "minisat"
     THEN conflicts' = found /\ ok' = (ok /\ ~InsaneAfter(found))
     ELSE UNCHANGED <<conflicts, ok>>
  /\ UNCHANGED <<clientVars, goOn, budgetVars, timer, callVars, found, stat, ghostVars>>

(* Variant: the timer runs on.                                             *)
LeaveRunning ==
  /\ pc = "returned"
  /\ pc' = "idle"
  /\ UNCHANGED <<clientVars, ok, goOn, budgetVars, timer, callVars, answerVars, ghostVars>>

(* itimer.stop(); sorting the conflict literals is beyond a set of them.   *)
Leave ==
  /\ pc = "returned"
  /\ timer' = "off" /\ pc' = "idle"
  /\ UNCHANGED <<clientVars, ok, goOn, budgetVars, callVars, answerVars, ghostVars>>

-----------------------------------------------------------------------------
Client ==
  \/ \E C \in Clauses : AddClause(C)
  \/ \E k \in Kinds, n \in Amounts : SetBudget(k, n)
  \/ \E A \in Queries, t \in BOOLEAN : Call(A, t)
Engine == Enter \/ Round \/ Restart \/ Finish \/ Leave
Done == pc = "idle" /\ solves = MaxSolves /\ UNCHANGED vars

Next == Client \/ Engine \/ LglSat \/ Fire \/ Done

Spec == Init /\ [][Next]_vars

(* The engine's thread runs, its bursts of conflicts end (each undoes a    *)
(* level), and a timer that is not stopped fires.  Of lglsat() nothing is  *)
(* known.                                                                  *)
FairSpec == Spec /\ WF_vars(Engine) /\ WF_vars(Fire)

-----------------------------------------------------------------------------
(***************************************************************************)
(* Properties.                                                             *)
(***************************************************************************)
(* Every variable has its type; the timer runs only during a timed call.   *)
FacadeTypeOK ==
  /\ type \in Engines /\ cnf \subseteq SUBSET Lit
  /\ ok \in BOOLEAN /\ goOn \in BOOLEAN
  /\ count \in [Kinds -> Nat] /\ limit \in [Kinds -> Nat \cup {-1}]
  /\ timer \in {"off", "armed", "fired"}
  /\ timer # "off" => timed /\ pc # "idle"
  /\ pc \in {"idle", "enter", "search", "loop", "returned"}
  /\ query \subseteq Lit /\ timed \in BOOLEAN
  /\ found \subseteq Lit /\ conflicts \subseteq Lit
  /\ stat \in {"none", "sat", "unsat", "unknown"}
  /\ solves \in Nat
  /\ fired \in BOOLEAN /\ firedBefore \in BOOLEAN /\ lost \in BOOLEAN

(* solve() answers X only if a budget is used up or a timer has fired: its *)
(* own or, in the MiniSat2 engines, whose interrupt nothing clears, that   *)
(* of an earlier call.                                                     *)
UnknownHasCause ==
  pc = "idle" /\ stat = "unknown" =>
    BudgetUsedUp \/ fired \/ (type \in MiniSat2s /\ firedBefore)

(* The same without the exception: the time limit of a call is its own.    *)
UnknownIsOfThisCall ==
  pc = "idle" /\ stat = "unknown" => BudgetUsedUp \/ fired

(* After False, conflict_literals() is a clause over the assumptions of    *)
(* this query that follows from the clauses, in the engines that fill it   *)
(* (ymsat does not when its clauses are contradictory by themselves).      *)
Explains(C) ==
  /\ C \subseteq Negated(query) \cup (IF type = "ymsat" THEN query ELSE {})
  /\ Entails(cnf, C)
Reported == type \in MiniSat2s \/ (type = "ymsat" /\ Satisfiable({}))
ConflictsOfThisQuery ==
  pc = "idle" /\ stat = "unsat" /\ Reported => Explains(conflicts)

(* Whatever the engine, the timer and the budgets do, the facade keeps     *)
(* what SatSolver.h promises of answers and conflict literals.             *)
Oracle == INSTANCE SatOracle WITH
  busy <- pc \notin {"idle", "returned"},
  answer <- IF pc \in {"idle", "returned"} THEN stat ELSE "none"
FacadeImplementsOracle == Oracle!OracleSpec

(* A call with a time limit returns, unless the timer fired before solve() *)
(* set mGoOn (or the engine is Lingeling, which cannot be stopped).        *)
TimedSolveReturns ==
  (timed /\ pc # "idle" /\ type # "lingeling") ~> (pc = "idle" \/ lost)
=============================================================================
