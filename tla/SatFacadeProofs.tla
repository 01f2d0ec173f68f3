-------------------------- MODULE SatFacadeProofs --------------------------
(***************************************************************************)
(* The facade keeps what SatSolver.h promises, with any engine, any        *)
(* clauses, queries and budgets, and a timer that may fire at any time.    *)
(***************************************************************************)
EXTENDS SatFacade, TLAPS

(***************************************************************************)
(* Clauses and models.                                                     *)
(***************************************************************************)
LEMMA MoreClausesFewerModels ==
  ASSUME NEW F, NEW G, F \subseteq G
  PROVE  Models(G) \subseteq Models(F)
BY Zenon DEF Models

LEMMA EmptyClauseNoModel ==
  ASSUME NEW F, {} \in F
  PROVE  Models(F) = {}
BY Zenon DEF Models, Satisfies

LEMMA NothingAssumed ==
  ASSUME NEW F
  PROVE  F \cup Units({}) = F
BY Zenon DEF Units

LEMMA NoModelEntailsAll ==
  ASSUME NEW F, NEW C, Models(F) = {}
  PROVE  Entails(F, C)
BY Zenon DEF Entails

LEMMA NegatedLits ==
  ASSUME NEW A, A \subseteq Lit
  PROVE  Negated(A) \subseteq Lit
<1>1. \A l \in Lit : -l \in Lit
  BY SizeAssumption DEF Lit
<1> QED BY <1>1, Zenon DEF Negated

(* No assignment makes a literal and its negation true.                    *)
LEMMA NotBoth ==
  ASSUME NEW a \in Assignment, NEW l \in Lit,
         ValueOf(a, l) = 1, ValueOf(a, -l) = 1
  PROVE  FALSE
<1>1. l \in Int /\ l # 0 /\ -l \in Int
  BY SizeAssumption DEF Lit
<1>2. CASE l > 0
  <2>1. ValueOf(a, l) = a[l] /\ ValueOf(a, -l) = -a[l]
    BY <1>1, <1>2 DEF ValueOf
  <2> QED BY <2>1
<1>3. CASE ~(l > 0)
  <2>1. -l > 0
    BY <1>1, <1>3
  <2>2. ValueOf(a, l) = -a[-l] /\ ValueOf(a, -l) = a[-l]
    BY <1>1, <1>3, <2>1 DEF ValueOf
  <2> QED BY <2>2
<1> QED BY <1>2, <1>3

(* A clause over negated assumptions that follows refutes the query.       *)
LEMMA NegatedClauseRefutes ==
  ASSUME NEW A, A \subseteq Lit, NEW F, NEW C \in SUBSET Negated(A), Entails(F, C)
  PROVE  Models(F \cup Units(A)) = {}
<1> SUFFICES ASSUME NEW a \in Models(F \cup Units(A)) PROVE FALSE
  BY Zenon
<1>1. a \in Assignment /\ \A D \in F \cup Units(A) : Satisfies(a, D)
  BY Zenon DEF Models
<1>2. a \in Models(F)
  BY <1>1, Zenon DEF Models
<1>3. PICK m \in C : ValueOf(a, m) = 1
  BY <1>2, Zenon DEF Entails, Satisfies
<1>4. PICK l \in A : m = -l
  BY <1>3, Zenon DEF Negated
<1>5. {l} \in F \cup Units(A)
  BY <1>4, Zenon DEF Units
<1>6. ValueOf(a, l) = 1
  BY <1>1, <1>5, Zenon DEF Satisfies
<1>7. l \in Lit
  BY <1>4, Zenon
<1> QED BY <1>1, <1>3, <1>4, <1>6, <1>7, NotBoth, Zenon

(* What the search keeps for an assumption found false explains the answer.*)
LEMMA ExplanationFacts ==
  ASSUME query \subseteq Lit, NEW C \in Explanations
  PROVE  Explains(C) /\ C # {} /\ ~Satisfiable(query)
<1> DEFINE own == {D \in SUBSET Negated(query) : D # {} /\ Entails(cnf, D)}
           more == {D \cup {p} : D \in own, p \in {l \in query : Entails(cnf, {-l})}}
<1>0. C \in own \/ (type = "ymsat" /\ C \in more)
  BY SMT DEF Explanations
<1> HIDE DEF own, more
<1>1. CASE C \in own
  <2>1. C \in SUBSET Negated(query) /\ C # {} /\ Entails(cnf, C)
    BY <1>1, Zenon DEF own
  <2>2. ~Satisfiable(query)
    BY <2>1, NegatedClauseRefutes, Zenon DEF Satisfiable
  <2> QED BY <2>1, <2>2, Zenon DEF Explains
<1>2. CASE C \notin own
  <2>0. type = "ymsat" /\ C \in more
    BY <1>0, <1>2, Zenon
  <2>1. type = "ymsat" /\ \E D \in own : \E p \in query : C = D \cup {p}
    <3>1. \E D \in own : \E p \in {l \in query : Entails(cnf, {-l})} : C = D \cup {p}
      BY <2>0 DEF more
    <3> QED BY <2>0, <3>1, Zenon
  <2>2. PICK D \in own : \E p \in query : C = D \cup {p}
    BY <2>1, Zenon
  <2>2a. PICK p \in query : C = D \cup {p}
    BY <2>2, Zenon
  <2>3. D \in SUBSET Negated(query) /\ Entails(cnf, D)
    BY <2>2, Zenon DEF own
  <2>4. ~Satisfiable(query)
    BY <2>3, NegatedClauseRefutes, Zenon DEF Satisfiable
  <2>5. Entails(cnf, C)
    BY <2>2a, <2>3, Zenon DEF Entails, Satisfies
  <2>6. C \subseteq Negated(query) \cup query
    BY <2>2a, <2>3, Zenon
  <2> QED BY <2>1, <2>2a, <2>4, <2>5, <2>6, Zenon DEF Explains
<1> QED BY <1>1, <1>2

-----------------------------------------------------------------------------
(***************************************************************************)
(* Type correctness, action by action.                                     *)
(***************************************************************************)
LEMMA NoticedBoolean ==
  ASSUME ok \in BOOLEAN, NEW F
  PROVE  Noticed(F) \subseteq BOOLEAN
BY Zenon DEF Noticed

LEMMA InitTyped == Init => FacadeTypeOK
<1> SUFFICES ASSUME Init PROVE FacadeTypeOK
  OBVIOUS
<1>1. goOn \in BOOLEAN
  BY Zenon DEF Init
<1> QED BY <1>1 DEF Init, FacadeTypeOK

LEMMA ClientTyped == FacadeTypeOK /\ Client => FacadeTypeOK'
<1> SUFFICES ASSUME FacadeTypeOK, Client PROVE FacadeTypeOK'
  OBVIOUS
<1> USE DEF FacadeTypeOK, clientVars, callVars, budgetVars, answerVars, ghostVars
<1>1. ASSUME NEW C \in Clauses, AddClause(C) PROVE FacadeTypeOK'
  <2>1. ok' \in BOOLEAN
    BY <1>1, NoticedBoolean, Zenon DEF AddClause
  <2>2. cnf' \subseteq SUBSET Lit
    BY <1>1, FacadeAssumption, ZenonT(60) DEF AddClause
  <2> QED BY <1>1, <2>1, <2>2 DEF AddClause
<1>2. ASSUME NEW k \in Kinds, NEW n \in Amounts, SetBudget(k, n) PROVE FacadeTypeOK'
  <2>1. Limit(k, n) \in Nat \cup {-1}
    BY FacadeAssumption DEF Limit
  <2>2. limit' \in [Kinds -> Nat \cup {-1}]
    BY <1>2, <2>1 DEF SetBudget
  <2> QED BY <1>2, <2>2 DEF SetBudget
<1>3. ASSUME NEW A \in Queries, NEW t \in BOOLEAN, Call(A, t) PROVE FacadeTypeOK'
  <2>1. query' \subseteq Lit
    BY <1>3, FacadeAssumption, Zenon DEF Call
  <2>2. firedBefore' \in BOOLEAN /\ timed' \in BOOLEAN /\ fired' \in BOOLEAN /\ lost' \in BOOLEAN
    BY <1>3, Zenon DEF Call
  <2>3. timer' \in {"off", "armed", "fired"} /\ (timer' # "off" => timed')
    BY <1>3, Zenon DEF Call
  <2>4. solves' \in Nat
    BY <1>3 DEF Call
  <2> QED BY <1>3, <2>1, <2>2, <2>3, <2>4, Zenon DEF Call
<1> QED BY <1>1, <1>2, <1>3, Zenon DEF Client

LEMMA EnterTyped == FacadeTypeOK /\ Enter => FacadeTypeOK'
<1> SUFFICES ASSUME FacadeTypeOK, Enter PROVE FacadeTypeOK'
  OBVIOUS
<1> USE DEF FacadeTypeOK, clientVars, callVars, budgetVars, answerVars, ghostVars, Search, Return
<1>1. CASE EnterYmsat
  <2>1. ok' \in BOOLEAN
    BY <1>1, NoticedBoolean, Zenon DEF EnterYmsat
  <2> QED BY <1>1, <2>1 DEF EnterYmsat
<1>2. CASE EnterMiniSat
  <2>1. ok' \in BOOLEAN
    BY <1>2, NoticedBoolean, Zenon DEF EnterMiniSat
  <2> QED BY <1>2, <2>1 DEF EnterMiniSat
<1>3. CASE EnterMiniSat2
  BY <1>3 DEF EnterMiniSat2
<1>4. CASE EnterLingeling
  BY <1>4 DEF EnterLingeling
<1> QED BY <1>1, <1>2, <1>3, <1>4, Zenon DEF Enter

LEMMA RoundTyped == FacadeTypeOK /\ Round => FacadeTypeOK'
<1> SUFFICES ASSUME FacadeTypeOK, Round PROVE FacadeTypeOK'
  OBVIOUS
<1>1. count' \in [Kinds -> Nat]
  BY DEF Round, Burst, FacadeTypeOK, Kinds
<1>2. ok' \in BOOLEAN
  BY Zenon DEF Round, Contradiction, GiveUp, Refute, Complete, Decide, FacadeTypeOK
<1>3. found' \subseteq Lit
  <2>1. CASE Refute
    <3>1. query \subseteq Lit /\ found' \in Explanations
      BY <2>1, Zenon DEF Refute, FacadeTypeOK
    <3>2. found' \subseteq Negated(query) \cup query
      BY <3>1, ExplanationFacts, Zenon DEF Explains
    <3> QED BY <3>1, <3>2, NegatedLits, Zenon
  <2>2. CASE found' = found
    BY <2>2, Zenon DEF FacadeTypeOK
  <2> QED BY <2>1, <2>2, Zenon DEF Round, Contradiction, GiveUp, Complete, Decide
<1>4. stat' \in {"none", "sat", "unsat", "unknown"} /\ pc' \in {"search", "loop"} /\ pc = "search"
  BY DEF Round, Contradiction, GiveUp, Refute, Complete, Decide, FacadeTypeOK
<1> QED BY <1>1, <1>2, <1>3, <1>4
        DEF Round, FacadeTypeOK, clientVars, callVars, ghostVars

LEMMA RestTyped ==
  FacadeTypeOK /\ (LglSat \/ Restart \/ Finish \/ Leave \/ Fire \/ UNCHANGED vars) => FacadeTypeOK'
<1> SUFFICES ASSUME FacadeTypeOK, LglSat \/ Restart \/ Finish \/ Leave \/ Fire \/ UNCHANGED vars
             PROVE FacadeTypeOK'
  OBVIOUS
<1> USE DEF FacadeTypeOK, clientVars, callVars, budgetVars, answerVars, ghostVars
<1>1. CASE LglSat
  BY <1>1 DEF LglSat, Return
<1>2. CASE Restart
  BY <1>2 DEF Restart
<1>3. CASE Finish
  <2>1. ok' \in BOOLEAN /\ conflicts' \subseteq Lit
    BY <1>3, Zenon DEF Finish
  <2> QED BY <1>3, <2>1 DEF Finish
<1>4. CASE Leave
  BY <1>4 DEF Leave
<1>5. CASE Fire
  BY <1>5 DEF Fire
<1>6. CASE UNCHANGED vars
  BY <1>6 DEF vars
<1> QED BY <1>1, <1>2, <1>3, <1>4, <1>5, <1>6

LEMMA NextTyped == FacadeTypeOK /\ [Next]_vars => FacadeTypeOK'
BY ClientTyped, EnterTyped, RoundTyped, RestTyped, Zenon DEF Next, Engine, Done

(* The type invariant, with the timer running only during a timed call,    *)
(* holds for every engine and client.                                      *)
THEOREM FacadeAlwaysTypeOK == Spec => []FacadeTypeOK
BY InitTyped, NextTyped, PTL DEF Spec
-----------------------------------------------------------------------------
(***************************************************************************)
(* The inductive invariant.  FlagKnown: goOn is down only for a reason.    *)
(* Cause: that reason reaches the client with the answer X.  The others    *)
(* say what is known of an answer and of the literals that explain it, in  *)
(* the search, in the loop around it and on the way back.                  *)
(***************************************************************************)
FlagKnown ==
  /\ type \in Rearming =>
       goOn \/ fired \/ pc \in {"idle", "enter"} \/ (pc = "returned" /\ stat = "unsat")
  /\ type \in MiniSat2s => goOn \/ fired \/ firedBefore
Cause ==
  pc \in {"returned", "idle"} /\ stat = "unknown" =>
    BudgetUsedUp \/ fired \/ (type \in MiniSat2s /\ firedBefore)
InsaneNoModel == ~ok => Models(cnf) = {}
SearchClean == pc = "search" /\ type \in Budgeted => found = {}
AnswerKnown ==
  pc = "loop" =>
    /\ type # "lingeling" /\ stat \in {"sat", "unsat", "unknown"}
    /\ stat = "sat" => Satisfiable(query)
    /\ stat = "unsat" => ~Satisfiable(query)
    /\ type # "minisat" => (stat = "unsat" /\ Explains(found) /\ found # {}) \/
                           (found = {} /\ (stat = "unsat" => Models(cnf) = {}))
ConflictsKnown ==
  pc \in {"returned", "idle"} /\ stat = "unsat" /\ Reported => Explains(conflicts)

FacadeInv ==
  /\ FacadeTypeOK /\ FlagKnown /\ Cause /\ InsaneNoModel
  /\ SearchClean /\ AnswerKnown /\ ConflictsKnown
LEMMA InitInv == Init => FacadeInv
<1> SUFFICES ASSUME Init PROVE FacadeInv
  OBVIOUS
<1>1. FacadeTypeOK
  BY InitTyped
<1>2. type \in MiniSat2s => goOn
  BY DEF Init, Rearming, MiniSat2s
<1> QED BY <1>1, <1>2, Zenon
        DEF Init, FacadeInv, FlagKnown, Cause, InsaneNoModel, SearchClean, AnswerKnown, ConflictsKnown

(* What contradicts the clauses contradicts them with assumptions too.     *)
LEMMA UnsatUnderAssumptions ==
  ASSUME NEW F, NEW A, Models(F) = {}
  PROVE  Models(F \cup Units(A)) = {}
<1>1. F \subseteq F \cup Units(A)
  BY Zenon
<1> QED BY <1>1, MoreClausesFewerModels, Zenon

LEMMA ClientInv == FacadeInv /\ Client => FacadeInv'
<1> SUFFICES ASSUME FacadeInv, Client PROVE FacadeInv'
  OBVIOUS
<1>1. FacadeTypeOK'
  BY ClientTyped DEF FacadeInv
<1>2. ASSUME NEW C \in Clauses, AddClause(C) PROVE FacadeInv'
  <2>1. cnf' = cnf \cup {C} /\ stat' = "none" /\ pc' = "idle" /\ type' = type
    BY <1>2, Zenon DEF AddClause
  <2>2. InsaneNoModel'
    <3> SUFFICES ASSUME ~ok' PROVE Models(cnf') = {}
      BY Zenon DEF InsaneNoModel
    <3>1. CASE ~ok
      <4>1. Models(cnf) = {} /\ cnf \subseteq cnf'
        BY <3>1, <2>1, Zenon DEF FacadeInv, InsaneNoModel
      <4> QED BY <4>1, MoreClausesFewerModels, Zenon
    <3>2. CASE C = {}
      BY <3>2, <2>1, EmptyClauseNoModel, Zenon
    <3>3. CASE ok /\ C # {}
      BY <3>3, <1>2, <2>1, Zenon DEF AddClause, Noticed
    <3> QED BY <3>1, <3>2, <3>3, Zenon
  <2>3. FlagKnown' /\ Cause' /\ SearchClean' /\ AnswerKnown' /\ ConflictsKnown'
    <3>1. goOn' = goOn /\ fired' = fired /\ firedBefore' = firedBefore
      BY <1>2, Zenon DEF AddClause, ghostVars
    <3> QED BY <2>1, <3>1 DEF FacadeInv, FlagKnown, Cause, SearchClean, AnswerKnown, ConflictsKnown
  <2> QED BY <1>1, <2>2, <2>3, Zenon DEF FacadeInv
<1>3. ASSUME NEW k \in Kinds, NEW n \in Amounts, SetBudget(k, n) PROVE FacadeInv'
  <2>1. stat' = "none" /\ pc' = "idle" /\ type' = type /\ cnf' = cnf /\ ok' = ok
        /\ goOn' = goOn /\ fired' = fired /\ firedBefore' = firedBefore
    BY <1>3, Zenon DEF SetBudget, ghostVars, clientVars
  <2> QED BY <1>1, <2>1
          DEF FacadeInv, FlagKnown, Cause, InsaneNoModel, SearchClean, AnswerKnown, ConflictsKnown
<1>4. ASSUME NEW A \in Queries, NEW t \in BOOLEAN, Call(A, t) PROVE FacadeInv'
  <2>1. stat' = "none" /\ pc' = "enter" /\ type' = type /\ cnf' = cnf /\ ok' = ok /\ goOn' = goOn
    BY <1>4, Zenon DEF Call
  <2>2. firedBefore' <=> (firedBefore \/ fired)
    BY <1>4, Zenon DEF Call
  <2>3. FlagKnown'
    BY <2>1, <2>2, Zenon DEF FacadeInv, FlagKnown
  <2> QED BY <1>1, <2>1, <2>3
          DEF FacadeInv, Cause, InsaneNoModel, SearchClean, AnswerKnown, ConflictsKnown
<1> QED BY <1>2, <1>3, <1>4, Zenon DEF Client

LEMMA FireInv == FacadeInv /\ Fire => FacadeInv'
<1> SUFFICES ASSUME FacadeInv, Fire PROVE FacadeInv'
  OBVIOUS
<1>1. FacadeTypeOK'
  BY RestTyped DEF FacadeInv
<1>2. fired'
  BY Zenon DEF Fire
<1>3. UNCHANGED <<type, cnf, ok, pc, query, found, stat, conflicts>>
  BY Zenon DEF Fire, clientVars, callVars, answerVars
<1>4. FlagKnown' /\ Cause'
  BY <1>2, Zenon DEF FlagKnown, Cause
<1>5. InsaneNoModel' /\ SearchClean' /\ AnswerKnown' /\ ConflictsKnown'
  BY <1>3 DEF FacadeInv, InsaneNoModel, SearchClean, AnswerKnown, ConflictsKnown, Reported,
              Explains, Satisfiable
<1> QED BY <1>1, <1>4, <1>5, Zenon DEF FacadeInv

LEMMA NoticedSound ==
  ASSUME InsaneNoModel, ok' \in Noticed(cnf), cnf' = cnf
  PROVE  InsaneNoModel'
BY Zenon DEF InsaneNoModel, Noticed

LEMMA EnterInv == FacadeInv /\ Enter => FacadeInv'
<1> SUFFICES ASSUME FacadeInv, Enter PROVE FacadeInv'
  OBVIOUS
<1>1. FacadeTypeOK'
  BY EnterTyped DEF FacadeInv
<1>2. CASE EnterYmsat
  <2>1. type = "ymsat" /\ goOn' /\ found' = {}
    BY <1>2, Zenon DEF EnterYmsat
  <2>2. UNCHANGED <<type, cnf, query, fired, firedBefore>>
    BY <1>2, Zenon DEF EnterYmsat, clientVars, callVars
  <2>3. InsaneNoModel'
    BY <1>2, <2>2, NoticedSound, Zenon DEF EnterYmsat, FacadeInv
  <2>4. \/ pc' = "search"
        \/ pc' = "returned" /\ stat' = "unsat" /\ ~ok'
    BY <1>2, Zenon DEF EnterYmsat, Search, Return
  <2>5. pc' = "returned" => ~Reported'
    <3>1. pc' = "returned" => Models(cnf') = {}
      BY <2>3, <2>4, Zenon DEF InsaneNoModel
    <3> QED BY <3>1, <2>1, <2>2, UnsatUnderAssumptions DEF Reported, Satisfiable, MiniSat2s
  <2>6. FlagKnown'
    BY <2>1, Zenon DEF FlagKnown
  <2> QED BY <1>1, <2>1, <2>3, <2>4, <2>5, <2>6
          DEF FacadeInv, Cause, SearchClean, AnswerKnown, ConflictsKnown
<1>3. CASE EnterMiniSat
  <2>1. type = "minisat" /\ type' = "minisat" /\ cnf' = cnf
    BY <1>3, Zenon DEF EnterMiniSat, clientVars
  <2>2. InsaneNoModel'
    BY <1>3, <2>1, NoticedSound, Zenon DEF EnterMiniSat, FacadeInv
  <2>3. \/ pc' = "search" /\ goOn'
        \/ pc' = "returned" /\ stat' = "unsat"
    BY <1>3, Zenon DEF EnterMiniSat, Search, Return
  <2>4. FlagKnown'
    BY <2>1, <2>3 DEF FlagKnown, MiniSat2s
  <2> QED BY <1>1, <2>1, <2>2, <2>3, <2>4
          DEF FacadeInv, Cause, SearchClean, AnswerKnown, ConflictsKnown, Budgeted, Reported, MiniSat2s
<1>4. CASE EnterMiniSat2
  <2>1. type \in MiniSat2s /\ type' = type /\ found' = {}
    BY <1>4, Zenon DEF EnterMiniSat2, clientVars
  <2>2. UNCHANGED <<cnf, ok, goOn, query, fired, firedBefore>>
    BY <1>4, Zenon DEF EnterMiniSat2, clientVars, callVars, ghostVars
  <2>3. \/ pc' = "search"
        \/ pc' = "returned" /\ stat' = "unsat" /\ ~ok /\ conflicts' = {}
    BY <1>4, Zenon DEF EnterMiniSat2, Search, Return
  <2>4. pc' = "returned" => Explains(conflicts)'
    <3>1. pc' = "returned" => conflicts' = {} /\ Entails(cnf', {})
      BY <2>2, <2>3, NoModelEntailsAll, Zenon DEF FacadeInv, InsaneNoModel
    <3> QED BY <3>1, Zenon DEF Explains
  <2>5. FlagKnown' /\ InsaneNoModel'
    BY <2>1, <2>2 DEF FacadeInv, FlagKnown, InsaneNoModel, Rearming, MiniSat2s
  <2> QED BY <1>1, <2>1, <2>3, <2>4, <2>5
          DEF FacadeInv, Cause, SearchClean, AnswerKnown, ConflictsKnown
<1>5. CASE EnterLingeling
  <2>1. type = "lingeling" /\ type' = type /\ pc' = "search" /\ cnf' = cnf /\ ok' = ok
    BY <1>5, Zenon DEF EnterLingeling, Search, clientVars
  <2> QED BY <1>1, <2>1
          DEF FacadeInv, FlagKnown, Cause, InsaneNoModel, SearchClean, AnswerKnown, ConflictsKnown,
              Rearming, MiniSat2s, Budgeted
<1> QED BY <1>2, <1>3, <1>4, <1>5, Zenon DEF Enter

LEMMA RoundInv == FacadeInv /\ Round => FacadeInv'
<1> SUFFICES ASSUME FacadeInv, Round PROVE FacadeInv'
  OBVIOUS
<1>1. FacadeTypeOK'
  BY RoundTyped DEF FacadeInv
<1>2. pc = "search" /\ type # "lingeling" /\ UNCHANGED <<type, cnf, goOn, query, fired, firedBefore>>
  BY Zenon DEF Round, clientVars, callVars, ghostVars
<1>3. pc' \in {"search", "loop"}
  BY <1>2, Zenon DEF Round, Contradiction, GiveUp, Refute, Complete, Decide
<1>4. FlagKnown' /\ Cause' /\ ConflictsKnown'
  BY <1>2, <1>3 DEF FacadeInv, FlagKnown, Cause, ConflictsKnown
<1>5. type \in Budgeted => found = {}
  BY <1>2, Zenon DEF FacadeInv, SearchClean
<1>6. type # "minisat" => type \in Budgeted
  BY <1>2 DEF FacadeInv, FacadeTypeOK, Engines, Budgeted
<1>7. CASE Contradiction
  <2>1. stat' = "unsat" /\ pc' = "loop" /\ found' = found
    BY <1>7, Zenon DEF Contradiction
  <2>2. ~Satisfiable({}) => Models(cnf) = {}
    BY NothingAssumed, Zenon DEF Satisfiable
  <2>3. type # "minisat" => Models(cnf) = {} /\ ~Satisfiable({})
    BY <1>7, <2>2, Zenon DEF Contradiction
  <2>4. ~Satisfiable(query)
    <3>1. CASE type = "minisat"
      BY <1>7, <3>1, Zenon DEF Contradiction
    <3>2. CASE type # "minisat"
      BY <2>3, <3>2, UnsatUnderAssumptions, Zenon DEF Satisfiable
    <3> QED BY <3>1, <3>2, Zenon
  <2>5. InsaneNoModel'
    <3>1. ok' = ok
      BY <1>7, Zenon DEF Contradiction
    <3> QED BY <3>1, <1>2, Zenon DEF FacadeInv, InsaneNoModel
  <2>6. ~Satisfiable(query)'
    BY <2>4, <1>2, Zenon DEF Satisfiable
  <2>7. AnswerKnown'
    BY <1>2, <1>5, <1>6, <2>1, <2>3, <2>6 DEF AnswerKnown
  <2> QED BY <1>1, <1>4, <2>1, <2>5, <2>7 DEF FacadeInv, SearchClean
<1>8. CASE GiveUp
  <2>1. stat' = "unknown" /\ pc' = "loop" /\ found' = found /\ ok' = ok
    BY <1>8, Zenon DEF GiveUp
  <2> QED BY <1>1, <1>2, <1>4, <1>5, <1>6, <2>1 DEF FacadeInv, SearchClean, AnswerKnown, InsaneNoModel
<1>9. CASE Refute
  <2>1. stat' = "unsat" /\ pc' = "loop" /\ ok' = ok /\ found' \in Explanations
    BY <1>9, Zenon DEF Refute
  <2>2. Explains(found') /\ found' # {} /\ ~Satisfiable(query)
    BY <2>1, ExplanationFacts, Zenon DEF FacadeInv, FacadeTypeOK
  <2>3. Explains(found)' /\ ~Satisfiable(query)'
    BY <2>2, <1>2, Zenon DEF Explains, Satisfiable
  <2> QED BY <1>1, <1>2, <1>4, <2>1, <2>2, <2>3 DEF FacadeInv, SearchClean, AnswerKnown, InsaneNoModel
<1>10. CASE Complete
  <2>1. stat' = "sat" /\ pc' = "loop" /\ found' = found /\ ok' = ok /\ Satisfiable(query)
    BY <1>10, Zenon DEF Complete
  <2>2. Satisfiable(query)'
    BY <2>1, <1>2, Zenon DEF Satisfiable
  <2> QED BY <1>1, <1>2, <1>4, <1>5, <1>6, <2>1, <2>2
          DEF FacadeInv, SearchClean, AnswerKnown, InsaneNoModel
<1>11. CASE Decide
  BY <1>1, <1>2, <1>4, <1>5, <1>11 DEF Decide, FacadeInv, SearchClean, AnswerKnown, InsaneNoModel
<1> QED BY <1>7, <1>8, <1>9, <1>10, <1>11, Zenon DEF Round

LEMMA ReturnInv == FacadeInv /\ (LglSat \/ Restart \/ Finish \/ Leave) => FacadeInv'
<1> SUFFICES ASSUME FacadeInv, LglSat \/ Restart \/ Finish \/ Leave PROVE FacadeInv'
  OBVIOUS
<1>1. FacadeTypeOK'
  BY RestTyped, Zenon DEF FacadeInv
<1>2. UNCHANGED <<type, cnf, goOn, query, count, limit, fired, firedBefore>>
  BY Zenon DEF LglSat, Restart, Finish, Leave, clientVars, callVars, budgetVars, ghostVars
<1>3. CASE LglSat
  <2>1. type = "lingeling" /\ pc' = "returned" /\ stat' \in {"sat", "unsat"} /\ ok' = ok
    BY <1>3, Zenon DEF LglSat, Return
  <2> QED BY <1>1, <1>2, <2>1
          DEF FacadeInv, FlagKnown, Cause, InsaneNoModel, SearchClean, AnswerKnown, ConflictsKnown,
              Rearming, MiniSat2s, Reported
<1>4. CASE Restart
  <2>1. pc = "loop" /\ pc' = "search" /\ stat = "unknown" /\ found' = found /\ ok' = ok
    BY <1>4, Zenon DEF Restart, Restarts, answerVars
  <2>2. type \in Budgeted => found = {}
    BY <2>1 DEF FacadeInv, AnswerKnown, Budgeted, MiniSat2s
  <2>3. FlagKnown'
    BY <1>2, <2>1 DEF FacadeInv, FlagKnown
  <2> QED BY <1>1, <1>2, <2>1, <2>2, <2>3
          DEF FacadeInv, Cause, InsaneNoModel, SearchClean, AnswerKnown, ConflictsKnown
<1>5. CASE Finish
  <2>1. pc = "loop" /\ pc' = "returned" /\ stat' = stat
    BY <1>5, Zenon DEF Finish
  <2>2. CASE stat = "unknown"
    <3>1. ~Within(count) /\ ok' = ok
      BY <1>5, <2>2 DEF Finish, Restarts
    <3>2. ~goOn \/ BudgetUsedUp
      BY <3>1 DEF Within, BudgetUsedUp, FacadeInv, FacadeTypeOK
    <3>3. BudgetUsedUp' <=> BudgetUsedUp
      BY <1>2, Zenon DEF BudgetUsedUp
    <3>4. ~goOn => fired \/ (type \in MiniSat2s /\ firedBefore)
      BY <2>1 DEF FacadeInv, FlagKnown, AnswerKnown, FacadeTypeOK, Engines, Rearming, MiniSat2s
    <3>5. Cause'
      BY <1>2, <3>2, <3>3, <3>4, Zenon DEF Cause
    <3>6. FlagKnown'
      BY <1>2, <2>1, <2>2 DEF FacadeInv, FlagKnown
    <3> QED BY <1>1, <1>2, <2>1, <2>2, <3>1, <3>5, <3>6
            DEF FacadeInv, InsaneNoModel, SearchClean, AnswerKnown, ConflictsKnown
  <2>3. CASE stat # "unknown"
    <3>1. FlagKnown'
      BY <1>2, <2>1, <2>3 DEF FacadeInv, FlagKnown
    <3>2. Cause' /\ SearchClean' /\ AnswerKnown'
      BY <2>1, <2>3 DEF Cause, SearchClean, AnswerKnown
    <3>3. CASE stat = "unsat" /\ type # "minisat"
      <4>1. conflicts' = found /\ (ok' <=> ok /\ found # {})
        BY <1>5, <3>3, Zenon DEF Finish, InsaneAfter
      <4>2. found = {} => Models(cnf) = {}
        BY <2>1, <3>3 DEF FacadeInv, AnswerKnown
      <4>3. InsaneNoModel'
        BY <1>2, <4>1, <4>2, Zenon DEF FacadeInv, InsaneNoModel
      <4>4. Explains(found)
        <5>1. CASE found = {}
          <6>1. Entails(cnf, {})
            BY <4>2, <5>1, NoModelEntailsAll, Zenon
          <6> QED BY <5>1, <6>1, Zenon DEF Explains
        <5>2. CASE found # {}
          BY <5>2, <2>1, <3>3 DEF FacadeInv, AnswerKnown
        <5> QED BY <5>1, <5>2, Zenon
      <4>5. Explains(conflicts)'
        BY <1>2, <4>1, <4>4, Zenon DEF Explains
      <4> QED BY <1>1, <3>1, <3>2, <4>3, <4>5, Zenon DEF FacadeInv, ConflictsKnown
    <3>4. CASE ~(stat = "unsat" /\ type # "minisat")
      <4>1. ok' = ok
        BY <1>5, <3>4, Zenon DEF Finish
      <4> QED BY <1>1, <1>2, <2>1, <3>1, <3>2, <3>4, <4>1
              DEF FacadeInv, InsaneNoModel, ConflictsKnown, Reported, MiniSat2s
    <3> QED BY <3>3, <3>4, Zenon
  <2> QED BY <2>2, <2>3, Zenon
<1>6. CASE Leave
  <2>1. pc = "returned" /\ pc' = "idle" /\ UNCHANGED <<ok, found, stat, conflicts>>
    BY <1>6, Zenon DEF Leave, answerVars
  <2>2. FlagKnown'
    BY <1>2, <2>1 DEF FacadeInv, FlagKnown
  <2>3. Cause'
    BY <1>2, <2>1 DEF FacadeInv, Cause, BudgetUsedUp
  <2>4. ConflictsKnown'
    BY <1>2, <2>1 DEF FacadeInv, ConflictsKnown, Reported, Explains, Satisfiable
  <2> QED BY <1>1, <1>2, <2>1, <2>2, <2>3, <2>4 DEF FacadeInv, InsaneNoModel, SearchClean, AnswerKnown
<1> QED BY <1>3, <1>4, <1>5, <1>6, Zenon

LEMMA StutterInv == FacadeInv /\ UNCHANGED vars => FacadeInv'
<1> SUFFICES ASSUME FacadeInv, UNCHANGED vars PROVE FacadeInv'
  OBVIOUS
<1>1. UNCHANGED <<type, cnf, ok, goOn, count, limit, pc, query, found, stat, conflicts, fired, firedBefore>>
  BY Zenon DEF vars, clientVars, callVars, budgetVars, answerVars, ghostVars
<1>2. FacadeTypeOK'
  BY RestTyped, Zenon DEF FacadeInv
<1> QED BY <1>1, <1>2
        DEF FacadeInv, FlagKnown, Cause, BudgetUsedUp, InsaneNoModel, SearchClean, AnswerKnown,
            ConflictsKnown, Reported, Explains, Satisfiable

LEMMA NextInv == FacadeInv /\ [Next]_vars => FacadeInv'
BY ClientInv, FireInv, EnterInv, RoundInv, ReturnInv, StutterInv, Zenon DEF Next, Engine, Done

LEMMA AlwaysInv == Spec => []FacadeInv
BY InitInv, NextInv, PTL DEF Spec

(* An answer X is due to a budget, to the timer of the call or, in the     *)
(* MiniSat2 engines, to that of an earlier call: for every engine, every   *)
(* client, and a timer that may fire between any two steps.                *)
THEOREM FacadeUnknownHasCause == Spec => []UnknownHasCause
<1>1. FacadeInv => UnknownHasCause
  BY DEF FacadeInv, Cause, UnknownHasCause
<1> QED BY <1>1, AlwaysInv, PTL

(* Conflict literals that an engine reports belong to the query just       *)
(* answered, and form a clause that follows from the clauses.              *)
THEOREM FacadeConflictsOfThisQuery == Spec => []ConflictsOfThisQuery
<1>1. FacadeInv => ConflictsOfThisQuery
  BY DEF FacadeInv, ConflictsKnown, ConflictsOfThisQuery
<1> QED BY <1>1, AlwaysInv, PTL
-----------------------------------------------------------------------------
(***************************************************************************)
(* Refinement: the oracle takes the query when solve() is called, and      *)
(* replies when the engine has returned; all between and after stutters.   *)
(***************************************************************************)
Busy == pc \notin {"idle", "returned"}
Answer == IF pc \in {"idle", "returned"} THEN stat ELSE "none"

LEMMA SameMeaning ==
  /\ \A F : Oracle!Models(F) = Models(F)
  /\ \A F, C : Oracle!Entails(F, C) = Entails(F, C)
  /\ \A A : Oracle!Units(A) = Units(A)
  /\ Oracle!Lit = Lit
<1>1. Oracle!Lit = Lit /\ \A A : Oracle!Units(A) = Units(A)
  BY Zenon DEF Oracle!Lit, Lit, Oracle!Units, Units
<1>2. Oracle!Assignment = Assignment
  BY Zenon DEF Oracle!Assignment, Assignment, Oracle!Var, Var
<1>3. \A a, C : Oracle!Satisfies(a, C) <=> Satisfies(a, C)
  BY Zenon DEF Oracle!Satisfies, Satisfies, Oracle!ValueOf, ValueOf
<1>4. \A F : Oracle!Models(F) = Models(F)
  BY <1>2, <1>3, Zenon DEF Oracle!Models, Models
<1>5. \A F, C : Oracle!Entails(F, C) = Entails(F, C)
  BY <1>3, <1>4, Zenon DEF Oracle!Entails, Entails
<1> QED BY <1>1, <1>4, <1>5

LEMMA InitOracle == Init => Oracle!OracleInit
BY DEF Init, Oracle!OracleInit

(* A reply, from the engine's answer and what it makes of the literals.    *)
LEMMA ReplyOracle ==
  ASSUME FacadeTypeOK', Busy, ~Busy', NEW r \in {"sat", "unsat", "unknown"}, Answer' = r,
         cnf' = cnf, query' = query,
         r = "sat" => Satisfiable(query), r = "unsat" => ~Satisfiable(query),
         r # "unsat" => conflicts' = conflicts,
         conflicts' # conflicts => Entails(cnf, conflicts')
  PROVE  Oracle!OracleNext
<1>1. Oracle!Reply(r)
  BY SameMeaning, Zenon DEF Oracle!Reply, Busy, Answer, Satisfiable
<1>2. conflicts' \in SUBSET Oracle!Lit
  BY SameMeaning DEF FacadeTypeOK
<1> QED BY <1>1, <1>2, Zenon DEF Oracle!OracleNext

LEMMA ClientOracle == FacadeInv /\ Client => Oracle!OracleNext
<1> SUFFICES ASSUME FacadeInv, Client PROVE Oracle!OracleNext
  OBVIOUS
<1>1. ASSUME NEW C \in Clauses, AddClause(C) PROVE Oracle!OracleNext
  <2>1. C \in SUBSET Oracle!Lit
    BY SameMeaning, FacadeAssumption, Zenon
  <2>2. pc = "idle" /\ pc' = "idle" /\ stat' = "none" /\ cnf' = cnf \cup {C}
        /\ query' = query /\ conflicts' = conflicts
    BY <1>1, Zenon DEF AddClause, callVars
  <2>3. Oracle!Add(C)
    BY <2>2 DEF Oracle!Add
  <2> QED BY <2>1, <2>3, Zenon DEF Oracle!OracleNext
<1>2. ASSUME NEW k \in Kinds, NEW n \in Amounts, SetBudget(k, n) PROVE Oracle!OracleNext
  <2>1. pc = "idle" /\ pc' = "idle" /\ stat' = "none" /\ cnf' = cnf
        /\ query' = query /\ conflicts' = conflicts
    BY <1>2, Zenon DEF SetBudget, callVars, clientVars
  <2>2. Oracle!Forget
    BY <2>1 DEF Oracle!Forget
  <2> QED BY <2>2, Zenon DEF Oracle!OracleNext
<1>3. ASSUME NEW A \in Queries, NEW t \in BOOLEAN, Call(A, t) PROVE Oracle!OracleNext
  <2>1. A \in SUBSET Oracle!Lit
    BY SameMeaning, FacadeAssumption, Zenon
  <2>2. pc = "idle" /\ pc' = "enter" /\ stat' = "none" /\ cnf' = cnf
        /\ query' = A /\ conflicts' = conflicts
    BY <1>3, Zenon DEF Call
  <2>3. Oracle!Ask(A)
    BY <2>2 DEF Oracle!Ask
  <2> QED BY <2>1, <2>3, Zenon DEF Oracle!OracleNext
<1> QED BY <1>1, <1>2, <1>3, Zenon DEF Client

LEMMA EngineOracle ==
  FacadeInv /\ (Engine \/ LglSat) => Oracle!OracleNext \/ UNCHANGED <<cnf, query, Busy, Answer, conflicts>>
<1> SUFFICES ASSUME FacadeInv, Engine \/ LglSat
             PROVE  Oracle!OracleNext \/ UNCHANGED <<cnf, query, Busy, Answer, conflicts>>
  OBVIOUS
<1>1. FacadeInv'
  BY EnterInv, RoundInv, ReturnInv, Zenon DEF Engine
<1>2. FacadeTypeOK'
  BY <1>1, Zenon DEF FacadeInv
<1>3. cnf' = cnf /\ query' = query
  BY Zenon DEF Engine, Enter, EnterYmsat, EnterMiniSat, EnterMiniSat2, EnterLingeling, Round, Restart,
               Finish, Leave, LglSat, clientVars, callVars
<1>4. CASE Enter
  <2>1. pc = "enter"
    BY <1>4, Zenon DEF Enter, EnterYmsat, EnterMiniSat, EnterMiniSat2, EnterLingeling
  <2>2. CASE pc' = "search"
    <3>1. conflicts' = conflicts
      BY <1>4, <2>2
         DEF Enter, EnterYmsat, EnterMiniSat, EnterMiniSat2, EnterLingeling, Search, Return
    <3> QED BY <1>3, <2>1, <2>2, <3>1 DEF Busy, Answer
  <2>3. CASE pc' # "search"
    <3>1. pc' = "returned" /\ stat' = "unsat"
      BY <1>4, <2>3, Zenon
         DEF Enter, EnterYmsat, EnterMiniSat, EnterMiniSat2, EnterLingeling, Search, Return
    <3>2. ~ok'
      BY <1>4, <2>3, Zenon
         DEF Enter, EnterYmsat, EnterMiniSat, EnterMiniSat2, EnterLingeling, Search, Return
    <3>3. Models(cnf) = {}
      BY <1>1, <1>3, <3>2, Zenon DEF FacadeInv, InsaneNoModel
    <3>4. ~Satisfiable(query)
      BY <3>3, UnsatUnderAssumptions, Zenon DEF Satisfiable
    <3>5. Entails(cnf, conflicts')
      BY <3>3, NoModelEntailsAll, Zenon
    <3>6. Busy /\ ~Busy' /\ Answer' = "unsat"
      BY <2>1, <3>1 DEF Busy, Answer
    <3> QED BY <1>2, <1>3, <3>4, <3>5, <3>6, ReplyOracle
  <2> QED BY <2>2, <2>3, Zenon
<1>5. CASE Round \/ Restart
  <2>1. pc \in {"search", "loop"} /\ pc' \in {"search", "loop"} /\ conflicts' = conflicts
    BY <1>5, Zenon DEF Round, Contradiction, GiveUp, Refute, Complete, Decide, Restart, answerVars
  <2> QED BY <1>3, <2>1 DEF Busy, Answer
<1>6. CASE Finish
  <2>1. pc = "loop" /\ pc' = "returned" /\ stat' = stat
    BY <1>6, Zenon DEF Finish
  <2>2. /\ stat \in {"sat", "unsat", "unknown"}
        /\ stat = "sat" => Satisfiable(query)
        /\ stat = "unsat" => ~Satisfiable(query)
        /\ type # "minisat" =>
             Explains(found) \/ (found = {} /\ (stat = "unsat" => Models(cnf) = {}))
    BY <2>1, Zenon DEF FacadeInv, AnswerKnown
  <2>3. stat # "unsat" => conflicts' = conflicts
    BY <1>6, Zenon DEF Finish
  <2>4. conflicts' # conflicts => Entails(cnf, conflicts')
    <3> SUFFICES ASSUME conflicts' # conflicts PROVE Entails(cnf, conflicts')
      BY Zenon
    <3>1. stat = "unsat" /\ type # "minisat" /\ conflicts' = found
      BY <1>6, Zenon DEF Finish
    <3> QED BY <2>2, <3>1, NoModelEntailsAll, Zenon DEF Explains
  <2>5. Busy /\ ~Busy' /\ Answer' = stat
    BY <2>1 DEF Busy, Answer
  <2> QED BY <1>2, <1>3, <2>2, <2>3, <2>4, <2>5, ReplyOracle
<1>7. CASE Leave
  <2>1. pc = "returned" /\ pc' = "idle" /\ stat' = stat /\ conflicts' = conflicts
    BY <1>7, Zenon DEF Leave, answerVars
  <2> QED BY <1>3, <2>1 DEF Busy, Answer
<1>8. CASE LglSat
  <2>1. pc = "search" /\ pc' = "returned" /\ conflicts' = conflicts
        /\ stat' = IF Satisfiable(query) THEN "sat" ELSE "unsat"
    BY <1>8, Zenon DEF LglSat, Return
  <2>2. Busy /\ ~Busy' /\ Answer' = stat' /\ stat' \in {"sat", "unsat", "unknown"}
    BY <2>1 DEF Busy, Answer
  <2>3. /\ stat' = "sat" => Satisfiable(query)
        /\ stat' = "unsat" => ~Satisfiable(query)
    BY <2>1
  <2> QED BY <1>2, <1>3, <2>1, <2>2, <2>3, ReplyOracle
<1> QED BY <1>4, <1>5, <1>6, <1>7, <1>8, Zenon DEF Engine

LEMMA StepOracle ==
  FacadeInv /\ [Next]_vars => [Oracle!OracleNext]_<<cnf, query, Busy, Answer, conflicts>>
<1> SUFFICES ASSUME FacadeInv, [Next]_vars
             PROVE  Oracle!OracleNext \/ UNCHANGED <<cnf, query, Busy, Answer, conflicts>>
  OBVIOUS
<1>1. CASE Client
  BY <1>1, ClientOracle, Zenon
<1>2. CASE Engine \/ LglSat
  BY <1>2, EngineOracle, Zenon
<1>3. CASE Fire \/ UNCHANGED vars
  <2>1. UNCHANGED <<cnf, query, pc, stat, conflicts>>
    BY <1>3, Zenon DEF Fire, vars, clientVars, callVars, answerVars
  <2> QED BY <2>1 DEF Busy, Answer
<1> QED BY <1>1, <1>2, <1>3, Zenon DEF Next, Done

(* Behind the facade every engine keeps what SatSolver.h promises: the     *)
(* answers are right and the conflict literals follow from the clauses,    *)
(* whenever the timer fires and whatever budgets the client sets.          *)
THEOREM FacadeKeepsPromise == Spec => FacadeImplementsOracle
<1>1. FacadeInv /\ [Next]_vars => [Oracle!OracleNext]_(Oracle!oracleVars)
  BY StepOracle DEF Oracle!oracleVars, Busy, Answer
<1> QED BY <1>1, InitOracle, AlwaysInv, PTL DEF Spec, FacadeImplementsOracle, Oracle!OracleSpec
=============================================================================
