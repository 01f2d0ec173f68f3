------------------------------ MODULE SatLits ------------------------------
(***************************************************************************)
(* Literals, ternary values and clauses of the ym-sat core                 *)
(* (c++-src/ymsat/include/Literal.h, Reason.h, Watcher.h, SatCore.h) and   *)
(* the textbook semantics of a CNF, which the solver is judged by.         *)
(*                                                                         *)
(* The code numbers variables from 0 and packs the polarity in bit 0 of    *)
(* the index; here variable v is 1 .. NVar and its literals are v and -v,  *)
(* so that the operator ~ of Literal is the unary minus.                   *)
(***************************************************************************)
EXTENDS Integers, FiniteSets, Sequences

CONSTANTS
  NVar,         (* number of variables the client may create             *)
  MaxClause     (* number of Clause objects that may be live at once     *)

ASSUME SizeAssumption == NVar \in Nat /\ MaxClause \in Nat

Var == 1 .. NVar
Lit == {l \in -NVar .. NVar : l # 0}
VarOf(l) == IF l > 0 THEN l ELSE -l
Vars(C) == {VarOf(l) : l \in C}

(* SatBool3: False, X, True.                                              *)
Bool3 == {-1, 0, 1}

(* SatCore::eval(Literal): the value of the variable, turned over when the *)
(* literal is negative.                                                    *)
ValueOf(v, l) == IF l > 0 THEN v[l] ELSE -v[-l]

(***************************************************************************)
(* Clause objects are numbered from NVar + 1: a Reason (or a Watcher) is   *)
(* either a literal or a clause, told apart by a tag bit in the code and   *)
(* by its range here.  None is Reason::None (a null pointer).              *)
(***************************************************************************)
ClauseId == NVar + 1 .. NVar + MaxClause
Watcher == Lit \cup ClauseId
None == 0
Reason == Watcher \cup {None}

Elems(s) == {s[i] : i \in DOMAIN s}

(***************************************************************************)
(* Semantics.  A clause is a set of literals, a formula a set of clauses.  *)
(***************************************************************************)
Assignment == [Var -> {-1, 1}]
Satisfies(a, C) == \E l \in C : ValueOf(a, l) = 1
Models(F) == {a \in Assignment : \A C \in F : Satisfies(a, C)}
Entails(F, C) == \A a \in Models(F) : Satisfies(a, C)
Units(A) == {{l} : l \in A}
=============================================================================
