----------------------------- MODULE MCSatCore -----------------------------
(* Instances of SatCore for TLC: the formulas clients may build and the    *)
(* assumptions they may make.                                              *)
EXTENDS SatCore

(* The clients of all instances take care of their undecided variables.    *)
ASSUME MenuAssumption == MenuDecided

VarsAll == 1 .. NVar
ShortLimit == {1}
NoBudgets == {}
SomeBudgets == {<<2, 0>>, <<0, 5>>}
BothPhases == {-1, 1}
Negative == {-1}
FirstUip == {"uip1"}
BothUips == {"uip1", "uip2"}

(* Incremental use with three variables: a ternary clause, a unit that     *)
(* arrives late, a clause with a repeated literal, contradictory ends.     *)
IncMenu ==
  << <<1, 2, 3>>, <<1, -2>>, <<-1, -1, 2>>, <<2, -3>>, <<-1, -2>>, <<1>> >>
IncAssumptions == {<<>>, <<-3, 2>>, <<1, -1>>}

(* A client that adds the whole Menu before it solves: the same steps, of  *)
(* fewer formulas.                                                         *)
WholeMenu == menuPos' <= menuPos + 1 /\ (pc' = "entry" => menuPos = Len(Menu))

NoAssumptions == {<<>>}
Positive == {1}
SomeSlack == {0, 3}

(* Clauses from which both 1, 2, 3 and their negations are learnt as       *)
(* clauses, over the same variables: the younger may be locked when the    *)
(* learnt clauses are reduced.                                             *)
LockMenu == << <<-1, -3, 4>>, <<-2, -3, -4>>, <<1, 3, 4>>, <<2, 3, -4>> >>

(* Its clients to be interrupted: variable 4 is never decided, and of the  *)
(* assumptions the last contradicts the others.  With restarts the learnt  *)
(* clauses meet on an empty trail.                                         *)
FirstThree == {1, 2, 3}
LockAssumptions == {<<>>, <<1, 2, 3>>}
LowSlack == {0, 1}

(* Five variables: 3 is implied by 1 and 2, so that the clause learnt from *)
(* a conflict of 4 with 3 may drop -3 only if it holds both -1 and -2.     *)
MinimalMenu == << <<-1, -2, 3>>, <<-1, -4, 5>>, <<-3, -4, -5>> >>

(* 1 gives 2 and 3 through binary clauses, which conflict with 4: SaUIP2   *)
(* learns a clause with -1 in it twice.                                    *)
TwiceMenu == << <<-1, 2>>, <<-2, 1>>, <<-1, 3>>, <<-2, -4, 5>>, <<-3, -4, -5>> >>

(* One formula, whole: the first or the second with SaUIP1, the third with  *)
(* SaUIP2.  Variable 5 is never decided.                                   *)
FirstFour == 1 .. 4
LearnMenu == LockMenu \o MinimalMenu \o TwiceMenu
Second == Len(LockMenu)
Third == Len(LockMenu \o MinimalMenu)
StartsOf(a) == IF a = "uip1" THEN {0, Second} ELSE {Third}
EndsOf(a) == IF a = "uip1" THEN {Second, Third} ELSE {Len(LearnMenu)}
OneFormula ==
  /\ menuPos' # menuPos =>
       IF menuPos = 0 THEN menuPos' - 1 \in StartsOf(analyzer)
       ELSE menuPos' = menuPos + 1 /\ menuPos \notin EndsOf(analyzer)
  /\ pc' = "entry" => menuPos \in EndsOf(analyzer)

(* Units and assumptions they contradict, then contradictory units.        *)
FinalsMenu == << <<1, 2, 3>>, <<-1>>, <<-3, 2>>, <<1>> >>
FinalsAssumptions == {<<>>, <<2, 1>>, <<3, -2>>}

(* A formula whose every solution has 3 true, to be interrupted.           *)
StopMenu == << <<1, 2, 3>>, <<1, -2, 3>>, <<-1, 2>>, <<-1, -2, 3>> >>
StopAssumptions == {<<>>, <<-3>>}
=============================================================================
