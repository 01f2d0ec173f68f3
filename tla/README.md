# ym-sat in TLA+

Specifications, model-checking instances and proofs for the SAT solver library
ym-sat. `src/` below is the root of the repository.

## 1. The system

### 1.1 Inventory

| component | code | state | operations |
|---|---|---|---|
| CDCL engine `SatCore` | `c++-src/ymsat/core/SatCore.cc`, `include/SatCore.h` | variables, clause lists, watcher lists, trail, `mSane`, `mGoOn`, budgets | `new_variable`, `add_clause`, `solve`, `stop`, `search`, `implication`, `analyze_final`, `backtrack`, `reduce_CNF`, `reduce_learnt_clause` |
| trail `AssignList` | `ymsat/include/AssignList.h` | list, read position, level markers | `put`, `get_next`, `set_marker`, `backtrack`, `get_prev` |
| clauses, watchers, reasons | `ymsat/include/Clause.h`, `Watcher.h`, `Reason.h`, `Literal.h` | literals of a clause, tagged pointers | `xchange_wl`, `add_watcher`, `is_locked` |
| conflict analysis `SaUIP1` (default), `SaUIP2` | `ymsat/analyzer` | marks, resolution in progress | `analyze`, `capture`, `make_minimal`, `check_recur`, `reorder` |
| decision heuristics `Sel*` | `ymsat/selecter` | phase cache, random generator | `next_decision`, `choose_phase` |
| variable heap `VarHeap` | `ymsat/include/VarHeap.h`, `core/VarHeap.cc` | heap array, positions, activities | `push`, `pop_top`, `bump`, `build`, `move_up`, `move_down` |
| controllers | `ymsat/controller` | restart and learnt limits | `_init`, `_update_on_restart`, `_update_on_conflict` |
| facade `SatSolver` | `c++-src/SatSolver.cc`, `include/ym/SatSolver.h`, `private_include/SatSolverImpl.h` | chosen engine, number of variables, clause list, conditional literals, conflict literals, timer | `new_variable`, `add_clause`, conditional literals, budgets, `solve` |
| constraint encoders | `SatSolver_count.cc`, `SatSolver_tseitin.cc`, `SatSolver_bv.cc`, many overloads in `SatSolver.h` | none (they add variables and clauses) | cardinality, gates, adders, counters, comparators |
| AIG and expression encoders | `Aig2Cnf.cc`, `Expr2Cnf.cc` | table of encoded nodes | `make_cnf`, `add_aig`, `add_expr` |
| ordered set | `SatOrderedSet.cc` | two vectors of literals | constructor, `add_ge`, `add_le`, `add_dropoff`, `val` |
| engine adapters | `MiniSat*/SatSolverMiniSat*.cc`, `glueminisat-2.2.8/SatSolverGlueMiniSat2.cc`, `lingeling/SatSolverLingeling.cc` | the wrapped engine | `add_clause`, `solve`, `stop`, budgets |
| wrapped engines | `MiniSat*`, `glueminisat-2.2.8`, `lingeling` | third-party | - |
| DIMACS, loggers, parameters | `SatDimacs.cc`, `SatLogger*.cc`, `SatInitParam.cc` | files, names | reading and writing |
| `ymsat_old`, Python bindings, tests | `ymsat_old`, `py_capi`, `gtest`, `pytest` | - | - |

### 1.2 How the parts interact

The client makes variables and clauses and calls `solve()` any number of times.
`solve()` sets `mGoOn`, simplifies the clauses and runs `search()` until it has
an answer or a budget is exhausted; the controller sets the limits of each
search. `search()` alternates `implication()` (which moves watchers, assigns
variables and may return a conflict) with either conflict analysis, backjump
and a learnt clause, or the deletion of clauses and a decision taken from the
heap. All parts share the trail and its per-variable arrays: propagation reads
it as a queue, analysis reads it backwards, backtracking pops it and returns
variables to the heap. The reason of an assigned variable points to a clause,
and this pointer is all that keeps the clause from being deleted. `stop()` is
called by another thread, a signal handler or the facade's timer while
`solve()` runs, and shares `mGoOn` with it.

The facade owns one engine, chosen when it is made, and hands clauses on with
the negated conditional literals in front. `solve()` of the facade starts a
one-shot timer when it has a time limit, calls `solve()` of the engine, stops
the timer and sorts the conflict literals. The encoders are functions of the
facade that call one another, make variables (auxiliary ones, by default not
decision variables) and add clauses; each clause is propagated at once at level
0, so a solver may become contradictory in the middle of an encoder, whose next
`add_clause()` then throws through all the functions that are running.

### 1.3 What is hard about it

* *Watcher lists are changed while they are read*, and left half read at a
  conflict; nothing but the position of the first two literals of a clause says
  where it is watched.
* *State is stale by design*: `mReason` and `mDecisionLevel` are not cleared by
  `backtrack()`, so a lock may come from an assignment long undone, and a freed
  clause may be allocated again at an address a stale reason names.
* *Clauses are deleted in the middle of a search*, at any level.
* *The learnt clause* must follow from the client's clauses alone, must assert
  a literal after the backjump, and must have a literal of the backjump level
  second; minimisation hashes levels into 64 bits.
* *Assumptions* may be true, false, repeated, contradictory, or false at level
  0; unsatisfiable under assumptions is not unsatisfiable for good.
* *stop() races* with the start of `solve()` and with the end of the search;
  budgets are only looked at in one place of the search.
* *Five engines behind one interface* differ in whether `solve()` rearms the
  stop flag, in whether a budget is relative or total, and in what becomes of
  the conflict literals.
* *Encoders recurse and split* their lists at lengths 4 and 5, some of them
  one-sided (an auxiliary variable only implies its meaning), and the auxiliary
  variables must be decided by propagation, because the search never decides
  them.
* *Conditional literals* outlive the calls they were set for; an exception in
  the middle of an encoder leaves half of its clauses behind.

`PROJECT.json` lists each hazard at its line with the properties that would
catch it going wrong.

## 2. The modules

| module | models | remarks |
|---|---|---|
| `SatLits` | literals, ternary values, reasons and watchers; the semantics of a CNF | variable `v` is `1..NVar`, its literals `v` and `-v`; clause objects are numbered above the literals, as the tag bit of `Reason` and `Watcher` separates them |
| `AssignList` | the trail and the per-variable arrays `mVal`, `mDecisionLevel`, `mReason` | has a specification `TrailSpec` of its own: the contract of its clients |
| `Implication` | the clause store, the watcher lists, `implication()` | one watcher per step; a list is a bag, so every order is explored |
| `Analyzer` | `capture`, `make_minimal`, `check_recur`, `reorder` of `SaUIP1` and `SaUIP2` | one trail literal per step of `capture()`; `analyzer`, one of `Analyzers`, is the analyser in use; the two differ in what `put_lit()` writes (`Written`) |
| `SatCore` | the client's calls, `solve()`, `search()`, the deletions, decisions, `stop()` | composes the modules above by EXTENDS; `pc` is the place in the code, `cont` the caller of `implication()` or `reduce_CNF()` |
| `SatCoreProofs` | the proofs about `TrailSpec`, and about `Spec` of `SatCore`: types, watches, the heap | `TrailInv`, `CoreInv` |
| `SatSearchProofs` | that a search never fails: the contract of the trail, reasons, conflict analysis | extends `SatCoreProofs` by `SearchInv` |
| `SatAnswerProofs` | that the answers are right: what is learnt, unsatisfiable and satisfiable answers, propagation, the refinement of `SatOracle` | extends `SatSearchProofs` by `EntailInv`, `PropInv`, `SatInv` |
| `SatOracle` | what `SatSolver.h` promises, without an engine | `SatCore` implements it (`ImplementsOracle`), and so does `SatFacade` |
| `VarHeap` | the binary heap of variables: `add_var`, `push`, `pop_top`, `bump_var_activity`, `build`, and `move_up`, `move_down` one iteration at a time | `heap`, `hpos`, `act` are `mHeap`, `mHeapPos`, `mActivity`; `doing`, `at`, `rest` say which loop runs, at which position, and how many positions `build()` has left |
| `VarHeapProofs` | the proofs about `HeapSpec` | |
| `VarQueue` | a set of variables from which one of the largest activity is taken | `VarHeap` implements it (`ImplementsQueue`) |
| `Gates` | the clause sets of the gates and of the constraints over few literals | no state; `True`, `Count`, `Satisfied` say when a valuation satisfies a clause |
| `Vectors` | vectors of literals, their values, and the clauses that compare two of them | no state |
| `GatesProofs` | what each of the clause sets of `Gates` and `Vectors` means | |
| `CountEncoder` | the facade as an encoder: conditional literals, `add_clause()`, gates, at most / at least / exactly one / two, comparisons of two vectors | `todo` holds the pending calls; has a specification `CountSpec` of its own |
| `CountEncoderProofs` | that it is sound and loses no solution | `IInv` |
| `CountExactProofs` | that unit propagation alone decides its encodings | extends `CountEncoderProofs` by `SInv` |
| `ExprEncoder` | the recursive walks of `Expr2Cnf.cc` and `Aig2Cnf.cc` | operators that return clauses, new variables and a literal, with RECURSIVE |
| `SatEncoder` | adders, counters, at most / at least k, comparisons with constants, `SatOrderedSet`, expressions and AIGs | composes `CountEncoder` and `ExprEncoder` |
| `SatFacade` | `SatSolver::solve()`, its timer, budgets and the five engines behind it | implements `SatOracle` (`FacadeImplementsOracle`) |
| `SatFacadeProofs` | the proofs about it | |
| `MCSatCore`, `MCSatEncoder`, `MCSatFacade` | instances for TLC | |

Each module that models code holds, next to a definition, one or two operators
marked `Variant`: plausible mistakes in that code. They are used by nothing in
the specification; replacing a definition by its variant makes TLC find the
property that `PROJECT.json` pairs with it (`mutants`).

### 2.1 Abstractions

* *Activities* only choose among variables to decide and among learnt clauses
  to delete: a decision takes any unassigned variable of the heap,
  `reduce_learnt_clause()` deletes any half of the learnt clauses and any
  further ones. The heap is the set of the decision variables in it; a variable
  that is assigned may linger in it, as in the code. `VarHeap` models the heap
  itself: activities are small numbers there, of which only the order matters;
  scaling all of them down, which keeps their order but may make some equal, is
  halving. `mHeapPos` is a vector of zeros when the solver is made and gets `-1`
  only as it grows and in `build()`; `Prepared` is the number of variables that
  start with the zero.
* *Order.* Watcher lists are bags. The literals of a clause keep their order
  (the first two are watched), those of a learnt clause after the second come in
  every order.
* *Limits.* Conflict and learnt limits come from sets (`ConflictLimits`,
  `LearntLimits`) at each use, which covers both controllers. Counters are
  capped at the largest budget the client may set. The test on `mSweep_props`
  is a choice: a sweep may always be skipped.
* *Time of effects.* A step is a piece of code without a loop over the trail or
  a watcher list: `stop()` may fall between any two of them. `solve()` has an
  entry step that ends just before `mGoOn = true`.
* *Addresses.* A new clause gets the lowest free number. Which free address the
  allocator hands out only renames clauses, except with regard to stale
  reasons, for which reuse of the lowest number is the hardest case.
* *Client.* It uses literals of variables it has created, adds a subsequence of
  `Menu` in its order, sets budgets, and calls `solve()` at most `MaxSolves`
  times with a sequence from `Assumptions`. `add_clause()` on a solver known to
  be contradictory throws, so the guard of `AddClause` asks for `sane`.
* An exception, a failed assertion or a null pointer leads to `pc = "error"`.
* *Encoders.* Entering a function replaces its call, at the front of `todo`, by
  what the function does: the variables it makes, batches of clauses, calls of
  other functions. `AddClause` then hands the clauses of a batch to the engine one
  by one, so an exception may come between any two. Left out: the order of the
  clauses within a batch, which decides only which of them are left behind
  by an exception; and in some functions the numbers of the new variables. The
  engine below is what `add_clause()` does at level 0: unit propagation, a
  contradiction, an exception from then on (`SatCore` models it in full).
  Lists of up to six arguments and lists in vectors are functions of their own
  in the code and here, where they do not do the same.
* *Expressions and AIGs* come from other libraries and are modelled from how the
  walks use them. A handle is a record, two handles to the same node are equal.
  The factory of expressions folds constants, so a constant occurs alone only.
  A variable that the client never declared makes the walk throw. The output of
  a NAND node is a decision variable in the code (`Aig2Cnf.cc:85`); the properties
  treat it as undecided like the others, which asks for more.
* *The facade's engines.* A round of the search is some conflicts and
  propagations, then one of: a conflict at level 0, a restart, a false assumption, a
  complete assignment, a decision. Which one is free, except that the answer
  must be true of the clauses; so `SatFacade` shows what the control around the
  search does with answers, limits and interrupts, and `SatCore` shows that the
  search of ymsat gives only such answers. `lglsat()` is one step.
* *The timer* fires once, at any time after it is started and before it is
  stopped, and calls `stop()` of the engine in a thread of its own.

## 3. What TLC checks

| run | instance | shows |
|---|---|---|
| `inc` | 2 variables and a third created later; any subsequence of six clauses (late units, a repeated literal, contradictory ends) before, between and after two queries, each under no, consistent or contradictory assumptions; 1.5 million states | types; no variable lost from the heap; binary clauses stay paired; propagation leaves no clause false, and none unit unless both its watches rest on its one open literal; reasons are live and false but for their first literal; answers and conflict literals are right; `mSane` is right; the trail is the list of true literals cut into levels by its markers; the engine implements `SatOracle` |
| `learn` | three formulas, chosen by `OneFormula`: 5 variables, 3 clauses, a level bitmap of 2 bits; 4 variables with learnt clauses over the same three; and, with `SaUIP2`, 5 variables of which 4 are decided and binary clauses imply literals of a lower level; learnt limit 0 or 3; 205 000 states | no error state; what is learnt follows from the input and asserts its first literal, also when levels collide in the bitmap and when literals are replaced or repeated; no clause in use as a reason is deleted or has its first literal moved; every live clause is in exactly its two lists; the engine keeps the contract of the trail |
| `stop` | 2 queries under no or contradictory assumptions; 4 variables, one never decided, learnt clauses over the same three; `stop()` at any time, budgets of 2 conflicts or 5 propagations, a restart after each conflict; learnt limits 0 and 1, so that learnt clauses are deleted at high levels and on an empty trail, where `last_assign()` wraps around; 189 000 states | every call returns although what it has learnt is forgotten; it returns soon once stopped or out of budget; the oracle is implemented also when calls are interrupted |
| `heap` | 4 variables, one of them not for decisions, the positions of two start as 0; bumps with scaling, pushes, pops, rebuilds in any order | the two arrays of the heap are inverse at every step, its order holds between operations, and it implements `VarQueue` |
| `encode` | 9 client variables; every encoder alone at each length where its code branches, and sessions of several calls with conditions set, changed and cleared between them, with ordered sets, and with requests that contradict; 10 000 states | `Sound`: a model of the clauses keeps every promise, whatever the auxiliary variables; `NothingLost`: input values that keep every promise of a gate or cardinality constraint are part of a model; `Exact`: unit propagation refuses exactly the input values that break a promise; `ModelCompletes`: no clause waits for an auxiliary variable; `MoreExact` and `MoreComplete`, the like for the calls that `SatEncoder` adds, where auxiliary variables may stay open but always have values; `ThrownOnlyIfUnsat`: an exception inside an encoder means the request cannot be met; `OneHot` |
| `facade` | each of 5 engines, 2 variables, three clauses in any order, budgets of 0 or 1, two queries with or without a time limit under two sets of assumptions, the timer firing at any point; 630 000 states | X has a cause; the conflict literals are of this query; the facade implements `SatOracle` over every engine; a call with a time limit returns unless the timer was too early |
| `stop_lost`, `missed_unit`, `finals`, `stale_conflicts`, `xor_of_or`, `stop_sticky` | small | violated: see section 5 |

*Why these bounds are enough.* The interesting cases were found by enlarging
instances until each variant of section 2 was caught: a learnt clause of three
literals needs three levels (4 variables), minimisation with a literal it must
keep needs five, a lock that matters needs two learnt clauses over the same
variables, a second query is needed for stale results. Conflicts and restarts
are not bounded: `ConflictLimits` is `{1}`, so a conflict leads to a restart at
the next propagation without a conflict, and the state space is finite without a constraint.
In `stop` a learnt clause is deleted on an empty trail only if no stale reason
locks it, which takes two of them over the same variables with a restart between.
A heap of four entries has an inner node with two children and one with a
single child, the cases `move_down()` tells apart. `WholeMenu` (in `stop`) and
`OneFormula` (in `learn`) make the client add whole formulas before it solves;
they only drop client steps.
The cardinality encoders branch at lengths 1, 2, 3, 4 and 5; lists of 7 have
halves of unequal length that take different branches, and lists of 9 have a
half of five that is halved again (`NClient = 9`). Vectors of up to 3 bits are
compared in every pair of lengths, with every constant from 0 to the first that
does not fit; `IntWidth = 5` keeps the powers of two small and is never
exceeded. `Sound` runs over all valuations of all variables and, like `NothingLost`, is
limited to encodings of `MaxVars = 14` of them; `Exact` and `MoreExact` run over
those of the client's variables and have no such limit. In `facade` a count of 2 (`MaxCount`) is one
more than the largest budget; rounds without a conflict are unbounded.

*Deadlock* is checked in every run. A client that has finished may stutter
(`Rest`, `ClientDone`, `Done`), so a deadlock is a solver or an encoder stuck
inside a call.

*Fairness.* `FairSpec` of `SatCore` is `Spec /\ WF_vars(Search)`: a thread inside
`solve()` or `add_clause()` keeps running, which is what a scheduler gives a
thread that never blocks (the engine takes no lock). Nothing is assumed of the
client nor of the caller of `stop()`. Choices inside `Search` (which variable,
which phase, which learnt clauses) are not fair, so termination does not rest on
luck. `SolveReturns` is checked in `stop`, where each conflict leads to a restart and
learnt clauses are forgotten between restarts. With limits that do not grow it can
hold for small formulas only: with a learnt limit of 1 the larger ones of `learn` may
learn and forget the same clauses for ever. The controllers in the code let both
limits grow, which ends that.
`FairSpec` of `SatFacade` is `Spec /\ WF_vars(Engine) /\ WF_vars(Fire)`: the
engine's thread runs, and a timer that is not stopped fires. `Engine` does not
contain `lglsat()`, of which nothing is assumed: `TimedSolveReturns` leaves
Lingeling out, since its adapter's `stop()` does nothing. A search may decide
and restart for ever in the abstract model, so a call returns only because the
flag is looked at; `lost`, the timer that fires before `mGoOn = true`, is the one
way a timed call may run on, and run `stop_lost` shows that it exists.

## 4. What is proved

`SatCoreProofs` first proves, for every number of variables and of levels, that
the trail keeps `TrailInv` in every behaviour of `TrailSpec`
(`TrailAlwaysInv`), and with it `TrailIsAssignment` and `LevelsMatchMarkers`.
The assumption is `SizeAssumption`. `TrailInv` is inductive as it stands, its
four parts support each other: the types bound the read position; that the
list holds each variable once makes the values of the surviving literals
survive a backtrack; the order of the markers makes the removed positions a
suffix; and that levels agree with markers is what lets `Backtrack(k)` cut at
`marker[k + 2]`. Every step of `SatCore` is a step of `TrailSpec` or leaves the
trail alone (`EngineImplementsTrail`), and the engine inherits them.

It then proves, for every `NVar` and `MaxClause`, every client (`Menu`,
`Assumptions`, `MaxSolves`), every set of limits and budgets and every phase
policy, that `Spec` of `SatCore` keeps `CoreInv` (`CoreAlwaysInv`), and with it
`TypeOK`, `WatchedTwice` and `HeapCovers`. The assumptions are the named ones of
the modules: `SizeAssumption`, `ClientAssumption`, `ParamAssumption`. `CoreInv` is `TypeOK` with what its parts rest on:

* `MarkersSorted`: markers never decrease and stay within the list, so that
  `Backtrack(k)` cuts a prefix and leaves the read position inside it;
* `ListPart`: of the list being read no watcher is left more often than the
  list has it, so that a clause still to be read is live, and the list of `pl`
  really has the watcher that `MoveWatch` takes out of it. This is where the
  code's in-place compaction of the list could go wrong;
* `LongClauses`: clauses that are objects have three literals or more, so the two
  watched literals exist and the exchange `Oriented` is between two positions;
* `Reading` and `Analysing`: a list is being read, and a position of the trail
  is being held, only at the places of `search()` where the code has them, so no
  step that adds, deletes or backtracks can make them stale;
* `WatchedTwice` and `HeapCovers` themselves. `WatchedTwice` needs that
  `delete_clause()` clears the lists of the negations of the first two literals
  *as they are at that time*; `HeapCovers` needs that a step outside
  `BacktrackTo` never takes a value away (`NoneUndone`).

There is one lemma for each action (`...Keeps`), resting on one lemma for each
operation of the trail, of the clause store and of the heap; `NextKeeps` puts
them together.

The two modules that follow are laid out in the same way and have the same
assumptions; each invariant was an invariant of TLC runs before it was proved.

`SatSearchProofs` proves that `SearchInv` is kept with `CoreInv`
(`SearchAlwaysInv`), and from it `NoError` (`EngineNeverFails`), `ReasonsHold`,
`LearntAsserts`, the invariants of the trail (`EngineTrail`), `ImplementsTrail`
and `ReasonStays`. None of them can be proved alone: an assertion fails only
after a reason was lost, and a reason is kept only because analysis asserts what
it learns. The parts are

* `TrailInv`, and `ControlPart`: which level, queue, `cont` and `stat` go with
  which place, and that a complete assignment of the decision variables is what
  leads to True;
* `ReasonPart`: the antecedents of a reason are false *and come earlier on the
  trail*, and above level 0 one of them is of the level of the implied literal.
  The former makes `capture()` descend, the latter makes each resolution leave a
  literal of the current level. A binary reason of level 0 is left out: the
  sweep may take its watcher;
* `CapturePart`: the marked variables of the current level are ahead of `last`
  and are `count` many, so the first UIP is reached before the trail ends; the
  other marks are those of `lower`. Replaced literals (`check_recur()`, `SaUIP2`)
  stay false and below the current level (`LowerPart`), which is all that
  `LearnPart`, the clause asserts its first literal, needs of them.

`SatAnswerProofs` proves that the answers are right.

* `EntailInv` (`EntailAlwaysInv`): stored clauses, binaries and the values of
  level 0 follow from the clauses of the client; so does `Resolvent`, the clause
  `capture()` has resolved so far, of which the model keeps only marks and a
  position; decisions at the levels of the assumptions are the assumptions. From
  it `LearntEntailed`, `UnsatSound`, `ConflictsExplain` and `InsaneIsUnsat`. That
  `Resolvent` follows at each step is resolution; for `analyze_final()` it is a
  descent along the trail, stated for the last literal of which it fails, since
  an induction scheme is out of reach.
* `PropInv` (`PropAlwaysInv`): of two literals watched together, if one is false
  and has been dequeued, the other is true at no higher level (`ServedPart`),
  unless the watcher is still to be read. "At no higher level" is what makes it
  survive a backjump; a conflict suspends it for the current level. From it
  `BinaryPaired` and `PropagationComplete`: two watches on two literals miss
  nothing. A clause watched twice at one literal is excepted there, and
  `missed_unit` shows that it has to be.
* `SatInv` (`SatAlwaysInv`): no clause of the client is lost (`StoredPart`: one of
  its literals is true at level 0, or some of its literals are a `Clause` object
  or a pair of watchers), and the assumptions of the open levels are true. From
  it, with the two others, `SatSound` (`EngineSatSound`).
* `EngineImplementsOracle`: `Spec` implements `SatOracle`. `solve()` asks when it is
  entered and replies when it ends; the model demanded of an answer True is the
  values with the open variables set at will, and every step between, also
  those of a propagation inside `add_clause()`, stutters.

`EngineSatSound` and `EngineImplementsOracle` assume `MenuDecided`: no clause of
the client has two literals over variables that were declared not to be decided.
Without it the engine may answer True while both are open and the clause is
not satisfied. The encoders do make such clauses over their auxiliary variables;
what True means there is the subject of `CountModelCompletes`. `MCSatCore` has it
as an assumption, so TLC evaluates it for every instance. The theorems on
unsatisfiable answers do not need it.

`VarHeapProofs` proves, for every number of variables, every set of decision
variables, every set of bumps and every limit at which activities are scaled,
that `HeapSpec` keeps `HeapInv`, and with it `HeapTypeOK`, `HeapIsInverse` and
`HeapOrdered`; that the heap never holds more entries than variables have been
set up (`HeapAlwaysFits`), so that `_add_var()` stays within `mHeap`; and that it
implements `VarQueue` (`HeapImplementsQueue`). The assumptions are
`SizeAssumption` and `HeapAssumption`. `HeapOrdered` says nothing while a loop
runs; what makes it come back is

* `UpPart`: in `move_up()` the order can fail only between the moving variable
  and the one above it, and its children are in order with that one, too;
* `DownPart`: in `move_down()` it can fail only between the moving variable and
  its children, and in `build()` for positions before `rest`;
* `KnownPart`: only variables that were set up are in the heap, so a new one is
  not in it.

`RankUp` and `RankDown` show that an exchange moves the place of doubt one level
up or down, on any function of the positions. That the top is the largest
(`TopIsMax`) would be an induction along the path to the root; it is a smallest
counterexample instead, since an induction scheme is out of the prover's reach.

`GatesProofs` proves what the clause set of each gate and small constraint
means: for every list of literals and every valuation, the clauses are satisfied
exactly when the output has the gate's value or the number of true literals is in
the range (`AndGateMeans`, `XorGate3Means`, `FullAdderMeans`, `AtMostTwoOfMeans`
and so on). The lemmas on `Count` show how a list splits and when it holds one,
two or more true literals.

For the comparisons of two vectors it proves what their values have to do with
their bits, for vectors of any lengths (`VectorsCompare`): they are equal when the
common bits are and the others are zero; the first is less when only the second has
further bits that are not all zero, or when at some bit it is less and all above
are equal. Values are sums of powers of two defined by recursion, so the lemmas
on them (`ValueRange`, a vector of `n` bits is below `2^n`, and what follows from it)
argue about a least counterexample (`Numbers`). `EqualBitsMean`, `DifferentBitsMean`
and `CompareBitsMean` then say that the clauses hold exactly when each variable
made has the meaning the comments of `SatSolver_bv.cc` give it (equal so far, less
here) and the values compare as asked.

`CountEncoderProofs` proves, for every number of client variables and every
sequence of calls with lists of any length, that `CountSpec` keeps `CountTypeOK`
(`CountTypeCorrect`: no function makes a literal of a variable it did not create),
`Sound` (`CountSound`): whatever values the auxiliary variables take, a model of
the clauses keeps every promise made under the conditions that it satisfies; and
`NothingLost` (`CountLosesNothing`): values of the client's variables that keep
every promise are part of a model, and while there are such values
`add_clause()` does not throw. Together they say that the clauses restrict the
client to exactly what was asked. The assumptions are `NClientAssumption` and
`SessionsAssumption`. The invariant is `IInv`:

* `CountTypeOK`, `ScriptOK` (calls have the shape their functions ask for) and
  `Quiet` (an exception leaves every function);
* `Faithful`: a valuation that satisfies the clauses so far and keeps what is
  still in `todo` keeps all promises;
* `Complete`: a valuation that keeps all promises agrees on the client's variables
  with one that satisfies the clauses so far and keeps what is still in `todo`;
* `Hopeless`: an engine that is not sane has contradictory clauses, and an
  exception means that no valuation keeps all promises. It needs that unit
  propagation never takes back a literal true in a model (`PropagationSound`).

`Faithful` and `Complete` are what makes recursion provable without induction: a
function only has to amount to what it calls, and halves are smaller calls of
the same machine. One lemma per function says so (`...Keeps`, by `CallKeeps` and
`BecomeKeeps`). For `Complete` it also has to name the values of the variables it
makes (`HalvesToOneChosen`, `HalvesToTwoChosen`), and for these every function
must be called with a promise that can be kept for them: that is why `Means` says
of `count_up_to_two`, which the code calls for the halves of at least two, that its
second output is the parity also when there are more than two true literals. The
comparisons make up to two variables for each bit; `MarksExist` gives all of them
their values at once, and `SwappedCall` shows that "greater" is "less" with the
operands exchanged.

That the clauses have the right models is not enough: the engine does not decide
auxiliary variables, and answers True as soon as the client's variables have
values and propagation has met no conflict. `CountExactProofs` proves, for every
number of client variables and every sequence of calls with lists of any length,
that propagation tells the values that keep the promises from those that do not
(`CountExact`), and that it leaves no clause waiting (`CountModelCompletes`).

* *Kept promises are accepted* (`KeptAccepted`): by `NothingLost` such values are
  part of a model, whose true literals contain all that propagation derives.
* *Accepted values keep the promises* (`AcceptedKept`): if propagation decides
  every auxiliary variable, then what it arrives at is an assignment, it
  satisfies the clauses, and `Sound` applies.

The second needs an invariant, since decided auxiliary variables are not yet
there while the calls that define them are still pending. `SInv` is

* `Settled`: take any consistent set `P` of literals that has drawn every
  conclusion from the clauses (`Obeyed`), has decided all literals of the
  client's calls, and, if it contains the conditional literals, decides the
  outputs of each pending gate or counting call when it decides the inputs
  (`Obeys`). Then some literal of each clause is in `P`, and all literals of
  all pending calls are decided. Speaking of *any* such `P` makes it inductive: the
  fixed point itself grows with each clause, and nothing about an earlier one
  carries over;
* `CondAsked`: the conditional literals do not change while a call is running,
  so they are among the decided literals.

Each function has a lemma (`...Settles`): its clauses or the calls it makes
decide its outputs from its inputs, halves included (`HalvesSettle`,
`BecomeSettles`), and the clauses of a comparison decide what they say of each
bit from the high ones down (`CompareDecides`). A clause guarded by conditional literals that `P` does not
contain is met by one of their negations (`GuardedObeyed`). Finally
`PropagatedLeast` shows that the function by which the model propagates, round
after round, computes the least set closed under propagation; its descent is on
the number of literals still missing, again by a smallest counterexample.

`SatFacadeProofs` proves, for every set of variables, clauses, queries and
budgets and every engine, that `Spec` of `SatFacade` keeps `FacadeTypeOK`
(`FacadeAlwaysTypeOK`), that X has a cause (`FacadeUnknownHasCause`), that
conflict literals explain this query (`FacadeConflictsOfThisQuery`), and that
the facade implements `SatOracle` (`FacadeKeepsPromise`). The assumptions are
`SizeAssumption` and `FacadeAssumption`. The invariant `FacadeInv` adds to these

* `FlagKnown`: once `solve()` has set it, the stop flag is down only if a
  timer has fired, which for the MiniSat2 engines may be that of an earlier call;
* `Cause`: a search that is about to answer X has used up a budget or was
  stopped, so X cannot come from a restart;
* `InsaneNoModel`: a solver that is not sane has contradictory clauses, which is
  why the early exits may answer False under any assumptions;
* `SearchClean`, `AnswerKnown`, `ConflictsKnown`: the conflict literals of an
  earlier query are gone when a search begins, and what the answer and they say
  is true of the clauses at each place up to the return.

Only model-checked: of the engine that every call returns and that `stop()` and
budgets are honoured (`SolveReturns`, `StopHonoured`), and of the facade
`TimedSolveReturns`: liveness under fairness is out of the prover's reach. Of the
encoders `MoreExact`, `MoreComplete`, `ThrownOnlyIfUnsat` and `OneHot`, which are
about what `SatEncoder` adds, because its module reaches the recursive operators of
`ExprEncoder` and its arguments (ripple carries, a tree of adders) are inductions
over data.

## 5. Where the sources disagree with the code

Each is shown by a run that TLC finds violated.

* `stop_lost`: a `stop()` that arrives before `mGoOn = true`
  (`SatCore.cc:535`) is forgotten.
* `missed_unit`: `add_clause()` never assigns the variable it compares literals
  with (`SatCore.cc:158`), so repeated literals stay, although its comment says
  they are removed. A clause with a repeated literal may be watched at it twice, and
  then it is not propagated when it becomes unit, although `implication()` is to
  make all assignments that follow (`SatCore.cc:661`). `inc` shows that answers stay
  right all the same: the conflict is found when the repeated literal falls.
* `finals`: an assumption that is false at level 0 may be reported together
  with its negation (`SatCore.cc:799`), a tautology instead of an explanation.
* `stale_conflicts`: after the early exit of `solve()` (`SatCore.cc:548`) the
  conflict literals are those of an earlier query.
* `xor_of_or`: an XOR in an expression ties its variable to an operand that, when
  it is an OR, was encoded in one direction only (`Expr2Cnf.cc:107`), so a
  solution may falsify the expression: `a ^ (b | c)` with all three true.
* `stop_sticky`: nothing clears the interrupt flag of the MiniSat2 engines
  (`MiniSat2/Solver.h:343`), so after one timeout they answer X for ever.

Also worth knowing, and visible in the models:

* ymsat's budgets are for the life of the solver, since the counters they bound
  are never reset, and 0 means none; those of the MiniSat2 engines count from the
  time they are set; MiniSat and Lingeling ignore them.
* MiniSat's adapter does not fill the conflict literals; Lingeling's answers
  False for anything that is not True, and its `stop()` does nothing.
* `put_lit()` of `SaUIP2` marks one literal and writes another (`SaUIP2.h:77`), so a
  literal may stand twice in a learnt clause, with the same consequence as in
  `missed_unit`; the third formula of `learn` has such clauses.
* The comparisons with a constant test whether it fits by `1 << na`
  (`SatSolver_bv.cc:256`), which for a vector of 31 bits is the sign bit: every constant
  that is not negative then counts as too big, so `add_lt()` adds nothing and
  `add_eq()` adds the empty clause. `Shl` models it, no instance reaches it.
* Variables are not decision variables by default, and `search()` answers True
  when only decision variables and what they imply are assigned
  (`SatCore.cc:586-593`). `ModelCompletes` and `MoreComplete` show that encodings
  survive this when the client's variables are decided. `SatOrderedSet` makes its own variables that
  way, so a query that neither decides nor implies them leaves `val()`
  (`SatOrderedSet.cc:89`) without a true one to find; `OneHot` is stated for
  valuations that decide them.

## 6. Not modelled, and why

* The searches inside MiniSat, MiniSat2, GlueMiniSat and Lingeling: third-party
  code, of which `SatFacade` keeps only the control that answers, interrupts and
  budgets depend on. They are most of the lines of the repository (`lglib.c`
  alone is 27 000), so the share of all lines that is modelled stays small.
* `ymsat_old`: superseded, not built. Python bindings: conversion of arguments.
* DIMACS, loggers, parameters: text.
* Statistics, messages, times, and what only they depend on. The accumulated time
  of a query after an early exit is wrong (`SatCore.cc:545`), which no answer
  depends on.
* The numbers of the Luby sequence: any limit of a set covers them.
* Shifts by 31 bits or more and negative constants in the comparators.
* Constants below an operator of an expression: the factory folds them.

What comes next: the comparisons with constants, the adders and the counters as
theorems, the last on an inductive specification of the carry chain.
