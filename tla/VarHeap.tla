------------------------------- MODULE VarHeap -------------------------------
(***************************************************************************)
(* The heap of variables by activity (c++-src/ymsat/include/VarHeap.h and  *)
(* core/VarHeap.cc), as the engine uses it.  An operation of the heap is a *)
(* step that changes the arrays, followed by one step for each iteration   *)
(* of move_up() or move_down().                                            *)
(*                                                                         *)
(* Positions count from 0, as in the code.  Of the activities, which are   *)
(* doubles, only the order matters: they are small numbers here, a bump    *)
(* adds any of the amounts mVarBump may have grown to, and scaling all of  *)
(* them down, which keeps their order but may make some equal, is halving. *)
(***************************************************************************)
EXTENDS SatLits

CONSTANTS
  DecVar,       (* variables created with new_variable(true)               *)
  Prepared,     (* variables mHeapPos has room for from the start (1024)   *)
  Bumps,        (* values of mVarBump                                      *)
  ActLimit      (* activity beyond which all are scaled down (1e100)       *)

ASSUME HeapAssumption ==
  /\ DecVar \subseteq Var /\ Prepared \in Nat
  /\ Bumps \subseteq Nat /\ ActLimit \in Nat

VARIABLES
  heap,         (* mHeap[0 .. mHeapNum - 1]                                *)
  hpos,         (* mHeapPos                                                *)
  act,          (* mActivity                                               *)
  got,          (* the variable the last operation has returned, or 0      *)
  doing,        (* the loop being run: move_up, move_down, or none         *)
  at,           (* its pos                                                 *)
  rest,         (* in build(): positions still to be moved down            *)
  made,         (* variables the engine has set up                         *)
  fixed         (* variables with a value at level 0 at the last build()   *)

heapVars == <<heap, hpos, act, got, doing, at, rest, made, fixed>>
loopVars == <<doing, at, rest>>

(* The vectors start with zeros: a variable that never was in the heap is  *)
(* not told apart from the one at the top until the first build().         *)
HeapInit ==
  /\ heap = <<>>
  /\ hpos = [v \in Var |-> IF v <= Prepared THEN 0 ELSE -1]
  /\ act = [v \in Var |-> 0] /\ got = 0
  /\ doing = "none" /\ at = 0 /\ rest = 0
  /\ made = 0 /\ fixed = {}

At(p) == heap[p + 1]
Left(p) == p + p + 1
Parent(p) == (p - 1) \div 2

(* Variant: the position of the other variable is not noted.               *)
ExchangeOne(p, q) ==
  /\ heap' = [heap EXCEPT ![p + 1] = At(q), ![q + 1] = At(p)]
  /\ hpos' = [hpos EXCEPT ![At(p)] = q]

(* set(At(p), q) and set(At(q), p).                                        *)
Exchange(p, q) ==
  /\ heap' = [heap EXCEPT ![p + 1] = At(q), ![q + 1] = At(p)]
  /\ hpos' = [hpos EXCEPT ![At(p)] = q, ![At(q)] = p]

(* _add_var().                                                             *)
AddLast(v) ==
  /\ heap' = Append(heap, v)
  /\ hpos' = [hpos EXCEPT ![v] = Len(heap)]

Start(loop, p) == doing' = loop /\ at' = p /\ rest' = 0
Stay == Start("none", 0)
-----------------------------------------------------------------------------
(***************************************************************************)
(* The operations.                                                         *)
(***************************************************************************)

(* SatCore::alloc_var() for the next variable: add_var() appends it and    *)
(* does not move it, its activity being 0.                                 *)
NewVar ==
  /\ doing = "none"
  /\ made < NVar
  /\ made' = made + 1
  /\ got' = 0
  /\ IF made + 1 \in DecVar
       THEN AddLast(made + 1) /\ act' = [act EXCEPT ![made + 1] = 0]
       ELSE UNCHANGED <<heap, hpos, act>>
  /\ UNCHANGED <<loopVars, fixed>>

(* push(), which backtrack() calls for any variable it undoes.             *)
Push(v) ==
  /\ doing = "none"
  /\ v \in 1 .. made \ fixed
  /\ hpos[v] = -1
  /\ AddLast(v)
  /\ Start("up", Len(heap))
  /\ got' = 0
  /\ UNCHANGED <<act, made, fixed>>

(* pop_top(): the last variable takes the place of the first.              *)
PopTop ==
  /\ doing = "none"
  /\ heap # <<>>
  /\ got' = At(0)
  /\ LET n == Len(heap) - 1
         taken == [hpos EXCEPT ![At(0)] = -1] IN
       IF n = 0
         THEN heap' = <<>> /\ hpos' = taken /\ Stay
         ELSE /\ heap' = [i \in 1 .. n |-> IF i = 1 THEN At(n) ELSE heap[i]]
              /\ hpos' = [taken EXCEPT ![At(n)] = 0]
              /\ Start("down", 0)
  /\ UNCHANGED <<act, made, fixed>>

(* The activities after that of v has grown by d.                          *)
Raised(v, d) ==
  LET grown == [act EXCEPT ![v] = @ + d] IN
    IF grown[v] > ActLimit THEN [u \in Var |-> grown[u] \div 2] ELSE grown

(* bump_var_activity(): the test of the position leaves out both the       *)
(* variable at the top and the variables not in the heap.                  *)
Bump(v, d) ==
  /\ doing = "none"
  /\ v \in 1 .. made \ fixed
  /\ act' = Raised(v, d)
  /\ got' = 0
  /\ IF hpos[v] > 0 THEN Start("up", hpos[v]) ELSE Stay
  /\ UNCHANGED <<heap, hpos, made, fixed>>

(* build(), called by reduce_CNF() with the undecided decision variables   *)
(* in the order of their numbers.                                          *)
Listed(S) ==
  {s \in [1 .. Cardinality(S) -> S] :
     \A i, j \in 1 .. Cardinality(S) : i < j => s[i] < s[j]}
PositionIn(s, v) == IF v \in Elems(s) THEN (CHOOSE i \in DOMAIN s : s[i] = v) - 1 ELSE -1

Build(F) ==
  /\ doing = "none"
  /\ fixed \subseteq F /\ F \subseteq 1 .. made
  /\ \E list \in Listed((DecVar \cap 1 .. made) \ F) :
       /\ heap' = list
       /\ hpos' = [v \in Var |-> PositionIn(list, v)]
       /\ LET half == Len(list) \div 2 IN
            IF half > 0
              THEN doing' = "down" /\ at' = half - 1 /\ rest' = half - 1
              ELSE Stay
  /\ fixed' = F
  /\ got' = 0
  /\ UNCHANGED <<act, made>>
-----------------------------------------------------------------------------
(***************************************************************************)
(* The loops.                                                              *)
(***************************************************************************)
(* Variant: the top is never reached.                                      *)
RisesBelowTop(p) == p > 1 /\ act[At(Parent(p))] < act[At(p)]

Rises(p) == p > 0 /\ act[At(Parent(p))] < act[At(p)]

MoveUp ==
  /\ doing = "up" /\ Rises(at)
  /\ Exchange(at, Parent(at))
  /\ at' = Parent(at)
  /\ UNCHANGED <<doing, rest, act, got, made, fixed>>

MoveUpEnd ==
  /\ doing = "up" /\ ~Rises(at)
  /\ Stay
  /\ UNCHANGED <<heap, hpos, act, got, made, fixed>>

(* Variant: always the left child.                                         *)
LeftChild(p) == Left(p)

(* The child with the larger activity; the left one if they are equal.     *)
GreaterChild(p) ==
  IF Left(p) + 1 < Len(heap) /\ act[At(Left(p))] < act[At(Left(p) + 1)]
    THEN Left(p) + 1 ELSE Left(p)

Sinks(p) == Left(p) < Len(heap) /\ act[At(GreaterChild(p))] > act[At(p)]

MoveDown ==
  /\ doing = "down" /\ Sinks(at)
  /\ Exchange(at, GreaterChild(at))
  /\ at' = GreaterChild(at)
  /\ UNCHANGED <<doing, rest, act, got, made, fixed>>

(* Variant: build() goes on below position 0.                              *)
MoveDownEndLate ==
  /\ doing = "down" /\ ~Sinks(at)
  /\ at' = rest - 1 /\ rest' = rest - 1 /\ UNCHANGED doing
  /\ UNCHANGED <<heap, hpos, act, got, made, fixed>>

MoveDownEnd ==
  /\ doing = "down" /\ ~Sinks(at)
  /\ IF rest > 0
       THEN at' = rest - 1 /\ rest' = rest - 1 /\ UNCHANGED doing
       ELSE Stay
  /\ UNCHANGED <<heap, hpos, act, got, made, fixed>>

HeapNext ==
  \/ NewVar
  \/ \E v \in Var : Push(v)
  \/ PopTop
  \/ \E v \in Var, d \in Bumps : Bump(v, d)
  \/ \E F \in SUBSET Var : Build(F)
  \/ MoveUp \/ MoveUpEnd \/ MoveDown \/ MoveDownEnd

HeapSpec == HeapInit /\ [][HeapNext]_heapVars
-----------------------------------------------------------------------------
HeapTypeOK ==
  /\ heap \in Seq(Var)
  /\ hpos \in [Var -> Nat \cup {-1}]
  /\ act \in [Var -> Nat]
  /\ doing \in {"none", "up", "down"} /\ at \in Nat /\ rest \in Nat
  /\ got \in Var \cup {0} /\ made \in 0 .. NVar /\ fixed \subseteq 1 .. made

(* mHeapPos is the inverse of mHeap, in the middle of the loops as well: a *)
(* variable is in the heap once, at the position it is said to be at, and  *)
(* one that is said to be absent is.  The zeros the vectors start with     *)
(* excuse only variables that never were in the heap.  That no variable is *)
(* in the heap twice is what bounds the writes to mHeap.                   *)
HeapIsInverse ==
  /\ \A i \in 1 .. Len(heap) : hpos[heap[i]] = i - 1
  /\ \A v \in Var : hpos[v] # -1 =>
       \/ hpos[v] < Len(heap) /\ At(hpos[v]) = v
       \/ hpos[v] = 0 /\ v <= Prepared /\ (v \in DecVar => v > made)

(* Between two operations no variable has a larger activity than the one   *)
(* above it, through bumps, scaling, late variables and rebuilds.          *)
HeapOrdered ==
  doing = "none" =>
    \A p \in 1 .. Len(heap) - 1 : act[At(Parent(p))] >= act[At(p)]

(* The heap is the queue it promises to be: pop_top() returns a variable   *)
(* of the largest activity, and the loops neither lose nor add a variable. *)
Queue == INSTANCE VarQueue WITH members <- Elems(heap), score <- act
ImplementsQueue == Queue!QueueSpec
=============================================================================
