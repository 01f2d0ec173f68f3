------------------------------ MODULE VarQueue ------------------------------
(***************************************************************************)
(* What VarHeap promises to the engine (c++-src/ymsat/include/VarHeap.h):  *)
(* a set of variables, each with an activity, from which a variable of the *)
(* largest activity can be taken.                                          *)
(***************************************************************************)
EXTENDS SatLits

VARIABLES
  members,    (* the variables in the queue                                *)
  score,      (* the activity of every variable                            *)
  got         (* what the last operation has returned, or 0                *)

queueVars == <<members, score, got>>

QueueInit == members = {} /\ score = [v \in Var |-> 0] /\ got = 0

(* add_var(): a new variable enters with no activity.                      *)
Enter(v) ==
  /\ v \notin members
  /\ members' = members \cup {v}
  /\ score' = [score EXCEPT ![v] = 0]
  /\ got' = 0

(* push(): a variable comes back with the activity it has.                 *)
Return(v) ==
  /\ v \notin members
  /\ members' = members \cup {v}
  /\ got' = 0
  /\ UNCHANGED score

(* pop_top(): no other variable has a larger activity.                     *)
TakeMax(v) ==
  /\ v \in members
  /\ \A u \in members : score[u] <= score[v]
  /\ members' = members \ {v}
  /\ got' = v
  /\ UNCHANGED score

(* bump_var_activity(): v falls behind no variable, and the others keep    *)
(* their order, also when all activities are scaled down.                  *)
Raise(v) ==
  /\ score' \in [Var -> Nat]
  /\ \A u, w \in Var : w = v \/ u # v => (score[u] <= score[w] => score'[u] <= score'[w])
  /\ got' = 0
  /\ UNCHANGED members

(* build(): the queue is made anew of the variables S.                     *)
Refill(S) == members' = S /\ got' = 0 /\ UNCHANGED score

QueueNext ==
  \/ \E v \in Var : Enter(v) \/ Return(v) \/ TakeMax(v) \/ Raise(v)
  \/ \E S \in SUBSET Var : Refill(S)

QueueSpec == QueueInit /\ [][QueueNext]_queueVars
=============================================================================
