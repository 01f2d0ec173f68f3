---------------------------- MODULE Implication ----------------------------
(***************************************************************************)
(* The clause store with its watcher lists, and SatCore::implication(),    *)
(* the unit propagation over them.                                         *)
(*                                                                         *)
(* A clause of three literals or more is a Clause object watched at its    *)
(* first two literals; a clause of two literals exists only as a pair of   *)
(* literal watchers.  The lists are compacted in place while they are read *)
(* (rpos, wpos, move_elem); here watch[l] is the bag of the watchers of    *)
(* watcher_list(l) and todo is the bag of those not yet read in the list   *)
(* at hand, so the order of the list is abstracted and every order is      *)
(* explored.                                                               *)
(***************************************************************************)
EXTENDS AssignList

VARIABLES
  lits,       (* literals of each Clause object, << >> for a freed one    *)
  constr,     (* mConstrClauseList                                        *)
  learnts,    (* mLearntClauseList                                        *)
  watch,      (* mWatcherList: watch[l][w] copies of w in the list of l   *)
  pl,         (* literal whose list is being read, 0 between two lists    *)
  todo        (* its watchers not yet read                                *)

dbVars == <<lits, constr, learnts, watch>>
implVars == <<pl, todo>>

Live == constr \cup learnts
wl0(c) == lits[c][1]
wl1(c) == lits[c][2]
NoWatcher == [w \in Watcher |-> 0]

ImplInit ==
  /\ lits = [c \in ClauseId |-> <<>>]
  /\ constr = {}
  /\ learnts = {}
  /\ watch = [l \in Lit |-> NoWatcher]
  /\ pl = 0
  /\ todo = NoWatcher

(* Variant: the lock is looked for at the other watched literal.           *)
LockedAtOther(c) == reason[VarOf(wl1(c))] = c

(* SatCore::is_locked().  The reason of a variable is not cleared when the *)
(* variable is unassigned, so a clause may stay locked for a stale reason. *)
Locked(c) == reason[VarOf(wl0(c))] = c

(* Literals of the reason r of a true literal, other than that literal.    *)
Antecedents(r) == IF r \in Lit THEN {r} ELSE Elems(lits[r]) \ {wl0(r)}

(* add_watcher(l1, w1); add_watcher(l2, w2).                               *)
AddWatchers(l1, w1, l2, w2) ==
  [l \in Lit |-> [w \in Watcher |->
     watch[l][w] + (IF l = l1 /\ w = w1 THEN 1 ELSE 0)
                 + (IF l = l2 /\ w = w2 THEN 1 ELSE 0)]]

(* Variant: the second half is watched at the literal itself.              *)
AttachBinaryUnpaired(s) ==
  /\ watch' = AddWatchers(-s[1], s[2], s[2], s[1])
  /\ UNCHANGED <<lits, constr, learnts>>

(* A new binary clause s[1] + s[2].                                        *)
AttachBinary(s) ==
  /\ watch' = AddWatchers(-s[1], s[2], -s[2], s[1])
  /\ UNCHANGED <<lits, constr, learnts>>

(* new Clause: any address not in use may be handed out again; the lowest  *)
(* free one stands for them all.                                           *)
FreshId(c) ==
  /\ c \in ClauseId \ Live
  /\ \A d \in ClauseId \ Live : c <= d

AttachClause(c, s) ==
  /\ lits' = [lits EXCEPT ![c] = s]
  /\ watch' = AddWatchers(-s[1], c, -s[2], c)

(* Variant: delete_clause() clears only the list of wl0.                   *)
DetachOneSide(D, satisfiedToo) ==
  /\ lits' = [c \in ClauseId |-> IF c \in D THEN <<>> ELSE lits[c]]
  /\ constr' = constr \ D
  /\ learnts' = learnts \ D
  /\ watch' = [l \in Lit |-> [w \in Watcher |->
       IF \/ w \in D /\ l = -wl0(w)
          \/ satisfiedToo /\ w \in Lit /\ Eval(l) # 0 /\ Eval(w) = 1
       THEN 0 ELSE watch[l][w]]]

(* delete_clause() for each clause of D, and, with satisfiedToo, the pass  *)
(* of del_satisfied_watcher() over the lists of the assigned variables.    *)
DetachClauses(D, satisfiedToo) ==
  /\ lits' = [c \in ClauseId |-> IF c \in D THEN <<>> ELSE lits[c]]
  /\ constr' = constr \ D
  /\ learnts' = learnts \ D
  /\ watch' = [l \in Lit |-> [w \in Watcher |->
       IF \/ w \in D /\ l \in {-wl0(w), -wl1(w)}
          \/ satisfiedToo /\ w \in Lit /\ Eval(l) # 0 /\ Eval(w) = 1
       THEN 0 ELSE watch[l][w]]]
-----------------------------------------------------------------------------
(***************************************************************************)
(* implication(), one watcher at a time.                                   *)
(***************************************************************************)
ListRead == todo = NoWatcher

(* The outer loop: get_next() and its watcher list.                        *)
NextLiteral ==
  /\ ListRead
  /\ GetNext
  /\ pl' = trail[head + 1]
  /\ todo' = watch[trail[head + 1]]
  /\ UNCHANGED dbVars

Take(w) == todo' = [todo EXCEPT ![w] = @ - 1] /\ pl' = pl

(* Literal watcher: the other literal l0 of the clause (l0 + ~pl).         *)
SkipBinary(l0) ==
  /\ Eval(l0) = 1
  /\ Take(l0)
  /\ UNCHANGED <<trailVars, dbVars>>

(* Variant: a literal that is true already is assigned again.              *)
ImplyBinaryAgain(l0) ==
  /\ Eval(l0) # -1
  /\ Assign(l0, -pl)
  /\ Take(l0)
  /\ UNCHANGED dbVars

ImplyBinary(l0) ==
  /\ Eval(l0) = 0
  /\ Assign(l0, -pl)
  /\ Take(l0)
  /\ UNCHANGED dbVars

(* Clause watcher: ~pl is first made the second watched literal.           *)
Swapped(s, i, j) == [s EXCEPT ![i] = s[j], ![j] = s[i]]
Oriented(c) == IF wl0(c) = -pl THEN Swapped(lits[c], 1, 2) ELSE lits[c]

(* find_watch_literal(): the first literal from the third on not false.    *)
Replaces(s, i) ==
  /\ i \in 3 .. Len(s)
  /\ Eval(s[i]) # -1
  /\ \A j \in 3 .. i - 1 : Eval(s[j]) = -1
NoReplacement(s) == \A i \in 3 .. Len(s) : Eval(s[i]) = -1

SkipClause(c) ==
  /\ Eval(Oriented(c)[1]) = 1
  /\ lits' = [lits EXCEPT ![c] = Oriented(c)]
  /\ Take(c)
  /\ UNCHANGED <<trailVars, constr, learnts, watch>>

(* The watcher is not copied back to the list of pl, and enters another.   *)
Moved(c, l) ==
  LET left == [watch EXCEPT ![pl][c] = @ - 1] IN [left EXCEPT ![l][c] = @ + 1]

(* Variant: the watcher leaves one list and enters no other.               *)
MoveWatchAway(c) ==
  /\ Eval(Oriented(c)[1]) # 1
  /\ \E i \in 3 .. Len(lits[c]) :
       /\ Replaces(Oriented(c), i)
       /\ lits' = [lits EXCEPT ![c] = Swapped(Oriented(c), 2, i)]
       /\ watch' = [watch EXCEPT ![pl][c] = @ - 1]
  /\ Take(c)
  /\ UNCHANGED <<trailVars, constr, learnts>>

MoveWatch(c) ==
  /\ Eval(Oriented(c)[1]) # 1
  /\ \E i \in 3 .. Len(lits[c]) :
       /\ Replaces(Oriented(c), i)
       /\ lits' = [lits EXCEPT ![c] = Swapped(Oriented(c), 2, i)]
       /\ watch' = Moved(c, -Oriented(c)[i])
  /\ Take(c)
  /\ UNCHANGED <<trailVars, constr, learnts>>

ImplyClause(c) ==
  /\ Eval(Oriented(c)[1]) = 0
  /\ NoReplacement(Oriented(c))
  /\ lits' = [lits EXCEPT ![c] = Oriented(c)]
  /\ Assign(Oriented(c)[1], c)
  /\ Take(c)
  /\ UNCHANGED <<constr, learnts, watch>>

Propagate ==
  \/ NextLiteral
  \/ \E w \in Watcher :
       /\ todo[w] > 0
       /\ IF w \in Lit
            THEN SkipBinary(w) \/ ImplyBinary(w)
            ELSE SkipClause(w) \/ MoveWatch(w) \/ ImplyClause(w)

(* The watcher w has a false clause: the conflict, as the set of its       *)
(* literals (mTmpBinClause stands for a binary one).  implication() leaves *)
(* the rest of the list unread and returns.                                *)
ConflictAt(w) ==
  /\ todo[w] > 0
  /\ IF w \in Lit THEN Eval(w) = -1
                  ELSE Eval(Oriented(w)[1]) = -1 /\ NoReplacement(Oriented(w))
ConflictLits(w) == IF w \in Lit THEN {w, -pl} ELSE Elems(lits[w])

Conflict(w) ==
  /\ ConflictAt(w)
  /\ lits' = IF w \in Lit THEN lits ELSE [lits EXCEPT ![w] = Oriented(w)]
  /\ pl' = 0
  /\ todo' = NoWatcher
  /\ UNCHANGED <<trailVars, constr, learnts, watch>>

(* No conflict and nothing left to dequeue.                                *)
Quiescent == ListRead /\ ~HasElem
EndImplication ==
  /\ Quiescent
  /\ pl' = 0
  /\ UNCHANGED <<trailVars, dbVars, todo>>
-----------------------------------------------------------------------------
ImplTypeOK ==
  /\ lits \in [ClauseId -> Seq(Lit)]
  /\ constr \subseteq ClauseId
  /\ learnts \subseteq ClauseId
  /\ watch \in [Lit -> [Watcher -> Nat]]
  /\ pl \in Lit \cup {0}
  /\ todo \in [Watcher -> Nat]

Occurrences(P1, P2) == (IF P1 THEN 1 ELSE 0) + (IF P2 THEN 1 ELSE 0)

(* Every live clause is in the lists of the negations of its first two     *)
(* literals, once for each, and in no other; a freed clause is in none.    *)
(* Moving a watch during the traversal of a list, swapping watched         *)
(* literals and the two deletion passes all have to keep this.             *)
WatchedTwice ==
  \A c \in ClauseId, l \in Lit :
    watch[l][c] = IF c \in Live THEN Occurrences(l = -wl0(c), l = -wl1(c)) ELSE 0

(* The two halves of a binary clause stay together: b is watched from ~a   *)
(* as often as a from ~b.  Only a clause that is satisfied for good (by a  *)
(* literal true at level 0) may lose one half, del_satisfied_watcher()     *)
(* filtering one list at a time.                                           *)
TrueForGood(l) == Eval(l) = 1 /\ LevelOf(l) = 0
BinaryPaired ==
  \A a, b \in Lit :
    watch[-a][b] # watch[-b][a] => TrueForGood(a) \/ TrueForGood(b)

(* After propagation no clause is false, and none is unit: the watchers    *)
(* have missed nothing, whatever backtracking happened in between.  The    *)
(* one exception is a clause with a repeated literal (add_clause() keeps   *)
(* them, SaUIP2 writes them) that is watched at this literal twice: no     *)
(* watch is left to notice that its other literals have become false.      *)
IsSatisfied(s) == \E l \in Elems(s) : Eval(l) = 1
OpenIn(s) == {l \in Elems(s) : Eval(l) = 0}
WatchedAtOne(s) == s[1] = s[2] /\ Eval(s[1]) = 0
Propagated(s) == IsSatisfied(s) \/ Cardinality(OpenIn(s)) > 1 \/ WatchedAtOne(s)
AllPropagated ==
  /\ \A c \in Live : Propagated(lits[c])
  /\ \A l, w \in Lit : watch[l][w] > 0 => Propagated(<<-l, w>>)

(* The same without the exception.                                         *)
IsUnit(s) == ~IsSatisfied(s) /\ Cardinality(OpenIn(s)) = 1
NoUnits ==
  /\ \A c \in Live : ~IsUnit(lits[c])
  /\ \A l, w \in Lit : watch[l][w] > 0 => ~IsUnit(<<-l, w>>)
=============================================================================
