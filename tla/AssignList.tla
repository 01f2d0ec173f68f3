---------------------------- MODULE AssignList ----------------------------
(***************************************************************************)
(* The assignment trail: class AssignList (a list that is a stack for the  *)
(* search and a queue for the propagation, with one marker per decision    *)
(* level) together with the per-variable arrays that SatCore::assign() and *)
(* SatCore::backtrack() keep in step with it.                              *)
(*                                                                         *)
(* The module is closed by a specification of its own, in which the client *)
(* assigns, decides, dequeues and backtracks in any order its contract     *)
(* allows.  Every step of SatCore is a step of this specification.         *)
(***************************************************************************)
EXTENDS SatLits

VARIABLES
  val,      (* mVal & 3: value of each variable                           *)
  level,    (* mDecisionLevel: stale once the variable is unassigned      *)
  reason,   (* mReason: stale once the variable is unassigned             *)
  trail,    (* AssignList::mList                                          *)
  head,     (* AssignList::mHead, number of literals already dequeued     *)
  marker    (* AssignList::mMarker, marker[k+1] is the start of level k   *)

trailVars == <<val, level, reason, trail, head, marker>>

Eval(l) == ValueOf(val, l)
DecisionLevel == Len(marker) - 1
HasElem == head < Len(trail)
LevelOf(l) == level[VarOf(l)]

TrailInit ==
  /\ val = [v \in Var |-> 0]
  /\ level = [v \in Var |-> 0]
  /\ reason = [v \in Var |-> None]
  /\ trail = <<>>
  /\ head = 0
  /\ marker = <<0>>          \* the constructor calls set_marker()

(* The arrays and the list after l is assigned at level k for reason r.    *)
Put(l, k, r) ==
  /\ val' = [val EXCEPT ![VarOf(l)] = IF l > 0 THEN 1 ELSE -1]
  /\ level' = [level EXCEPT ![VarOf(l)] = k]
  /\ reason' = [reason EXCEPT ![VarOf(l)] = r]
  /\ trail' = Append(trail, l)
  /\ head' = head

Assign(l, r) == Put(l, DecisionLevel, r) /\ UNCHANGED marker

(* Variant: the marker is set one position too far.                        *)
SetMarkerLate ==
  /\ marker' = Append(marker, Len(trail) + 1)
  /\ UNCHANGED <<val, level, reason, trail, head>>

SetMarker ==
  /\ marker' = Append(marker, Len(trail))
  /\ UNCHANGED <<val, level, reason, trail, head>>

(* Variant: the level is read before set_marker().                         *)
DecideBelow(l) ==
  /\ Put(l, DecisionLevel, None)
  /\ marker' = Append(marker, Len(trail))

(* set_marker() followed by assign(l): the new level is opened first.      *)
Decide(l) ==
  /\ Put(l, DecisionLevel + 1, None)
  /\ marker' = Append(marker, Len(trail))

GetNext ==
  /\ HasElem
  /\ head' = head + 1
  /\ UNCHANGED <<val, level, reason, trail, marker>>

(* Variables assigned above level k.                                       *)
Undone(k) == {VarOf(trail[i]) : i \in marker[k + 2] + 1 .. Len(trail)}

(* Variants: the read position is left where it was; the popped variables  *)
(* keep their values.                                                      *)
BacktrackKeepsHead(k) ==
  IF k < DecisionLevel
    THEN /\ val' = [v \in Var |-> IF v \in Undone(k) THEN 0 ELSE val[v]]
         /\ trail' = SubSeq(trail, 1, marker[k + 2])
         /\ marker' = SubSeq(marker, 1, k + 1)
         /\ UNCHANGED <<level, reason, head>>
    ELSE UNCHANGED trailVars

BacktrackKeepsValues(k) ==
  IF k < DecisionLevel
    THEN /\ trail' = SubSeq(trail, 1, marker[k + 2])
         /\ head' = marker[k + 2]
         /\ marker' = SubSeq(marker, 1, k + 1)
         /\ UNCHANGED <<val, level, reason>>
    ELSE UNCHANGED trailVars

(***************************************************************************)
(* SatCore::backtrack(k): a no-op unless k is below the current level.     *)
(* AssignList::backtrack moves the read position to the marker of level    *)
(* k + 1 and drops the markers; get_prev() then pops every literal above   *)
(* the read position, so that the queue is empty afterwards.               *)
(***************************************************************************)
Backtrack(k) ==
  IF k < DecisionLevel
    THEN /\ val' = [v \in Var |-> IF v \in Undone(k) THEN 0 ELSE val[v]]
         /\ trail' = SubSeq(trail, 1, marker[k + 2])
         /\ head' = marker[k + 2]
         /\ marker' = SubSeq(marker, 1, k + 1)
         /\ UNCHANGED <<level, reason>>
    ELSE UNCHANGED trailVars

(***************************************************************************)
(* The contract of the trail's clients: only unassigned variables are      *)
(* assigned, and a level is opened only when the queue is empty.           *)
(***************************************************************************)
TrailNext ==
  \/ \E l \in Lit, r \in Reason : Eval(l) = 0 /\ Assign(l, r)
  \/ \E l \in Lit : Eval(l) = 0 /\ ~HasElem /\ Decide(l)
  \/ ~HasElem /\ SetMarker
  \/ GetNext
  \/ \E k \in 0 .. DecisionLevel - 1 : Backtrack(k)

TrailSpec == TrailInit /\ [][TrailNext]_trailVars
-----------------------------------------------------------------------------
(* Types of the trail's variables.                                         *)
TrailTypeOK ==
  /\ val \in [Var -> Bool3]
  /\ level \in [Var -> Nat]
  /\ reason \in [Var -> Reason]
  /\ trail \in Seq(Lit)
  /\ head \in 0 .. Len(trail)
  /\ marker \in Seq(Nat) /\ Len(marker) > 0

(* A variable is on the list exactly when it has a value, at most once,    *)
(* and the list holds its true literal.                                    *)
TrailIsAssignment ==
  /\ \A i \in 1 .. Len(trail) : Eval(trail[i]) = 1
  /\ \A i, j \in 1 .. Len(trail) : VarOf(trail[i]) = VarOf(trail[j]) => i = j
  /\ \A v \in Var : val[v] # 0 => \E i \in 1 .. Len(trail) : VarOf(trail[i]) = v

(* The markers cut the list into levels: they start at 0, never decrease,  *)
(* never pass the read position.                                           *)
MarkersOrdered ==
  /\ marker[1] = 0
  /\ \A i, j \in 1 .. Len(marker) : i <= j => marker[i] <= marker[j]
  /\ \A i \in 1 .. Len(marker) : marker[i] <= head

(* mDecisionLevel agrees with the markers: a literal recorded at level k   *)
(* lies between the start of level k and the start of level k + 1.         *)
LevelsMatchMarkers ==
  \A i \in 1 .. Len(trail) :
    LET k == LevelOf(trail[i]) IN
      /\ k <= DecisionLevel
      /\ marker[k + 1] < i
      /\ k < DecisionLevel => i <= marker[k + 2]

TrailInv == TrailTypeOK /\ TrailIsAssignment /\ MarkersOrdered /\ LevelsMatchMarkers
=============================================================================
