------------------------------- MODULE Gates -------------------------------
(***************************************************************************)
(* The encodings of SatSolver.h and SatSolver_tseitin.cc that are a fixed  *)
(* set of clauses, and what literals and clauses mean.                     *)
(*                                                                         *)
(* A literal is an integer l # 0, of variable l or -l; a clause is a       *)
(* sequence of literals, and what an encoder adds is a set of clauses: the *)
(* order in which one call adds them is left out.  The variants of a       *)
(* function for two, three, ... literals and for a vector of them are one  *)
(* operator of the sequence s.                                             *)
(***************************************************************************)
EXTENDS Integers, Sequences, FiniteSets

Literal == Int \ {0}
Clause == Seq(Literal)

(* An assignment v gives a truth value to each variable.                   *)
True(v, l) == IF l > 0 THEN v[l] ELSE ~v[-l]
Satisfied(v, C) == \E i \in DOMAIN C : True(v, C[i])
AllSatisfied(v, S) == \A C \in S : Satisfied(v, C)

(* The number of positions of s whose literal is true.                     *)
Count(v, s) == Cardinality({i \in DOMAIN s : True(v, s[i])})

Negated(s) == [i \in DOMAIN s |-> -s[i]]

(* s without its position i.                                               *)
Without(s, i) == [j \in 1 .. Len(s) - 1 |-> IF j < i THEN s[j] ELSE s[j + 1]]

-----------------------------------------------------------------------------
BuffGate(a, b) == {<<-a, b>>, <<a, -b>>}

AndGate(o, s) == {<<s[i], -o>> : i \in DOMAIN s} \cup {Append(Negated(s), o)}

OrGate(o, s) == {<<-s[i], o>> : i \in DOMAIN s} \cup {Append(s, -o)}

XorGate2(o, a, b) ==
  {<<a, b, -o>>, <<a, -b, o>>, <<-a, b, o>>, <<-a, -b, -o>>}

(* Variant: the sums of the three literals are not all listed.             *)
XorGate3Variant(o, a, b, c) == XorGate2(o, a, b) \cup {<<-c, o>>, <<c, -o>>}

XorGate3(o, a, b, c) ==
  {<<a, b, c, -o>>, <<a, b, -c, o>>, <<a, -b, c, o>>, <<a, -b, -c, -o>>,
   <<-a, b, c, o>>, <<-a, b, -c, -o>>, <<-a, -b, c, -o>>, <<-a, -b, -c, o>>}

HalfAdder(a, b, s, o) ==
  XorGate2(s, a, b) \cup {<<-o, a>>, <<-o, b>>, <<o, -a, -b>>}

FullAdder(a, b, c, s, o) ==
  XorGate3(s, a, b, c) \cup
  {<<-o, a, b>>, <<-o, a, c>>, <<-o, b, c>>,
   <<o, -a, -b>>, <<o, -a, -c>>, <<o, -b, -c>>}

(***************************************************************************)
(* Counting constraints that list the forbidden patterns.                  *)
(***************************************************************************)
AtMostOneOf(s) ==
  {<<-s[p[1]], -s[p[2]]>> : p \in {q \in (DOMAIN s) \X (DOMAIN s) : q[1] < q[2]}}

(* Variant: neighbours only.                                               *)
AtMostTwoOfVariant(s) == {<<-s[i], -s[i + 1], -s[i + 2]>> : i \in 1 .. Len(s) - 2}

AtMostTwoOf(s) ==
  {<<-s[p[1]], -s[p[2]], -s[p[3]]>> :
     p \in {q \in (DOMAIN s) \X (DOMAIN s) \X (DOMAIN s) : q[1] < q[2] /\ q[2] < q[3]}}

AtLeastTwoOf(s) == {Without(s, i) : i \in DOMAIN s}

NotOneOf(s) == {[s EXCEPT ![i] = -s[i]] : i \in DOMAIN s}

=============================================================================
