------------------------------ MODULE Vectors ------------------------------
(***************************************************************************)
(* Vectors of literals as SatSolver_bv.cc reads them, low bit first, and   *)
(* the clauses that compare two of them.                                   *)
(***************************************************************************)
EXTENDS Gates

Larger(m, n) == IF m > n THEN m ELSE n
Smaller(m, n) == IF m < n THEN m ELSE n
LitsFrom(n, len) == [i \in 1 .. len |-> n + i]

(* 2 to the power n.                                                       *)
Pow[n \in Nat] == IF n = 0 THEN 1 ELSE 2 * Pow[n - 1]

(* The value of a vector of literals.                                      *)
ValueOf(v, s) ==
  LET f[i \in Nat] ==
        IF i = 0 THEN 0 ELSE f[i - 1] + (IF True(v, s[i]) THEN Pow[i - 1] ELSE 0)
  IN  f[Len(s)]

Compared(op, m, n) ==
  /\ op \in {"eq", "eq_const"} => m = n
  /\ op \in {"ne", "ne_const"} => m # n
  /\ op \in {"lt", "lt_const"} => m < n
  /\ op \in {"le", "le_const"} => m <= n
  /\ op \in {"gt", "gt_const"} => m > n
  /\ op \in {"ge", "ge_const"} => m >= n

-----------------------------------------------------------------------------
(* The bits that two vectors a and b have in common, and the others.       *)
Common(a, b) == Smaller(Len(a), Len(b))
Extra(a, b) ==
  SubSeq(IF Len(a) > Len(b) THEN a ELSE b, Common(a, b) + 1, Larger(Len(a), Len(b)))

EqualBits(a, b) ==
  {<<-Extra(a, b)[i]>> : i \in DOMAIN Extra(a, b)} \cup
  UNION {BuffGate(a[i], b[i]) : i \in 1 .. Common(a, b)}

(* The variables made, the first one after x, tell which bits differ.      *)
DifferentBits(a, b, x) ==
  (UNION {XorGate2(x + i, a[i], b[i]) : i \in 1 .. Common(a, b)}) \cup
  {Extra(a, b) \o LitsFrom(x, Common(a, b))}

-----------------------------------------------------------------------------
(* l: f, and a is less than b at this bit.                                 *)
LessHere(l, f, a, b) == AndGate(l, <<f, -a, b>>)
(* l: f, and a is at most b at this, the last, bit.                        *)
AtMostHere(l, f, a, b) == {<<-l, f>>, <<-l, -a, b>>, <<l, -f, a>>, <<l, -f, -b>>}
(* e: f, and a equals b at this bit.                                       *)
EqualHere(e, f, a, b) ==
  {<<-e, f>>, <<-e, -a, b>>, <<-e, a, -b>>, <<e, -f, -a, -b>>, <<e, -f, a, b>>}

(***************************************************************************)
(* add_lt() and add_le() compare from the high bits down; at most one of   *)
(* the literals of their last clause says at which bit a is less.  The     *)
(* bits that are compared one by one are n .. 1.  The literal f tells that *)
(* all before them are equal, and after variable x two are made for each:  *)
(* for "equal so far" and for "less here"; the last bit of add_le() has    *)
(* one only.                                                               *)
(***************************************************************************)
EqualAbove(f, x, n, j) == IF j = n THEN f ELSE x + 2 * (n - j) - 1
LessAt(strict, x, n, j) == x + 2 * (n - j) + (IF strict \/ j > 1 THEN 2 ELSE 1)

CompareBit(strict, a, b, f, x, n, j) ==
  LET so_far == EqualAbove(f, x, n, j)
      less == LessAt(strict, x, n, j)
  IN  IF strict \/ j > 1
      THEN EqualHere(EqualAbove(f, x, n, j - 1), so_far, a[j], b[j]) \cup
           LessHere(less, so_far, a[j], b[j])
      ELSE AtMostHere(less, so_far, a[j], b[j])

(* Before these bits: the top bit, if both vectors have it, or all that    *)
(* only the longer one has.                                                *)
OneByOne(a, b) == IF Len(a) = Len(b) THEN Common(a, b) - 1 ELSE Common(a, b)
TopVars(a, b) == IF Len(a) = Len(b) THEN 2 ELSE 1
CompareTop(a, b, x) ==
  LET c == Common(a, b)
  IN  IF Len(a) = Len(b)
      THEN XorGate2(-(x + 1), a[c], b[c]) \cup AndGate(x + 2, <<-a[c], b[c]>>)
      ELSE AndGate(x + 1, Negated(Extra(a, b)))
LessAtTop(a, b, x) ==
  IF Len(a) = Len(b) THEN <<x + 2>> ELSE IF Len(a) < Len(b) THEN Extra(a, b) ELSE <<>>

CompareVars(strict, a, b) == TopVars(a, b) + 2 * OneByOne(a, b) - (IF strict THEN 0 ELSE 1)
CompareBits(strict, a, b, x) ==
  LET n == OneByOne(a, b)
      y == x + TopVars(a, b)
  IN  CompareTop(a, b, x) \cup
      (UNION {CompareBit(strict, a, b, x + 1, y, n, j) : j \in 1 .. n}) \cup
      {LessAtTop(a, b, x) \o [i \in 1 .. n |-> LessAt(strict, y, n, n + 1 - i)]}
=============================================================================
