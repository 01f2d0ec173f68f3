----------------------------- MODULE SatEncoder -----------------------------
(***************************************************************************)
(* All encoders of the facade: those of CountEncoder, adders and counters  *)
(* (SatSolver_tseitin.cc), "at most / at least k" (SatSolver_count.cc),    *)
(* comparisons of bit vectors (SatSolver_bv.cc), SatOrderedSet, and the    *)
(* expressions and AIGs of ExprEncoder.                                    *)
(*                                                                         *)
(* The auxiliary variables of an encoder are no decision variables: the    *)
(* engine answers True as soon as the others are decided and unit          *)
(* propagation has found no conflict.  So an encoding is right when        *)
(* propagation alone tells the inputs it accepts from those it refuses.    *)
(***************************************************************************)
EXTENDS CountEncoder, ExprEncoder

CONSTANTS
  IntWidth,      (* bits of an int                                          *)
  Exprs,         (* the expressions a client may pass, by number            *)
  AigLists       (* the lists of AIG handles a client may pass, by number   *)

VARIABLES
  returned,      (* the literals add_expr() and add_aig() returned, which   *)
                 (* the client assumes from then on                         *)
  pri,           (* mPriVarArray of the client's SatOrderedSet,             *)
  oneHot         (* and its mVarArray                                       *)

setVars == <<pri, oneHot>>
vars == <<countVars, returned, setVars>>

-----------------------------------------------------------------------------
(***************************************************************************)
(* add_adder(): In is the two operands and the carry in, the first operand *)
(* Arg literals long; Out is the sum and the carry out.  Beyond the longer *)
(* operand the carry is copied to one bit of the sum, the others are 0.    *)
(***************************************************************************)
AddAdder ==
  /\ On("adder")
  /\ LET a == First(Arg)
         b == SubSeq(In, Arg + 1, Len(In) - 1)
         ns == Len(Out) - 1
         long == Larger(Len(a), Len(b))
         carry(i) == IF i = 0 THEN In[Len(In)]
                     ELSE IF i = ns THEN Out[ns + 1] ELSE Fresh(i)
         bit(i) == IF i <= Len(a) /\ i <= Len(b)
                   THEN FullAdder(a[i], b[i], carry(i - 1), Out[i], carry(i))
                   ELSE HalfAdder(IF i <= Len(a) THEN a[i] ELSE b[i],
                                  carry(i - 1), Out[i], carry(i))
         zeros == IF long = ns THEN {}
                  ELSE BuffGate(carry(long), Out[long + 1]) \cup
                       {<<-Out[i]>> : i \in long + 2 .. ns + 1}
     IN  Become(Smaller(long, ns - 1), Batch(UNION {bit(i) : i \in 1 .. long} \cup zeros))

(* get_ln(): the width of a counter of n literals.                         *)
CounterWidth(n) == CHOOSE w \in 0 .. n : 2^w > n /\ (w = 0 \/ 2^(w - 1) <= n)

(***************************************************************************)
(* add_counter(), with its outputs in Out; of one literal it returns the   *)
(* literal itself (see Counted).                                           *)
(***************************************************************************)
AddCounterSmall ==
  /\ On("counter")
  /\ Len(In) \in 2 .. 5
  /\ CASE Len(In) = 2 -> Become(0, <<GateCall("half_adder", In, <<Out[2], Out[1]>>)>>)
       [] Len(In) = 3 -> Become(0, <<GateCall("full_adder", In, <<Out[2], Out[1]>>)>>)
       [] Len(In) = 4 ->
            Become(5, <<GateCall("half_adder", First(2), <<Fresh(2), Fresh(1)>>),
                        GateCall("half_adder", Rest(2), <<Fresh(4), Fresh(3)>>),
                        GateCall("half_adder", <<Fresh(1), Fresh(3)>>, <<Fresh(5), Out[1]>>),
                        GateCall("full_adder", <<Fresh(2), Fresh(4), Fresh(5)>>,
                                 <<Out[3], Out[2]>>)>>)
       [] Len(In) = 5 ->      \* Fresh(5) is made and not used
            Become(5, <<GateCall("half_adder", First(2), <<Fresh(2), Fresh(1)>>),
                        GateCall("half_adder", SubSeq(In, 3, 4), <<Fresh(4), Fresh(3)>>),
                        CallOf("adder", <<Fresh(1), Fresh(2), Fresh(3), Fresh(4), In[5]>>,
                               Out, <<2>>)>>)

(* add_counter(s) by the running call, returning to use(outputs): base is  *)
(* the last variable made before it.                                       *)
Counted(s, base) == IF Len(s) = 1 THEN s ELSE LitsFrom(base, CounterWidth(Len(s)))
CountCalls(s, base) ==
  IF Len(s) = 1 THEN <<>> ELSE <<GateCall("counter", s, Counted(s, base))>>
CountVars(s) == IF Len(s) = 1 THEN 0 ELSE CounterWidth(Len(s))

(* Two counters of nearly the same size, added with the last literal as    *)
(* the carry in.                                                           *)
AddCounterLarge ==
  /\ On("counter")
  /\ Len(In) > 5
  /\ LET n1 == (Len(In) - 1) \div 2
         s1 == First(n1)
         s2 == SubSeq(In, n1 + 1, Len(In) - 1)
         base2 == nvar + CountVars(s1)
     IN  Become(CountVars(s1) + CountVars(s2),
           CountCalls(s1, nvar) \o CountCalls(s2, base2) \o
           <<CallOf("adder", Counted(s1, nvar) \o Counted(s2, base2) \o <<In[Len(In)]>>,
                    Out, <<Len(Counted(s1, nvar))>>)>>)

(* Of no literal: (0 - 1) / 2 is a huge number of literals, and the vector *)
(* for them throws length_error.                                           *)
AddCounterEmpty ==
  /\ On("counter")
  /\ In = <<>>
  /\ todo' = <<>>
  /\ UNCHANGED <<nvar, cond, clauses, sane, thrown, script, asked>>

CountAndCompare(op) ==
  Become(CountVars(In), CountCalls(In, nvar) \o
                        <<CallOf(op, Counted(In, nvar), <<>>, <<Arg>>)>>)

AtMostK ==
  /\ On("at_most_k")
  /\ IF Len(In) <= Arg THEN Become(0, <<>>) ELSE CountAndCompare("le_const")

(* Variant: k = n taken for impossible.                                    *)
AtLeastKVariant ==
  /\ On("at_least_k")
  /\ CASE Arg = 0 -> Become(0, <<>>)
       [] Arg >= Len(In) /\ Arg > 0 -> Become(CountVars(In), Batch({<<>>}) \o
                             CountCalls(In, nvar) \o
                             <<CallOf("ge_const", Counted(In, nvar), <<>>, <<Arg>>)>>)
       [] Arg \in 1 .. Len(In) - 1 -> CountAndCompare("ge_const")

AtLeastK ==
  /\ On("at_least_k")
  /\ CASE Arg = 0 -> Become(0, <<>>)
       [] Arg > Len(In) -> Become(CountVars(In), Batch({<<>>}) \o
                             CountCalls(In, nvar) \o
                             <<CallOf("ge_const", Counted(In, nvar), <<>>, <<Arg>>)>>)
       [] Arg \in 1 .. Len(In) -> CountAndCompare("ge_const")

ExactK ==
  /\ On("exact_k")
  /\ Become(0, <<CallOf("at_most_k", In, <<>>, <<Arg>>), CallOf("at_least_k", In, <<>>, <<Arg>>)>>)

-----------------------------------------------------------------------------
(***************************************************************************)
(* Comparisons of a vector with an int.                                    *)
(***************************************************************************)
(* 1 << n *)
Shl(n) == IF n = IntWidth - 1 THEN -(2^n) ELSE 2^n
(* Variant: 2^n counted among the values of n bits.                        *)
TooBigVariant == Shl(Len(In)) < Arg
TooBig == Shl(Len(In)) <= Arg

(* Bit j of the constant is 1, two's complement.                           *)
OneAt(j) == (Arg \div 2^(j - 1)) % 2 = 1
(* Tells that bit j of the vector is bit j of the constant.                *)
Agree(j) == IF OneAt(j) THEN In[j] ELSE -In[j]

EqConst ==
  /\ On("eq_const")
  /\ Become(0, Batch(IF TooBig THEN {<<>>} ELSE {<<Agree(j)>> : j \in DOMAIN In}))

NeConst ==
  /\ On("ne_const")
  /\ Become(0, IF TooBig THEN <<>> ELSE Batch({[j \in DOMAIN In |-> -Agree(j)]}))

(***************************************************************************)
(* From the high bits down, as in Compare: equal(j) tells that the bits    *)
(* from j on agree, ends(j) that the comparison is decided at bit j.  Only *)
(* where the constant has a 1 can the vector be less, only where it has a  *)
(* 0 can it be greater.                                                    *)
(***************************************************************************)
CompareConst(less, strict) ==
  LET n == Len(In)
      last == IF strict THEN 1 ELSE 2
      mids == last .. n - 1
      open(j) == OneAt(j) = less
      ending == {j \in mids : open(j)} \cup (IF strict \/ open(1) THEN {} ELSE {1})
      equal(j) == IF j = n THEN Agree(n) ELSE Fresh(n - j)
      sofar(j) == IF j = n THEN Agree(n) ELSE equal(j + 1)
      ends(j) == Fresh(Cardinality(mids) + Cardinality({i \in ending : i >= j}))
      endsAt == SelectSeq([i \in 1 .. n |-> n + 1 - i], LAMBDA j : j \in ending)
      decided == (IF open(n) THEN <<-Agree(n)>> ELSE <<>>) \o
                 [i \in DOMAIN endsAt |-> ends(endsAt[i])] \o
                 (IF ~strict /\ open(1) THEN <<sofar(1)>> ELSE <<>>)
  IN  Become(Cardinality(mids) + Cardinality(ending),
             Batch(UNION {AndGate(equal(j), <<sofar(j), Agree(j)>>) : j \in mids} \cup
                   UNION {AndGate(ends(j), <<sofar(j), IF j \in mids THEN -Agree(j) ELSE Agree(j)>>) :
                            j \in ending} \cup
                   {decided}))

LtConst == On("lt_const") /\ IF TooBig THEN Become(0, <<>>) ELSE CompareConst(TRUE, TRUE)
LeConst == On("le_const") /\ IF TooBig THEN Become(0, <<>>) ELSE CompareConst(TRUE, FALSE)
GtConst == On("gt_const") /\ IF TooBig THEN Become(0, Batch({<<>>})) ELSE CompareConst(FALSE, TRUE)
GeConst == On("ge_const") /\ IF TooBig THEN Become(0, Batch({<<>>})) ELSE CompareConst(FALSE, FALSE)

CountCalled ==
  /\ \/ CountStep
     \/ AddAdder \/ AddCounterSmall \/ AddCounterLarge \/ AddCounterEmpty
     \/ AtMostK \/ AtLeastK \/ ExactK
     \/ EqConst \/ NeConst \/ LtConst \/ LeConst \/ GtConst \/ GeConst
  /\ UNCHANGED <<returned, setVars>>

-----------------------------------------------------------------------------
(***************************************************************************)
(* SatOrderedSet.  pri[i] tells that the value is at least min + i, and    *)
(* oneHot[i] that it is min + i - 1.  Arg is the number of values, then    *)
(* (for the constraints) a value less min.                                 *)
(***************************************************************************)
(* x is true if the value has reached the bound of lo and not that of hi.  *)
(* Variant: a bit of the order encoding taken for a bit of the one-hot.    *)
BetweenVariant(x, lo, hi) == BuffGate(x, lo)
Between(x, lo, hi) == AndGate(x, <<lo, -hi>>)

MakeOrderedSet ==
  /\ On("ordered_set")
  /\ LET n1 == Arg - 1
         p(i) == Fresh(i)
         x(i) == IF i = 0 THEN -p(1) ELSE IF i = n1 THEN p(n1) ELSE Fresh(n1 + i)
     IN  IF n1 = 0
         THEN /\ Become(1, Batch({<<Fresh(1)>>}))
              /\ pri' = <<>>
              /\ oneHot' = <<Fresh(1)>>
         ELSE /\ Become(2 * n1 - 1,
                        Batch({<<p(i - 1), -p(i)>> : i \in 2 .. n1} \cup
                              UNION {Between(x(i), p(i), p(i + 1)) : i \in 1 .. n1 - 1}))
              /\ pri' = [i \in 1 .. n1 |-> p(i)]
              /\ oneHot' = [i \in 1 .. Arg |-> x(i - 1)]
  /\ UNCHANGED returned

(* add_ge_constraint(), add_le_constraint(), add_dropoff_constraint().     *)
OrderedConstraint ==
  /\ \/ On("set_ge") /\
          Become(0, IF Arg = 0 THEN <<>> ELSE Batch({<<pri[Arg]>>}))
     \/ On("set_le") /\
          Become(0, IF Arg = Len(pri) THEN <<>> ELSE Batch({<<-pri[Arg + 1]>>}))
     \/ On("set_dropoff") /\
          LET u == Arg
              l == Head(todo).arg[2]
          IN  Become(0, IF u >= l THEN <<>> ELSE Batch({<<-pri[u + 1], pri[l]>>}))
  /\ UNCHANGED <<returned, setVars>>

-----------------------------------------------------------------------------
(* add_expr(): what Expr2Cnf leaves, then its XOR gates, then an exception *)
(* if it met a variable it does not know, or the constant 0.               *)
Encoded(r) ==
  /\ Become(r.n - nvar,
            Batch(r.cls) \o
            [i \in DOMAIN r.xors |-> GateCall("xor", r.xors[i][2], <<r.xors[i][1]>>)] \o
            (IF r.failed THEN <<Call("throw", <<>>)>> ELSE <<>>))
  /\ returned' = IF r.failed THEN returned ELSE returned \cup ToSet(r.lits)
  /\ UNCHANGED setVars

AddExpr == On("expr") /\ Encoded(MakeCnf(Exprs[Arg], StartAt(nvar)))
AddAig == On("aig") /\ Encoded(MakeAigs(AigLists[Arg], StartAt(nvar)))

(* The exception leaves the running call; what it has added stays, and     *)
(* nothing is promised for it.                                             *)
Throw ==
  /\ On("throw")
  /\ todo' = <<>>
  /\ asked' = [asked EXCEPT ![Len(asked)].call.op = "throw"]
  /\ UNCHANGED <<nvar, cond, clauses, sane, thrown, script, returned, setVars>>

-----------------------------------------------------------------------------
Init == CountInit /\ returned = {} /\ pri = <<>> /\ oneHot = <<>>

Next ==
  \/ CountCalled
  \/ MakeOrderedSet \/ OrderedConstraint \/ AddExpr \/ AddAig \/ Throw
  \/ ClientDone /\ UNCHANGED <<returned, setVars>>

Spec == Init /\ [][Next]_vars

-----------------------------------------------------------------------------
(***************************************************************************)
(* What the calls of this module promise of an assignment v.               *)
(***************************************************************************)
MeansMore(v, c) ==
  LET n == Count(v, c.in)
      value == Count(v, pri)
  IN  /\ c.op = "at_most_k" => n <= c.arg[1]
      /\ c.op = "at_least_k" => n >= c.arg[1]
      /\ c.op = "exact_k" => n = c.arg[1]
      /\ c.op = "counter" => ValueOf(v, c.out) = n
      /\ c.op = "adder" =>
           ValueOf(v, Lhs(c)) + ValueOf(v, SubSeq(Rhs(c), 1, Len(Rhs(c)) - 1)) +
             ValueOf(v, <<c.in[Len(c.in)]>>) = ValueOf(v, c.out)
      /\ c.op \in {"eq_const", "ne_const", "lt_const", "le_const", "gt_const", "ge_const"} =>
           Compared(c.op, ValueOf(v, c.in), c.arg[1])
      /\ c.op = "ordered_set" =>
           \A i \in 2 .. Len(pri) : True(v, pri[i]) => True(v, pri[i - 1])
      /\ c.op = "set_ge" => value >= c.arg[1]
      /\ c.op = "set_le" => value <= c.arg[1]
      /\ c.op = "set_dropoff" => value <= c.arg[1] \/ value >= c.arg[2]
      /\ c.op = "expr" => Eval(v, Exprs[c.arg[1]])
      /\ c.op = "aig" => \A i \in DOMAIN AigLists[c.arg[1]] : EvalAig(v, AigLists[c.arg[1]][i])

Kept(v, r) == AllTrue(v, r.cond) => Means(v, r.call) /\ MeansMore(v, r.call)

(***************************************************************************)
(* The variables a client can read: those in its calls, expressions and    *)
(* AIGs, and those of its ordered set.                                     *)
(***************************************************************************)
Inside(c) ==
  IF c.op = "expr" THEN LitsIn(Exprs[c.arg[1]])
  ELSE IF c.op = "aig" THEN UNION {LitsIn(h) : h \in ToSet(AigLists[c.arg[1]])}
  ELSE {}
Used ==
  (Named \cup VarsOf(pri) \cup
   {Abs(l) : l \in UNION {Inside(asked[i].call) : i \in DOMAIN asked}}) \ {0}

Assignments == [Used -> BOOLEAN]
AllKept(v) == \A i \in DOMAIN asked : Kept(v, asked[i])

(* What the engine is given when the client's variables have these values. *)
Given(v) == LitsOf(v) \cup returned

(***************************************************************************)
(* Exact for the calls of this module: unit propagation refuses exactly    *)
(* the values of the client's variables that break a promise.              *)
(***************************************************************************)
MoreExact ==
  ~OnlyCounts /\ Quiescent => \A v \in Assignments : Accepts(Given(v)) <=> AllKept(v)

(***************************************************************************)
(* An answer True that leaves auxiliary variables undecided has a model:   *)
(* the clauses that still wait for them can be satisfied.                  *)
(***************************************************************************)
MoreComplete ==
  ~OnlyCounts /\ Quiescent => \A v \in Assignments : AllKept(v) =>
    LET known == Propagated(clauses, Given(v))
        rest == Waiting(known)
    IN  /\ Consistent(known)
        /\ \E T \in SUBSET {Abs(l) : l \in UNION rest} :
             \A c \in rest : \E l \in c : (l > 0) = (Abs(l) \in T)

(***************************************************************************)
(* add_clause() throws in the middle of an encoder only if what the client *)
(* asked for cannot be satisfied.                                          *)
(***************************************************************************)
ThrownOnlyIfUnsat == thrown => \A v \in Assignments : ~AllKept(v)

(***************************************************************************)
(* var(val) is true, and the other vars() false, when the value is val.    *)
(***************************************************************************)
OneHot ==
  Quiescent =>
    \A i \in DOMAIN asked : asked[i].call.op = "ordered_set" =>
      \A v \in Assignments : AllKept(v) /\ AllTrue(v, asked[i].cond) =>
        \A j \in DOMAIN oneHot :
          (IF Count(v, pri) = j - 1 THEN oneHot[j] ELSE -oneHot[j])
            \in Propagated(clauses, Given(v))

(***************************************************************************)
(* A solution found under the literals that add_expr() returned satisfies  *)
(* the expression.                                                         *)
(***************************************************************************)
ExprIsSatisfied ==
  Quiescent =>
    \A i \in DOMAIN asked : asked[i].call.op = "expr" =>
      \A v \in Assignments : Accepts(Given(v)) => Kept(v, asked[i])
=============================================================================
