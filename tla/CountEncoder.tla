---------------------------- MODULE CountEncoder ----------------------------
(***************************************************************************)
(* The facade SatSolver as an encoder: conditional literals, the record of *)
(* clauses, gates, the constraints "at most / at least / exactly one /     *)
(* two" and the comparisons of two vectors, of SatSolver.h,                *)
(* SatSolver_tseitin.cc, SatSolver_count.cc and SatSolver_bv.cc.           *)
(*                                                                         *)
(* An encoder is a C++ function that adds clauses, makes variables and     *)
(* calls other encoders.  todo is what the running call has still to do,   *)
(* first thing first: entering a function replaces its call by what the    *)
(* function does, and a batch of clauses is handed over one by one to      *)
(* add_clause(), which may throw in the middle of everything.              *)
(*                                                                         *)
(* The engine below is abstracted to what add_clause() makes of clauses at *)
(* decision level 0: unit propagation.  SatCore models it.                 *)
(***************************************************************************)
EXTENDS Vectors

CONSTANTS
  NClient,    (* number of variables the client makes before anything else *)
  Sessions,   (* the sequences of calls a client may make                  *)
  MaxVars     (* bound: Sound looks at all models of up to MaxVars         *)
              (* variables                                                 *)

VARIABLES
  nvar,       (* mVariableNum                                            *)
  cond,       (* mConditionalLits                                        *)
  clauses,    (* mClauseList                                             *)
  sane,       (* the engine's mSane                                      *)
  thrown,     (* add_clause() has thrown an exception                    *)
  todo,       (* the rest of the running call                            *)
  script,     (* the calls the client has still to make                  *)
  asked       (* history: the calls made, with the conditions then set   *)

countVars == <<nvar, cond, clauses, sane, thrown, todo, script, asked>>

(***************************************************************************)
(* Calls.  in and out are literals (out the outputs of a gate), arg the    *)
(* further arguments of some functions, cls the clauses of a batch.        *)
(***************************************************************************)
CallOf(op, in, out, arg) ==
  [op |-> op, in |-> in, out |-> out, arg |-> arg, cls |-> {}]
Call(op, in) == CallOf(op, in, <<>>, <<>>)
GateCall(op, in, out) == CallOf(op, in, out, <<>>)
Batch(S) ==
  IF S = {} THEN <<>>
  ELSE << [op |-> "clauses", in |-> <<>>, out |-> <<>>, arg |-> <<>>, cls |-> S] >>

LitsUpTo(n) == (-n .. n) \ {0}

(* The functions of SatSolver, the private ones named for what they do;    *)
(* SatEncoder defines the last three lines.                                *)
CallNames ==
  {"clauses", "set_conditional", "add_clause", "buff", "not", "and", "nand", "or", "nor",
   "xor", "xnor", "half_adder", "full_adder", "at_least_one", "not_one",
   "at_most_one", "exact_one", "at_most_two", "exact_two", "at_least_two",
   "at_most_one_args", "exact_one_args", "at_most_two_args", "exact_two_args",
   "at_least_two_args", "count_one", "count_two", "count_up_to_two",
   "eq", "ne", "lt", "le", "gt", "ge",
   "adder", "counter", "at_most_k", "at_least_k", "exact_k",
   "eq_const", "ne_const", "lt_const", "le_const", "gt_const", "ge_const",
   "ordered_set", "set_ge", "set_le", "set_dropoff", "expr", "aig", "throw"}
VectorNames == {"eq", "ne", "lt", "le", "gt", "ge"}

CallsUpTo(n) ==
  [op : CallNames, in : Seq(LitsUpTo(n)), out : Seq(LitsUpTo(n)), arg : Seq(Int),
   cls : SUBSET Seq(LitsUpTo(n))]

(***************************************************************************)
(* What the parameter lists and the assertions of the functions ask of a   *)
(* call.                                                                   *)
(***************************************************************************)
Shape(c) ==
  /\ c.op = "clauses" => c.cls # {}
  /\ c.op \in {"buff", "not"} => Len(c.in) = 1
  /\ c.op \in {"buff", "not", "and", "nand", "or", "nor", "xor", "xnor", "count_one"} =>
       Len(c.out) = 1
  /\ c.op \in {"half_adder", "full_adder", "count_two", "count_up_to_two"} => Len(c.out) = 2
  /\ c.op = "half_adder" => Len(c.in) = 2
  /\ c.op = "full_adder" => Len(c.in) = 3
  /\ c.op \in {"xor", "xnor", "at_least_two_args", "exact_two_args",
               "count_one", "count_two", "count_up_to_two"} => Len(c.in) >= 2
  /\ c.op \in VectorNames => Len(c.arg) = 1 /\ c.arg[1] \in 1 .. Len(c.in) - 1

ASSUME NClientAssumption == NClient \in Nat
ASSUME SessionsAssumption ==
  /\ Sessions \subseteq Seq(CallsUpTo(NClient))
  /\ \A s \in Sessions : \A i \in 1 .. Len(s) : Shape(s[i])

In == Head(todo).in
Out == Head(todo).out
Arg == Head(todo).arg[1]
On(op) == todo # <<>> /\ Head(todo).op = op

(* The function called does S, after making n variables: what it calls     *)
(* comes before the rest of its caller.                                    *)
Become(n, S) ==
  /\ nvar' = nvar + n
  /\ todo' = S \o Tail(todo)
  /\ UNCHANGED <<cond, clauses, sane, thrown, script, asked>>

(***************************************************************************)
(* The engine's view of a set S of clauses: L with everything unit         *)
(* propagation adds to it.  A clause with a repeated literal counts each   *)
(* of its positions, as add_clause() keeps them all.                       *)
(***************************************************************************)
Implied(S, L) ==
  UNION {{C[i] : i \in {j \in DOMAIN C : \A k \in DOMAIN C \ {j} : -C[k] \in L}} :
           C \in S}

Propagated(S, L0) ==
  LET all == Implied(S, L0) \cup L0
      fix[L \in SUBSET Literal] ==
        LET M == L \cup Implied(S, L) IN IF M = L THEN L ELSE fix[M]
  IN  fix[all]

Consistent(L) == \A l \in L : -l \notin L
Contradictory(S) == <<>> \in S \/ ~Consistent(Propagated(S, {}))

-----------------------------------------------------------------------------
(* Client calls.                                                           *)

ClientMayCall == todo = <<>> /\ ~thrown /\ script # <<>>

(* _set_conditional_literals(); with no literals, clear_...                *)
SetConditionalLiterals ==
  /\ ClientMayCall
  /\ Head(script).op = "set_conditional"
  /\ cond' = Head(script).in
  /\ script' = Tail(script)
  /\ UNCHANGED <<nvar, clauses, sane, thrown, todo, asked>>

Ask ==
  /\ ClientMayCall
  /\ Head(script).op # "set_conditional"
  /\ todo' = <<Head(script)>>
  /\ script' = Tail(script)
  /\ asked' = Append(asked, [cond |-> cond, call |-> Head(script)])
  /\ UNCHANGED <<nvar, cond, clauses, sane, thrown>>

(* A client that has made its calls, or has caught an exception.           *)
ClientDone ==
  /\ todo = <<>>
  /\ thrown \/ script = <<>>
  /\ UNCHANGED countVars

(***************************************************************************)
(* add_clause() for the next clause of a batch: the facade prepends the    *)
(* negated conditions and records the clause; then the engine throws if it *)
(* is known to be contradictory, which leaves every function of todo.      *)
(***************************************************************************)
AddClause ==
  /\ On("clauses")
  /\ LET batch == Head(todo).cls
         C == CHOOSE D \in batch : TRUE
     IN  /\ clauses' = clauses \cup {Negated(cond) \o C}
         /\ thrown' = ~sane
         /\ todo' = IF sane THEN Batch(batch \ {C}) \o Tail(todo) ELSE <<>>
  /\ sane' = (sane /\ ~Contradictory(clauses'))
  /\ UNCHANGED <<nvar, cond, script, asked>>

-----------------------------------------------------------------------------
(* Gates.                                                                  *)

AddClauseCall == On("add_clause") /\ Become(0, Batch({In}))
AddBuffgate == On("buff") /\ Become(0, Batch(BuffGate(Out[1], In[1])))
AddNotgate == On("not") /\ Become(0, <<GateCall("buff", In, Negated(Out))>>)
AddAndgate == On("and") /\ Become(0, Batch(AndGate(Out[1], In)))
AddNandgate == On("nand") /\ Become(0, <<GateCall("and", In, Negated(Out))>>)
AddOrgate == On("or") /\ Become(0, Batch(OrGate(Out[1], In)))
AddNorgate == On("nor") /\ Become(0, <<GateCall("or", In, Negated(Out))>>)
AddXnorgate == On("xnor") /\ Become(0, <<GateCall("xor", In, Negated(Out))>>)
AddHalfAdder ==
  On("half_adder") /\ Become(0, Batch(HalfAdder(In[1], In[2], Out[2], Out[1])))
AddFullAdder ==
  On("full_adder") /\ Become(0, Batch(FullAdder(In[1], In[2], In[3], Out[2], Out[1])))

(* The first n literals of In, and the others.                             *)
First(n) == SubSeq(In, 1, n)
Rest(n) == SubSeq(In, n + 1, Len(In))

(* _add_xorgate_sub().                                                     *)
AddXorgate ==
  /\ On("xor")
  /\ LET n == Len(In)
         l == nvar + 1
         r == nvar + 2
     IN  CASE n = 2 -> Become(0, Batch(XorGate2(Out[1], In[1], In[2])))
           [] n = 3 -> Become(0, Batch(XorGate3(Out[1], In[1], In[2], In[3])))
           [] n > 3 -> Become(2, <<GateCall("xor", First(n \div 2), <<l>>),
                                   GateCall("xor", Rest(n \div 2), <<r>>),
                                   GateCall("xor", <<l, r>>, Out)>>)

-----------------------------------------------------------------------------
(* Counting to one and two, the variants with up to six literal arguments. *)

AtLeastOne == On("at_least_one") /\ Become(0, Batch({In}))
AtMostOneArgs == On("at_most_one_args") /\ Become(0, Batch(AtMostOneOf(In)))
AtMostTwoArgs == On("at_most_two_args") /\ Become(0, Batch(AtMostTwoOf(In)))
AtLeastTwoArgs == On("at_least_two_args") /\ Become(0, Batch(AtLeastTwoOf(In)))
ExactOneArgs ==
  On("exact_one_args") /\
    Become(0, <<Call("at_most_one_args", In), Call("at_least_one", In)>>)
ExactTwoArgs ==
  On("exact_two_args") /\
    Become(0, <<Call("at_most_two_args", In), Call("at_least_two_args", In)>>)
NotOne == On("not_one") /\ Become(0, Batch(NotOneOf(In)))

(***************************************************************************)
(* The same for vectors.  A list of five or more is cut in two halves.     *)
(***************************************************************************)
Half == (Len(In) + 1) \div 2
(* Variant: the numbers of the variables to come, off by one.              *)
FreshVariant(i) == nvar + i + 1
Fresh(i) == nvar + i

(* Each half has at most one true literal, Fresh(1) and Fresh(2) tell      *)
(* whether it has one.                                                     *)
HalvesToOne ==
  <<GateCall("count_one", First(Half), <<Fresh(1)>>),
    GateCall("count_one", Rest(Half), <<Fresh(2)>>)>>

AtMostOne ==
  /\ On("at_most_one")
  /\ LET n == Len(In) IN
     CASE n <= 1 -> Become(0, <<>>)
       [] n \in 2 .. 4 -> Become(0, <<Call("at_most_one_args", In)>>)
       [] n > 4 -> Become(2, HalvesToOne \o Batch({<<-Fresh(1), -Fresh(2)>>}))

ExactOne ==
  /\ On("exact_one")
  /\ LET n == Len(In) IN
     CASE n <= 1 -> Become(0, Batch({In}))
       [] n \in 2 .. 4 -> Become(0, <<Call("exact_one_args", In)>>)
       [] n > 4 -> Become(2, HalvesToOne \o
                    Batch({<<Fresh(1), Fresh(2)>>, <<-Fresh(1), -Fresh(2)>>}))

(* _add_at_most_one().                                                     *)
CountOne ==
  /\ On("count_one")
  /\ LET n == Len(In) IN
     CASE n \in 2 .. 4 -> Become(0, <<Call("at_most_one_args", In),
                                      GateCall("or", In, Out)>>)
       [] n > 4 -> Become(2, HalvesToOne \o Batch({<<-Fresh(1), -Fresh(2)>>}) \o
                    <<GateCall("or", <<Fresh(1), Fresh(2)>>, Out)>>)

(* The numbers of true literals of the halves are Fresh(1) Fresh(2) and    *)
(* Fresh(3) Fresh(4) in binary, high bit first.                            *)
HalvesToTwo(op) ==
  <<GateCall(op, First(Half), <<Fresh(1), Fresh(2)>>),
    GateCall(op, Rest(Half), <<Fresh(3), Fresh(4)>>)>>

(* 1 + 2, 2 + 1 and 2 + 2 are forbidden.                                   *)
SumAtMostTwo(h1, l1, h2, l2) == {<<-l1, -h2>>, <<-h1, -l2>>, <<-h1, -h2>>}

AtMostTwo ==
  /\ On("at_most_two")
  /\ LET n == Len(In) IN
     CASE n <= 2 -> Become(0, <<>>)
       [] n \in 3 .. 4 -> Become(0, <<Call("at_most_two_args", In)>>)
       [] n > 4 -> Become(4, HalvesToTwo("count_two") \o
                    Batch(SumAtMostTwo(Fresh(1), Fresh(2), Fresh(3), Fresh(4))))

(* Variant: 2 + 0 is forbidden, not 2 + 1.                                 *)
SumIsTwoVariant(h1, l1, h2, l2) ==
  {<<h1, l1, h2, l2>>, <<h1, l1, h2, -l2>>, <<h1, -l1, h2, l2>>,
   <<h1, -l1, -h2, l2>>, <<-h1, l1, h2, l2>>, <<-h1, l1, -h2, l2>>}

(* 0 + 0, 0 + 1, 1 + 0, 1 + 2, 2 + 1 and 2 + 2 are forbidden.              *)
SumIsTwo(h1, l1, h2, l2) ==
  {<<h1, l1, h2, l2>>, <<h1, l1, h2, -l2>>, <<h1, -l1, h2, l2>>,
   <<h1, -l1, -h2, l2>>, <<-h1, l1, h2, -l2>>, <<-h1, l1, -h2, l2>>}

ExactTwo ==
  /\ On("exact_two")
  /\ LET n == Len(In) IN
     CASE n < 2 -> Become(0, Batch({<<>>}))
       [] n = 2 -> Become(0, Batch({<<In[1]>>, <<In[2]>>}))
       [] n \in 3 .. 4 -> Become(0, <<Call("exact_two_args", In)>>)
       [] n > 4 -> Become(4, HalvesToTwo("count_two") \o
                    Batch(SumIsTwo(Fresh(1), Fresh(2), Fresh(3), Fresh(4))))

(* The sum of four literals by three half adders, as _add_at_most_two()    *)
(* and _add_at_least_two() write it: 4 is lost in the high bit.            *)
SumOfFour ==
  <<GateCall("half_adder", First(2), <<Fresh(2), Fresh(1)>>),
    GateCall("half_adder", Rest(2), <<Fresh(4), Fresh(3)>>),
    GateCall("half_adder", <<Fresh(1), Fresh(3)>>, <<Fresh(5), Out[2]>>),
    GateCall("or", <<Fresh(2), Fresh(4), Fresh(5)>>, <<Out[1]>>)>>

(* _add_at_most_two().                                                     *)
CountTwo ==
  /\ On("count_two")
  /\ LET n == Len(In)
         atMostTwo == Call("at_most_two_args", In)
     IN
     CASE n = 2 -> Become(0, <<atMostTwo, GateCall("half_adder", In, Out)>>)
       [] n = 3 -> Become(0, <<atMostTwo, GateCall("full_adder", In, Out)>>)
       [] n = 4 -> Become(5, <<atMostTwo>> \o SumOfFour)
       [] n > 4 -> Become(5, HalvesToTwo("count_two") \o
            Batch(SumAtMostTwo(Fresh(1), Fresh(2), Fresh(3), Fresh(4))) \o
            <<GateCall("half_adder", <<Fresh(2), Fresh(4)>>, <<Fresh(5), Out[2]>>),
              GateCall("xor", <<Fresh(1), Fresh(3), Fresh(5)>>, <<Out[1]>>)>>)

AtLeastTwo ==
  /\ On("at_least_two")
  /\ LET n == Len(In) IN
     CASE n < 2 -> Become(0, Batch({<<>>}))
       [] n \in 2 .. 4 -> Become(0, <<Call("at_least_two_args", In)>>)
       [] n > 4 -> Become(4, HalvesToTwo("count_up_to_two") \o
                    Batch({<<Fresh(1), Fresh(2), Fresh(3)>>,
                           <<Fresh(1), Fresh(3), Fresh(4)>>}))

(* _add_at_least_two(): like CountTwo, but any number of literals may be   *)
(* true; two or more set the high bit.                                     *)
CountUpToTwo ==
  /\ On("count_up_to_two")
  /\ LET n == Len(In) IN
     CASE n = 2 -> Become(0, <<GateCall("half_adder", In, Out)>>)
       [] n = 3 -> Become(0, <<GateCall("full_adder", In, Out)>>)
       [] n = 4 -> Become(5, SumOfFour)
       [] n > 4 -> Become(5, HalvesToTwo("count_up_to_two") \o
            <<GateCall("half_adder", <<Fresh(2), Fresh(4)>>, <<Fresh(5), Out[2]>>),
              GateCall("or", <<Fresh(1), Fresh(3), Fresh(5)>>, <<Out[1]>>)>>)

-----------------------------------------------------------------------------
(***************************************************************************)
(* Comparisons of two vectors: In is the two, the first is Arg literals    *)
(* long.                                                                   *)
(***************************************************************************)
VecA == First(Arg)
VecB == Rest(Arg)
OneBitEach == Len(VecA) = 1 /\ Len(VecB) = 1

AddEq == On("eq") /\ Become(0, Batch(EqualBits(VecA, VecB)))
AddNe == On("ne") /\ Become(Common(VecA, VecB), Batch(DifferentBits(VecA, VecB, nvar)))

Compare(strict) ==
  Become(CompareVars(strict, VecA, VecB), Batch(CompareBits(strict, VecA, VecB, nvar)))
AddLt ==
  /\ On("lt")
  /\ IF OneBitEach THEN Become(0, Batch({<<-VecA[1]>>, <<VecB[1]>>})) ELSE Compare(TRUE)
AddLe ==
  /\ On("le")
  /\ IF OneBitEach THEN Become(0, Batch({<<-VecA[1], VecB[1]>>})) ELSE Compare(FALSE)

(* The first operand less than the second: the call for the second greater.*)
Swapped(op) == <<CallOf(op, VecB \o VecA, <<>>, <<Len(VecB)>>)>>
AddGt == On("gt") /\ Become(0, Swapped("lt"))
AddGe == On("ge") /\ Become(0, Swapped("le"))

-----------------------------------------------------------------------------
CountInit ==
  /\ nvar = NClient
  /\ cond = <<>>
  /\ clauses = {}
  /\ sane = TRUE
  /\ thrown = FALSE
  /\ todo = <<>>
  /\ script \in Sessions
  /\ asked = <<>>

CountStep ==
  \/ SetConditionalLiterals \/ Ask \/ AddClause
  \/ AddClauseCall \/ AddBuffgate \/ AddNotgate
  \/ AddAndgate \/ AddNandgate \/ AddOrgate \/ AddNorgate
  \/ AddXorgate \/ AddXnorgate \/ AddHalfAdder \/ AddFullAdder
  \/ AtLeastOne \/ AtMostOneArgs \/ AtMostTwoArgs \/ AtLeastTwoArgs
  \/ ExactOneArgs \/ ExactTwoArgs \/ NotOne
  \/ AtMostOne \/ ExactOne \/ CountOne
  \/ AtMostTwo \/ ExactTwo \/ CountTwo \/ AtLeastTwo \/ CountUpToTwo
  \/ AddEq \/ AddNe \/ AddLt \/ AddLe \/ AddGt \/ AddGe

CountNext == CountStep \/ ClientDone

CountSpec == CountInit /\ [][CountNext]_countVars

-----------------------------------------------------------------------------
(***************************************************************************)
(* What a call promises of an assignment v.                                *)
(***************************************************************************)
Lhs(c) == SubSeq(c.in, 1, c.arg[1])
Rhs(c) == SubSeq(c.in, c.arg[1] + 1, Len(c.in))

Means(v, c) ==
  LET n == Count(v, c.in)
      o == c.out
  IN  /\ c.op = "clauses" => AllSatisfied(v, c.cls)
      /\ c.op \in {"add_clause", "at_least_one"} => n >= 1
      /\ c.op = "buff" => (True(v, o[1]) <=> n = 1)
      /\ c.op = "not" => (True(v, o[1]) <=> n = 0)
      /\ c.op = "and" => (True(v, o[1]) <=> n = Len(c.in))
      /\ c.op = "nand" => (True(v, o[1]) <=> n # Len(c.in))
      /\ c.op = "or" => (True(v, o[1]) <=> n >= 1)
      /\ c.op = "nor" => (True(v, o[1]) <=> n = 0)
      /\ c.op = "xor" => (True(v, o[1]) <=> n % 2 = 1)
      /\ c.op = "xnor" => (True(v, o[1]) <=> n % 2 = 0)
      /\ c.op \in {"half_adder", "full_adder", "count_up_to_two"} =>
           (True(v, o[1]) <=> n >= 2) /\ (True(v, o[2]) <=> n % 2 = 1)
      /\ c.op \in {"at_most_one", "at_most_one_args"} => n <= 1
      /\ c.op \in {"exact_one", "exact_one_args"} => n = 1
      /\ c.op = "not_one" => n # 1
      /\ c.op = "count_one" => n <= 1 /\ (True(v, o[1]) <=> n = 1)
      /\ c.op \in {"at_most_two", "at_most_two_args"} => n <= 2
      /\ c.op \in {"exact_two", "exact_two_args"} => n = 2
      /\ c.op \in {"at_least_two", "at_least_two_args"} => n >= 2
      /\ c.op = "count_two" =>
           n <= 2 /\ (True(v, o[1]) <=> n = 2) /\ (True(v, o[2]) <=> n = 1)
      /\ c.op \in VectorNames => Compared(c.op, ValueOf(v, Lhs(c)), ValueOf(v, Rhs(c)))

AllTrue(v, s) == \A i \in DOMAIN s : True(v, s[i])
Promised(v, r) == AllTrue(v, r.cond) => Means(v, r.call)

Quiescent == todo = <<>> /\ ~thrown

-----------------------------------------------------------------------------
(***************************************************************************)
(* Every literal that reaches add_clause() is of a variable that exists,   *)
(* and every function is called with as many literals as it asserts.       *)
(***************************************************************************)
CountTypeOK ==
  /\ nvar \in Nat /\ nvar >= NClient
  /\ cond \in Seq(LitsUpTo(nvar))
  /\ clauses \subseteq Seq(LitsUpTo(nvar))
  /\ sane \in BOOLEAN /\ thrown \in BOOLEAN
  /\ todo \in Seq(CallsUpTo(nvar))
  /\ \A i \in 1 .. Len(todo) : Shape(todo[i])
  /\ asked \in Seq([cond : Seq(LitsUpTo(nvar)), call : CallsUpTo(nvar)])

(***************************************************************************)
(* Gates, counting constraints and comparisons: whatever values the        *)
(* auxiliary variables of an encoding take, a model of the clauses keeps   *)
(* every promise made under conditions that it satisfies.                  *)
(***************************************************************************)
Sound ==
  Quiescent /\ nvar <= MaxVars =>
    \A v \in [1 .. nvar -> BOOLEAN] :
      AllSatisfied(v, clauses) => \A i \in DOMAIN asked : Promised(v, asked[i])

(***************************************************************************)
(* The calls whose promises say everything: no call of SatEncoder is among *)
(* those made.                                                             *)
(***************************************************************************)
CountOps ==
  {"add_clause", "buff", "not", "and", "nand", "or", "nor", "xor", "xnor",
   "half_adder", "full_adder", "at_least_one", "not_one",
   "at_most_one", "exact_one", "at_most_two", "exact_two", "at_least_two",
   "at_most_one_args", "exact_one_args", "at_most_two_args", "exact_two_args",
   "at_least_two_args", "count_one", "count_two", "count_up_to_two"} \cup VectorNames

OnlyCounts == \A i \in DOMAIN asked : asked[i].call.op \in CountOps
Keeps(v) == \A i \in DOMAIN asked : Promised(v, asked[i])

(***************************************************************************)
(* No solution is lost: values of the client's variables that keep every   *)
(* promise are part of a model of the clauses, and while there are such    *)
(* values add_clause() has no reason to throw.                             *)
(***************************************************************************)
NothingLost ==
  OnlyCounts /\ (thrown \/ (Quiescent /\ nvar <= MaxVars))
  => \A v \in [1 .. NClient -> BOOLEAN] :
       Keeps(v) =>
         /\ ~thrown
         /\ \E S \in SUBSET (NClient + 1 .. nvar) :
              AllSatisfied([x \in 1 .. nvar |-> IF x <= NClient THEN v[x] ELSE x \in S],
                           clauses)

-----------------------------------------------------------------------------
(***************************************************************************)
(* The auxiliary variables of an encoder are no decision variables: the    *)
(* engine answers True as soon as the client's variables are decided and   *)
(* unit propagation has found no conflict.                                 *)
(***************************************************************************)
Abs(l) == IF l > 0 THEN l ELSE -l
VarsOf(s) == {Abs(s[i]) : i \in DOMAIN s}
LitsOf(v) == {IF v[x] THEN x ELSE -x : x \in DOMAIN v}

(* The variables the client has named, and the values it may give them.    *)
Mentioned(r) == VarsOf(r.cond) \cup VarsOf(r.call.in) \cup VarsOf(r.call.out)
Named == UNION {Mentioned(asked[i]) : i \in DOMAIN asked}
Readings == [Named -> BOOLEAN]

(* The engine finds nothing wrong when it knows just the literals of L.    *)
Accepts(L) == <<>> \notin clauses /\ Consistent(Propagated(clauses, L))

(* What the clauses still ask of the variables not in known.               *)
Waiting(known) ==
  {{C[i] : i \in {j \in DOMAIN C : -C[j] \notin known}} :
     C \in {D \in clauses : \A i \in DOMAIN D : D[i] \notin known}}

(***************************************************************************)
(* Encodings are exact: unit propagation refuses exactly the values of the *)
(* client's variables that break a promise.                                *)
(***************************************************************************)
Exact ==
  OnlyCounts /\ Quiescent => \A v \in Readings : Accepts(LitsOf(v)) <=> Keeps(v)

(***************************************************************************)
(* An answer True has a model: when the client's variables have values     *)
(* that keep every promise, propagation contradicts none of them and no    *)
(* clause still waits for an auxiliary variable.                           *)
(***************************************************************************)
ModelCompletes ==
  OnlyCounts /\ Quiescent => \A v \in Readings : Keeps(v) =>
    LET known == Propagated(clauses, LitsOf(v))
    IN  Consistent(known) /\ Waiting(known) = {}
=============================================================================
