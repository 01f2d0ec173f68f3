---------------------------- MODULE MCSatEncoder ----------------------------
(* Instances of SatEncoder for TLC: the calls clients make.                *)
EXTENDS SatEncoder

(* n client literals, the second one negated.                              *)
Lits(n) == [i \in 1 .. n |-> IF i = 2 THEN -i ELSE i]

(* Gates and fixed counts, with the lengths at which the code branches.    *)
GateCalls ==
  {GateCall(op, Lits(n), <<7>>) : op \in {"and", "nand", "or", "nor"}, n \in 2 .. 4} \cup
  {GateCall(op, Lits(n), <<-7>>) : op \in {"xor", "xnor"}, n \in 2 .. 6} \cup
  {GateCall(op, Lits(1), <<7>>) : op \in {"buff", "not"}} \cup
  {GateCall("half_adder", Lits(2), <<7, 6>>), GateCall("full_adder", Lits(3), <<7, 6>>)}

CountCallsOfClient ==
  {Call(op, Lits(n)) : op \in {"add_clause", "at_least_one"}, n \in {0, 3}} \cup
  {Call("not_one", Lits(n)) : n \in 2 .. 4} \cup
  {Call(op, Lits(n)) :
     op \in {"at_most_one", "exact_one", "at_most_two", "exact_two", "at_least_two"},
     n \in 0 .. 7} \cup
  {Call(op, Lits(9)) : op \in {"at_most_one", "exact_two", "at_least_two"}} \cup
  {Call("exact_one", <<1, 2, 1>>), Call("at_most_two", <<1, -1, 2, 2, 3>>)}

(* Numbers k up to one more than there are literals.                       *)
CountsOfK ==
  {CallOf(op, Lits(p[1]), <<>>, <<p[2]>>) :
     op \in {"at_most_k", "at_least_k", "exact_k"},
     p \in {q \in (0 .. 7) \X (0 .. 8) : q[2] <= q[1] + 1}}

Adders ==
  {CallOf("adder", Lits(p[1] + p[2] + 1), [i \in 1 .. p[3] + 1 |-> 9 - i], <<p[1]>>) :
     p \in {<<1, 1, 1>>, <<1, 2, 2>>, <<2, 1, 2>>, <<1, 1, 2>>, <<1, 1, 3>>, <<0, 1, 3>>}} \cup
  {GateCall("counter", Lits(n), [i \in 1 .. CounterWidth(n) |-> 9 - i]) : n \in 2 .. 5}

(* Vectors of every length that fits, values up to the first too big.      *)
Comparisons ==
  {CallOf(op, Lits(p[1] + p[2]), <<>>, <<p[1]>>) :
     op \in {"eq", "ne", "lt", "le", "gt", "ge"}, p \in (1 .. 3) \X (1 .. 3)} \cup
  {CallOf(op, Lits(p[1]), <<>>, <<p[2]>>) :
     op \in {"eq_const", "ne_const", "lt_const", "le_const", "gt_const", "ge_const"},
     p \in {q \in (1 .. 3) \X (0 .. 8) : q[2] <= 2^q[1]}}

(* Expressions.  The operands of an XOR are literals, ANDs and XORs.       *)
X(i) == LitExpr(i)
And(args) == Expr("and", 0, args)
Or(args) == Expr("or", 0, args)
Xor(args) == Expr("xor", 0, args)
SomeExprs ==
  << X(-1), And(<<X(1), X(-2)>>), Or(<<X(1), X(-2), X(3)>>),
     Or(<<And(<<X(1), X(2)>>), And(<<X(-1), X(3)>>)>>),
     Or(<<And(<<X(1), Or(<<X(2), X(3)>>)>>), X(4)>>),
     Or(<<Or(<<X(1), And(<<X(2), X(3)>>)>>), And(<<X(4), X(-1)>>)>>),
     And(<<Or(<<X(1), X(2)>>), Xor(<<X(2), X(3)>>), X(4)>>),
     Xor(<<X(1), X(-2), X(3)>>), Xor(<<X(1), X(2), X(3), X(4), X(5)>>),
     Xor(<<And(<<X(1), X(2)>>), Xor(<<X(2), And(<<X(3), X(-4)>>)>>)>>),
     Or(<<Xor(<<X(1), X(2)>>), And(<<X(1), X(3)>>)>>),
     Expr("one", 0, <<>>), Expr("zero", 0, <<>>), X(0),
     Or(<<And(<<X(1), X(2)>>), And(<<X(3), X(0)>>)>>),
     Xor(<<X(1), Or(<<X(2), X(0)>>)>>),
     Xor(<<X(1), Or(<<X(2), X(3)>>)>>) >>
LastExpr == Len(SomeExprs)

(* AIGs with shared nodes.                                                 *)
I(i) == Handle(FALSE, "input", i, <<>>)
Both(g, h) == Handle(FALSE, "and", 0, <<g, h>>)
G1 == Both(I(1), Flip(I(2)))
G2 == Both(Flip(G1), I(3))
G3 == Both(Flip(G2), Flip(Both(I(4), G1)))
SomeAigs ==
  << <<G1>>, <<Flip(G1)>>, <<G2>>, <<Flip(G2)>>, <<G3>>, <<Flip(G3)>>,
     <<G2, Flip(Both(I(4), Flip(G1)))>>, <<Flip(G3), Flip(G1), I(3)>>, <<G1, Flip(G1)>>,
     <<Handle(FALSE, "const", 0, <<>>), G1>>, <<G1, Handle(TRUE, "const", 0, <<>>)>>,
     <<Flip(Both(G1, Flip(Both(I(4), I(0)))))>> >>

ExprCall(i) == CallOf("expr", <<>>, <<>>, <<i>>)
AigCall(i) == CallOf("aig", <<>>, <<>>, <<i>>)
SetCall(op, arg) == CallOf(op, <<>>, <<>>, arg)
Under(lits) == Call("set_conditional", lits)

Alone ==
  {<<c>> : c \in GateCalls \cup CountCallsOfClient \cup CountsOfK \cup Adders \cup Comparisons} \cup
  {<<ExprCall(i)>> : i \in 1 .. LastExpr - 1} \cup
  {<<AigCall(i)>> : i \in DOMAIN SomeAigs}

OrderedSets ==
  {<<SetCall("ordered_set", <<n>>)>> : n \in 1 .. 5} \cup
  {<<SetCall("ordered_set", <<4>>), SetCall(op, <<k>>)>> : op \in {"set_ge", "set_le"}, k \in 0 .. 3} \cup
  {<<SetCall("ordered_set", <<4>>), SetCall("set_dropoff", <<p[1], p[2]>>)>> :
     p \in (0 .. 3) \X (0 .. 3)} \cup
  {<<SetCall("ordered_set", <<4>>), SetCall("set_dropoff", <<0, 2>>), Under(<<1>>),
     SetCall("set_le", <<1>>), Under(<<>>), SetCall("set_ge", <<1>>)>>}

(* Conditions that outlive a call, and calls after one that failed.        *)
UnderConditions ==
  {<<Under(<<8, -9>>), c, Under(<<>>), Call("add_clause", <<1, 2>>)>> :
     c \in {Call("exact_one", Lits(5)), Call("exact_two", Lits(5)), Call("at_least_two", Lits(1)),
            CallOf("exact_k", Lits(4), <<>>, <<2>>), CallOf("at_least_k", Lits(2), <<>>, <<3>>),
            CallOf("at_least_k", <<>>, <<>>, <<1>>), GateCall("xor", Lits(4), <<7>>),
            CallOf("lt", Lits(4), <<>>, <<2>>), CallOf("gt_const", Lits(3), <<>>, <<8>>)}} \cup
  {<<Under(<<8>>), c, Under(<<9>>), ExprCall(5)>> :
     c \in {ExprCall(4), ExprCall(13), ExprCall(15), ExprCall(16), AigCall(6), AigCall(12)}}

(* Clients that ask for what cannot be.                                    *)
Contradictions ==
  {<<Call("add_clause", <<1>>), CallOf("exact_k", Lits(3), <<>>, <<2>>),
     Call("add_clause", <<3>>), Call("add_clause", <<2>>), c>> :
     c \in {Call("at_most_two", Lits(5)), ExprCall(4), CallOf("at_least_k", Lits(5), <<>>, <<6>>)}} \cup
  {<<CallOf("at_least_k", Lits(4), <<>>, <<5>>)>>, <<CallOf("at_least_k", <<>>, <<>>, <<1>>)>>,
   <<CallOf("exact_k", <<>>, <<>>, <<1>>), ExprCall(2)>>,
   <<Call("add_clause", <<-1>>), Call("at_least_one", <<1, -2>>), Call("exact_two", <<1, 2, 3>>)>>,
   <<SetCall("ordered_set", <<3>>), SetCall("set_ge", <<2>>), SetCall("set_le", <<0>>),
     SetCall("ordered_set", <<2>>)>>}

EncodeSessions == Alone \cup OrderedSets \cup UnderConditions \cup Contradictions

(* An OR below an XOR.                                                     *)
XorOfOr == {<<ExprCall(i)>> : i \in 7 .. LastExpr}
=============================================================================
