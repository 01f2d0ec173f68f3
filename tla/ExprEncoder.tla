---------------------------- MODULE ExprEncoder ----------------------------
(***************************************************************************)
(* The encoders of logic expressions and of AIGs (Expr2Cnf.cc,             *)
(* Aig2Cnf.cc), as functions of what they encode.  They return literals    *)
(* that the client asserts or assumes to make the expression true.         *)
(*                                                                         *)
(* An expression is [kind, lit, args]: "one" and "zero", a literal (0 for  *)
(* a variable that lit_map does not have), or an operation on the sequence *)
(* args.  A handle of an AIG is [inv, kind, lit, args] alike; two handles  *)
(* are one node of the graph when they are equal.                          *)
(***************************************************************************)
EXTENDS Gates, SequencesExt

Expr(kind, lit, args) == [kind |-> kind, lit |-> lit, args |-> args]
LitExpr(l) == Expr("lit", l, <<>>)
Handle(inv, kind, lit, args) ==
  [inv |-> inv, kind |-> kind, lit |-> lit, args |-> args]
Flip(h) == [h EXCEPT !.inv = ~@]

(***************************************************************************)
(* The state of an encoder: n variables so far, the clauses added, XOR     *)
(* gates to add (as <<output, inputs>>, for add_xorgate()), the table      *)
(* mAigDict; lits is what the call returns, failed an exception.           *)
(***************************************************************************)
StartAt(n) ==
  [n |-> n, cls |-> {}, xors |-> <<>>, dict |-> {}, lits |-> <<>>, failed |-> FALSE]

(* One operand of an OR, given by the literals lits1 that make it true.    *)
OrOperand(st, lits, lits1) ==
  CASE Len(lits1) = 0 -> [st EXCEPT !.lits = lits]
    [] Len(lits1) = 1 -> [st EXCEPT !.lits = lits \o lits1]
    [] Len(lits1) > 1 ->
         LET lit1 == st.n + 1
         IN  [st EXCEPT !.n = lit1,
                        !.cls = @ \cup {<<-lit1, lits1[i]>> : i \in DOMAIN lits1},
                        !.lits = Append(lits, lit1)]

(* A new literal that implies the clause st.lits \o lits, whose first      *)
(* literal is the negation of it.                                          *)
CloseOr(st, new) ==
  [st EXCEPT !.cls = @ \cup {st.lits}, !.lits = <<new>>]

RECURSIVE MakeCnf(_, _)
MakeCnf(e, st) ==
  LET new == st.n + 1
      Each(Op(_, _), start) ==
        FoldLeft(LAMBDA s, arg : IF s.failed THEN s ELSE Op(s, arg), start, e.args)
      AndOperand(s, arg) ==
        LET r == MakeCnf(arg, s) IN [r EXCEPT !.lits = s.lits \o @]
      OneOfOr(s, arg) ==
        LET r == MakeCnf(arg, s) IN IF r.failed THEN r ELSE OrOperand(r, s.lits, r.lits)
      XorOperand(s, arg) ==
        LET lit1 == s.n + 1
            r == MakeCnf(arg, [s EXCEPT !.n = lit1])
        IN  IF r.failed THEN r
            ELSE [r EXCEPT !.cls = @ \cup AndGate(lit1, r.lits),
                           !.lits = Append(s.lits, lit1)]
      Finish(s, Op(_)) == IF s.failed THEN s ELSE Op(s)
  IN  CASE e.kind = "zero" -> [st EXCEPT !.failed = TRUE]
        [] e.kind = "one" -> [st EXCEPT !.lits = <<>>]
        [] e.kind = "lit" ->
             [st EXCEPT !.lits = <<e.lit>>, !.failed = (e.lit = 0)]
        [] e.kind = "and" -> Each(AndOperand, [st EXCEPT !.lits = <<>>])
        [] e.kind = "or" ->
             Finish(Each(OneOfOr, [st EXCEPT !.n = new, !.lits = <<-new>>]),
                    LAMBDA s : CloseOr(s, new))
        [] e.kind = "xor" ->
             Finish(Each(XorOperand, [st EXCEPT !.n = new, !.lits = <<>>]),
                    LAMBDA s : [s EXCEPT !.xors = Append(@, <<new, s.lits>>),
                                         !.lits = <<new>>])

(***************************************************************************)
(* Aig2Cnf::make_cnf(): results for AND nodes are remembered per handle,   *)
(* that is, for a node and for its negation separately.                    *)
(***************************************************************************)
RECURSIVE MakeAig(_, _)
MakeAig(h, st) ==
  LET known == {p \in st.dict : p[1] = h}
      new == st.n + 1
      Each(Op(_, _), start) ==
        FoldLeft(LAMBDA s, arg : IF s.failed THEN s ELSE Op(s, arg), start, h.args)
      Fanin(s, arg) ==
        LET r == MakeAig(arg, s) IN [r EXCEPT !.lits = s.lits \o @]
      NotFanin(s, arg) ==
        LET r == MakeAig(Flip(arg), s) IN IF r.failed THEN r ELSE OrOperand(r, s.lits, r.lits)
      Remember(s) == [s EXCEPT !.dict = @ \cup {<<h, s.lits>>}]
      Finish(s, Op(_)) == IF s.failed THEN s ELSE Op(s)
  IN  CASE h.kind = "const" ->
             [st EXCEPT !.lits = <<>>, !.failed = h.inv]
        [] h.kind = "input" ->
             [st EXCEPT !.lits = <<IF h.inv THEN -h.lit ELSE h.lit>>,
                        !.failed = (h.lit = 0)]
        [] h.kind = "and" /\ known # {} ->
             [st EXCEPT !.lits = (CHOOSE p \in known : TRUE)[2]]
        [] h.kind = "and" /\ known = {} /\ h.inv ->
             Finish(Each(NotFanin, [st EXCEPT !.n = new, !.lits = <<-new>>]),
                    LAMBDA s : Remember(CloseOr(s, new)))
        [] h.kind = "and" /\ known = {} /\ ~h.inv ->
             Finish(Each(Fanin, [st EXCEPT !.lits = <<>>]), Remember)

(* add_aig() of a list: one encoder, so that nodes are shared; lits has    *)
(* the literals of all of them.                                            *)
MakeAigs(hs, st) ==
  FoldLeft(LAMBDA s, h : IF s.failed THEN s
                         ELSE LET r == MakeAig(h, s) IN [r EXCEPT !.lits = s.lits \o @],
           st, hs)

-----------------------------------------------------------------------------
(* What they stand for.                                                    *)

RECURSIVE Eval(_, _)
Eval(v, e) ==
  LET ones == {i \in DOMAIN e.args : Eval(v, e.args[i])}
  IN  CASE e.kind = "zero" -> FALSE
        [] e.kind = "one" -> TRUE
        [] e.kind = "lit" -> True(v, e.lit)
        [] e.kind = "and" -> ones = DOMAIN e.args
        [] e.kind = "or" -> ones # {}
        [] e.kind = "xor" -> Cardinality(ones) % 2 = 1

RECURSIVE EvalAig(_, _)
EvalAig(v, h) ==
  h.inv # CASE h.kind = "const" -> TRUE
            [] h.kind = "input" -> True(v, h.lit)
            [] h.kind = "and" -> \A i \in DOMAIN h.args : EvalAig(v, h.args[i])

RECURSIVE LitsIn(_)
LitsIn(e) == {e.lit} \cup UNION {LitsIn(e.args[i]) : i \in DOMAIN e.args}

=============================================================================
