------------------------- MODULE CountEncoderProofs -------------------------
(***************************************************************************)
(* Gates, the counts of one and two and the comparisons of two vectors are *)
(* sound and lose no solution, for every list of literals.                 *)
(*                                                                         *)
(* The recursive encoders of CountEncoder are a machine that replaces a    *)
(* call by the calls it makes, so "whatever satisfies what is left to do   *)
(* and the clauses so far keeps all promises" is an invariant, and so is   *)
(* "whatever keeps all promises can be extended to satisfy what is left to *)
(* do and the clauses so far": each function has to show only that what it *)
(* calls amounts to what it is called for, for some values of the          *)
(* variables it makes.                                                     *)
(***************************************************************************)
EXTENDS CountEncoder, GatesProofs

(* A sequence of calls that makes sense with n variables, and what it      *)
(* stands for.                                                             *)
Good(S, n) == S \in Seq(CallsUpTo(n)) /\ \A i \in 1 .. Len(S) : Shape(S[i])
AllMean(v, S) == \A i \in 1 .. Len(S) : Means(v, S[i])

ScriptOK ==
  /\ Good(script, NClient)
  /\ cond \in Seq(LitsUpTo(NClient))
  /\ asked \in Seq([cond : Seq(LitsUpTo(NClient)), call : CallsUpTo(NClient)])
  /\ \A i \in 1 .. Len(asked) : Shape(asked[i].call)

(* What v still has to satisfy, and what it keeps.                         *)
Fulfils(v) == AllSatisfied(v, clauses) /\ (AllTrue(v, cond) => AllMean(v, todo))
Answers(v) == \A i \in 1 .. Len(asked) : Promised(v, asked[i])

Faithful == ~thrown => \A v \in Total : Fulfils(v) => Answers(v)

Agree(v, w, n) == \A x \in 1 .. n : w[x] = v[x]
Complete ==
  ~thrown =>
    \A v \in Total : Answers(v) => \E w \in Total : Agree(v, w, NClient) /\ Fulfils(w)

(* The engine gives up, and add_clause() throws, only if nothing is lost.  *)
Hopeless ==
  /\ ~sane => \A v \in Total : ~AllSatisfied(v, clauses)
  /\ thrown => \A v \in Total : ~Answers(v)

(* An exception leaves every function.                                     *)
Quiet == thrown => todo = <<>>

IInv == CountTypeOK /\ ScriptOK /\ Quiet /\ Faithful /\ Complete /\ Hopeless

-----------------------------------------------------------------------------
LEMMA SeqGrows ==
  ASSUME NEW S, NEW T, S \subseteq T
  PROVE  Seq(S) \subseteq Seq(T)
<1> SUFFICES ASSUME NEW s \in Seq(S) PROVE s \in Seq(T)  OBVIOUS
<1>1. Len(s) \in Nat /\ s \in [1 .. Len(s) -> S]  OBVIOUS
<1>2. s \in [1 .. Len(s) -> T]  BY <1>1
<1> QED  BY <1>1, <1>2

LEMMA LitsGrow ==
  ASSUME NEW m \in Nat, NEW n \in Nat, m <= n
  PROVE  /\ LitsUpTo(m) \subseteq LitsUpTo(n) /\ Seq(LitsUpTo(m)) \subseteq Seq(LitsUpTo(n))
         /\ CallsUpTo(m) \subseteq CallsUpTo(n)
         /\ Seq(CallsUpTo(m)) \subseteq Seq(CallsUpTo(n))
         /\ LitsUpTo(n) \subseteq Literal /\ Seq(LitsUpTo(n)) \subseteq Clause
<1>1. LitsUpTo(m) \subseteq LitsUpTo(n) /\ LitsUpTo(n) \subseteq Literal
  BY DEF LitsUpTo, Literal
<1>2. Seq(LitsUpTo(m)) \subseteq Seq(LitsUpTo(n)) /\ Seq(LitsUpTo(n)) \subseteq Clause
  BY <1>1, SeqGrows DEF Clause
<1>3. CallsUpTo(m) \subseteq CallsUpTo(n)
  BY <1>2 DEF CallsUpTo
<1>4. Seq(CallsUpTo(m)) \subseteq Seq(CallsUpTo(n))
  BY <1>3, SeqGrows
<1> QED  BY <1>1, <1>2, <1>3, <1>4

(* One call after another.                                                 *)
LEMMA Concat ==
  ASSUME NEW n \in Nat, NEW S, NEW T, Good(S, n), Good(T, n)
  PROVE  /\ Good(S \o T, n)
         /\ \A v : AllMean(v, S \o T) <=> AllMean(v, S) /\ AllMean(v, T)
<1>1. /\ S \in Seq(CallsUpTo(n)) /\ T \in Seq(CallsUpTo(n)) /\ S \o T \in Seq(CallsUpTo(n))
      /\ Len(S) \in Nat /\ Len(T) \in Nat /\ Len(S \o T) = Len(S) + Len(T)
      /\ \A i \in 1 .. Len(S) : (S \o T)[i] = S[i]
      /\ \A i \in 1 .. Len(T) : (S \o T)[Len(S) + i] = T[i]
  BY DEF Good
<1>2. \A k \in 1 .. Len(S) + Len(T) :
        k \in 1 .. Len(S) \/ (k - Len(S) \in 1 .. Len(T) /\ Len(S) + (k - Len(S)) = k)
  BY <1>1
<1>3. \A k \in 1 .. Len(S) + Len(T) :
        \/ k \in 1 .. Len(S) /\ (S \o T)[k] = S[k]
        \/ k - Len(S) \in 1 .. Len(T) /\ (S \o T)[k] = T[k - Len(S)]
  BY <1>1, <1>2
<1>4. Good(S \o T, n)  BY <1>1, <1>3 DEF Good
<1>5. ASSUME NEW v PROVE AllMean(v, S \o T) <=> AllMean(v, S) /\ AllMean(v, T)
  <2>1. (AllMean(v, S) /\ AllMean(v, T)) => AllMean(v, S \o T)  BY <1>1, <1>3 DEF AllMean
  <2>2. \A i \in 1 .. Len(S) : i \in 1 .. Len(S) + Len(T)  BY <1>1
  <2>3. \A i \in 1 .. Len(T) : Len(S) + i \in 1 .. Len(S) + Len(T)  BY <1>1
  <2>4. AllMean(v, S \o T) => (AllMean(v, S) /\ AllMean(v, T))
    BY <1>1, <2>2, <2>3 DEF AllMean
  <2> QED  BY <2>1, <2>4
<1> QED  BY <1>4, <1>5

LEMMA Nothing ==
  ASSUME NEW n \in Nat
  PROVE  Good(<<>>, n) /\ \A v : AllMean(v, <<>>)
  BY DEF Good, AllMean

LEMMA OneCall ==
  ASSUME NEW n \in Nat, NEW op \in CallNames, NEW in \in Seq(LitsUpTo(n)),
         NEW out \in Seq(LitsUpTo(n)), Shape(GateCall(op, in, out)), op # "clauses"
  PROVE  /\ Good(<<GateCall(op, in, out)>>, n)
         /\ \A v : AllMean(v, <<GateCall(op, in, out)>>) <=> Means(v, GateCall(op, in, out))
<1> DEFINE c == GateCall(op, in, out)
<1>1. c \in CallsUpTo(n)  BY DEF GateCall, CallOf, CallsUpTo
<1> HIDE DEF c
<1>2. Good(<<c>>, n) /\ \A v : AllMean(v, <<c>>) <=> Means(v, c)
  <2>1. Shape(c)  BY DEF c
  <2> QED  BY <1>1, <2>1 DEF Good, AllMean
<1> QED  BY <1>2 DEF c

LEMMA BatchMeans ==
  ASSUME NEW n \in Nat, NEW S \in SUBSET Seq(LitsUpTo(n))
  PROVE  /\ Good(Batch(S), n)
         /\ \A v : AllMean(v, Batch(S)) <=> AllSatisfied(v, S)
<1>1. CASE S = {}
  <2>1. Batch(S) = <<>>  BY <1>1 DEF Batch
  <2> QED  BY <1>1, <2>1, Nothing DEF AllSatisfied
<1>2. CASE S # {}
  <2> DEFINE c == [op |-> "clauses", in |-> <<>>, out |-> <<>>, arg |-> <<>>, cls |-> S]
  <2>1. Batch(S) = <<c>>  BY <1>2 DEF Batch
  <2>2. c \in CallsUpTo(n)
    <3>1. <<>> \in Seq(LitsUpTo(n)) /\ <<>> \in Seq(Int) /\ "clauses" \in CallNames
      BY DEF CallNames
    <3> QED  BY <3>1 DEF CallsUpTo
  <2>3. Shape(c)  BY <1>2 DEF Shape, VectorNames
  <2>4. \A v : Means(v, c) <=> AllSatisfied(v, S)  BY DEF Means, VectorNames
  <2> HIDE DEF c
  <2> QED  BY <2>1, <2>2, <2>3, <2>4 DEF Good, AllMean
<1> QED  BY <1>1, <1>2

-----------------------------------------------------------------------------
(* Assignments that agree on the variables there are say the same of       *)
(* literals, clauses and calls.                                            *)
LEMMA SameLits ==
  ASSUME NEW n \in Nat, NEW v, NEW w, Agree(v, w, n)
  PROVE  \A l \in LitsUpTo(n) : True(w, l) <=> True(v, l)
<1> SUFFICES ASSUME NEW l \in LitsUpTo(n) PROVE True(w, l) <=> True(v, l)  OBVIOUS
<1>1. (l > 0 => l \in 1 .. n) /\ (~(l > 0) => -l \in 1 .. n)  BY DEF LitsUpTo
<1> QED  BY <1>1 DEF True, Agree

LEMMA SameClauses ==
  ASSUME NEW n \in Nat, NEW v, NEW w, Agree(v, w, n), NEW S \in SUBSET Seq(LitsUpTo(n))
  PROVE  AllSatisfied(w, S) <=> AllSatisfied(v, S)
<1>1. \A C \in S : \A i \in DOMAIN C : C[i] \in LitsUpTo(n)  OBVIOUS
<1> QED  BY <1>1, SameLits DEF AllSatisfied, Satisfied

LEMMA SameTruth ==
  ASSUME NEW n \in Nat, NEW v, NEW w, Agree(v, w, n), NEW s \in Seq(LitsUpTo(n))
  PROVE  /\ AllTrue(w, s) <=> AllTrue(v, s)
         /\ Count(w, s) = Count(v, s)
<1>1. \A i \in DOMAIN s : s[i] \in LitsUpTo(n)  OBVIOUS
<1>2. \A i \in DOMAIN s : True(w, s[i]) <=> True(v, s[i])  BY <1>1, SameLits
<1>3. {i \in DOMAIN s : True(w, s[i])} = {i \in DOMAIN s : True(v, s[i])}  BY <1>2
<1> QED  BY <1>2, <1>3 DEF AllTrue, Count

LEMMA SameValue ==
  ASSUME NEW n \in Nat, NEW v, NEW w, Agree(v, w, n), NEW s \in Seq(LitsUpTo(n))
  PROVE  ValueOf(w, s) = ValueOf(v, s)
<1>1. \A i \in 1 .. Len(s) : s[i] \in LitsUpTo(n)  OBVIOUS
<1>2. \A i \in 1 .. Len(s) : True(w, s[i]) <=> True(v, s[i])  BY <1>1, SameLits
<1>3. Len(s) \in Nat  OBVIOUS
<1> QED  BY <1>2, <1>3, ValueSame DEF Alike

(* The vectors that a comparison is about.                                 *)
LEMMA Operands ==
  ASSUME NEW L, NEW c, c.in \in Seq(L), Shape(c), c.op \in VectorNames
  PROVE  /\ Lhs(c) \in Seq(L) /\ Rhs(c) \in Seq(L)
         /\ c.arg[1] \in 1 .. Len(c.in) - 1 /\ Len(c.in) \in Nat
         /\ Len(Lhs(c)) = c.arg[1] /\ Len(Rhs(c)) = Len(c.in) - c.arg[1]
<1>1. c.arg[1] \in 1 .. Len(c.in) - 1 /\ Len(c.in) \in Nat  BY DEF Shape, VectorNames
<1>2. Lhs(c) \in Seq(L) /\ Len(Lhs(c)) = c.arg[1]  BY <1>1 DEF Lhs
<1>3. Rhs(c) \in Seq(L) /\ Len(Rhs(c)) = Len(c.in) - c.arg[1]  BY <1>1 DEF Rhs
<1> QED  BY <1>1, <1>2, <1>3

LEMMA SameMeaning ==
  ASSUME NEW n \in Nat, NEW v, NEW w, Agree(v, w, n), NEW c \in CallsUpTo(n), Shape(c)
  PROVE  Means(w, c) <=> Means(v, c)
<1>1. c.in \in Seq(LitsUpTo(n)) /\ c.out \in Seq(LitsUpTo(n)) /\ c.cls \in SUBSET Seq(LitsUpTo(n))
  BY DEF CallsUpTo
<1>2. Count(w, c.in) = Count(v, c.in)  BY <1>1, SameTruth
<1>3. AllSatisfied(w, c.cls) <=> AllSatisfied(v, c.cls)  BY <1>1, SameClauses
<1>4. \A l \in LitsUpTo(n) : True(w, l) <=> True(v, l)  BY SameLits
<1>5. Len(c.out) >= 1 => (True(w, c.out[1]) <=> True(v, c.out[1]))
  <2> SUFFICES ASSUME Len(c.out) >= 1 PROVE c.out[1] \in LitsUpTo(n)  BY <1>4
  <2> QED  BY <1>1
<1>6. Len(c.out) >= 2 => (True(w, c.out[2]) <=> True(v, c.out[2]))
  <2> SUFFICES ASSUME Len(c.out) >= 2 PROVE c.out[2] \in LitsUpTo(n)  BY <1>4
  <2> QED  BY <1>1
<1>7. c.op \in {"buff", "not", "and", "nand", "or", "nor", "xor", "xnor", "count_one"} =>
        (True(w, c.out[1]) <=> True(v, c.out[1]))
  BY <1>5 DEF Shape, VectorNames
<1>8. c.op \in {"half_adder", "full_adder", "count_two", "count_up_to_two"} =>
        (True(w, c.out[1]) <=> True(v, c.out[1])) /\ (True(w, c.out[2]) <=> True(v, c.out[2]))
  BY <1>5, <1>6 DEF Shape, VectorNames
<1>9. c.op \in VectorNames =>
        /\ ValueOf(w, Lhs(c)) = ValueOf(v, Lhs(c))
        /\ ValueOf(w, Rhs(c)) = ValueOf(v, Rhs(c))
  <2> HAVE c.op \in VectorNames
  <2>1. Lhs(c) \in Seq(LitsUpTo(n)) /\ Rhs(c) \in Seq(LitsUpTo(n))  BY <1>1, Operands
  <2> QED  BY <2>1, SameValue
<1> QED  BY <1>2, <1>3, <1>7, <1>8, <1>9 DEF Means

LEMMA SameCalls ==
  ASSUME NEW n \in Nat, NEW v, NEW w, Agree(v, w, n), NEW S, Good(S, n)
  PROVE  AllMean(w, S) <=> AllMean(v, S)
<1>1. \A i \in 1 .. Len(S) : S[i] \in CallsUpTo(n) /\ Shape(S[i])  BY DEF Good
<1>2. \A i \in 1 .. Len(S) : Means(w, S[i]) <=> Means(v, S[i])  BY <1>1, SameMeaning
<1> QED  BY <1>2 DEF AllMean

LEMMA SamePromise ==
  ASSUME NEW n \in Nat, NEW v, NEW w, Agree(v, w, n),
         NEW r \in [cond : Seq(LitsUpTo(n)), call : CallsUpTo(n)], Shape(r.call)
  PROVE  Promised(w, r) <=> Promised(v, r)
<1>1. r.cond \in Seq(LitsUpTo(n)) /\ r.call \in CallsUpTo(n)  OBVIOUS
<1> QED  BY <1>1, SameTruth, SameMeaning DEF Promised

-----------------------------------------------------------------------------
(* The running call.                                                       *)
LEMMA Running ==
  ASSUME IInv, todo # <<>>
  PROVE  /\ nvar \in Nat /\ Head(todo) \in CallsUpTo(nvar) /\ Shape(Head(todo))
         /\ In \in Seq(LitsUpTo(nvar)) /\ In \in Clause
         /\ Out \in Seq(LitsUpTo(nvar)) /\ Out \in Clause
         /\ Good(Tail(todo), nvar)
         /\ \A v : AllMean(v, todo) <=> Means(v, Head(todo)) /\ AllMean(v, Tail(todo))
<1>1. /\ nvar \in Nat /\ todo \in Seq(CallsUpTo(nvar))
      /\ \A i \in 1 .. Len(todo) : Shape(todo[i])
  BY DEF IInv, CountTypeOK
<1>2. /\ Len(todo) \in Nat /\ Len(todo) >= 1 /\ Head(todo) = todo[1]
      /\ Tail(todo) \in Seq(CallsUpTo(nvar)) /\ Len(Tail(todo)) = Len(todo) - 1
      /\ \A i \in 1 .. Len(todo) - 1 : Tail(todo)[i] = todo[i + 1]
  BY <1>1
<1>3. 1 \in 1 .. Len(todo)  BY <1>2
<1>4. Head(todo) \in CallsUpTo(nvar) /\ Shape(Head(todo))  BY <1>1, <1>2, <1>3
<1>5. In \in Seq(LitsUpTo(nvar)) /\ Out \in Seq(LitsUpTo(nvar))
  BY <1>4 DEF CallsUpTo, In, Out
<1>6. In \in Clause /\ Out \in Clause  BY <1>1, <1>5, LitsGrow
<1>7. \A i \in 1 .. Len(todo) - 1 : i + 1 \in 1 .. Len(todo)  BY <1>2
<1>8. Good(Tail(todo), nvar)  BY <1>1, <1>2, <1>7 DEF Good
<1>9. ASSUME NEW v
      PROVE  AllMean(v, todo) <=> Means(v, Head(todo)) /\ AllMean(v, Tail(todo))
  <2>1. AllMean(v, todo) => Means(v, Head(todo)) /\ AllMean(v, Tail(todo))
    BY <1>2, <1>3, <1>7 DEF AllMean
  <2>2. ASSUME Means(v, Head(todo)), AllMean(v, Tail(todo)), NEW i \in 1 .. Len(todo)
        PROVE  Means(v, todo[i])
    <3>1. CASE i = 1  BY <3>1, <2>2, <1>2
    <3>2. CASE i # 1
      <4>1. i - 1 \in 1 .. Len(todo) - 1 /\ (i - 1) + 1 = i  BY <3>2, <1>2
      <4>2. Tail(todo)[i - 1] = todo[i]  BY <4>1, <1>2
      <4> QED  BY <4>1, <4>2, <2>2, <1>2 DEF AllMean
    <3> QED  BY <3>1, <3>2
  <2> QED  BY <2>1, <2>2 DEF AllMean
<1> QED  BY <1>1, <1>4, <1>5, <1>6, <1>8, <1>9

(* A function keeps the invariant when what it calls, all together, stands *)
(* for what the function stands for: no less, whatever values the          *)
(* variables it makes have, and no more, for some values of them.          *)
Extends(v, S) == \E w \in Total : Agree(v, w, nvar) /\ AllMean(w, S)

LEMMA BecomeKeeps ==
  ASSUME IInv, todo # <<>>, NEW n \in Nat, NEW S, Become(n, S), Good(S, nvar + n),
         \A v \in Total : AllMean(v, S) => Means(v, Head(todo)),
         \A v \in Total : Means(v, Head(todo)) => Extends(v, S)
  PROVE  IInv'
<1>1. /\ nvar \in Nat /\ nvar >= NClient /\ Good(Tail(todo), nvar)
      /\ \A v : AllMean(v, todo) <=> Means(v, Head(todo)) /\ AllMean(v, Tail(todo))
  BY Running DEF IInv, CountTypeOK
<1>2. /\ nvar' = nvar + n /\ todo' = S \o Tail(todo)
      /\ UNCHANGED <<cond, clauses, sane, thrown, script, asked>>
  BY DEF Become
<1>3. nvar + n \in Nat /\ nvar <= nvar + n  BY <1>1
<1>4. Good(Tail(todo), nvar + n)  BY <1>1, <1>3, LitsGrow DEF Good
<1>5. Good(todo', nvar') /\ \A v : AllMean(v, todo') <=> AllMean(v, S) /\ AllMean(v, Tail(todo))
  BY <1>2, <1>3, <1>4, Concat
<1>6. CountTypeOK'
  <2>1. cond' \in Seq(LitsUpTo(nvar')) /\ clauses' \subseteq Seq(LitsUpTo(nvar'))
    BY <1>1, <1>2, <1>3, LitsGrow DEF IInv, CountTypeOK
  <2>2. asked' \in Seq([cond : Seq(LitsUpTo(nvar')), call : CallsUpTo(nvar')])
    <3>1. [cond : Seq(LitsUpTo(nvar)), call : CallsUpTo(nvar)] \subseteq
          [cond : Seq(LitsUpTo(nvar')), call : CallsUpTo(nvar')]
      BY <1>1, <1>2, <1>3, LitsGrow
    <3>2. asked \in Seq([cond : Seq(LitsUpTo(nvar)), call : CallsUpTo(nvar)])
      BY DEF IInv, CountTypeOK
    <3>3. asked \in Seq([cond : Seq(LitsUpTo(nvar')), call : CallsUpTo(nvar')])
      BY <3>1, <3>2, SeqGrows
    <3> QED  BY <1>2, <3>3
  <2>3. nvar' \in Nat /\ nvar' >= NClient  BY <1>1, <1>2, NClientAssumption
  <2> QED  BY <1>2, <1>5, <2>1, <2>2, <2>3 DEF IInv, CountTypeOK, Good
<1>7. ScriptOK'  BY <1>2 DEF IInv, ScriptOK
<1>8. Faithful'
  <2> SUFFICES ASSUME ~thrown, NEW v \in Total, AllSatisfied(v, clauses),
                      AllTrue(v, cond) => AllMean(v, todo')
               PROVE  Answers(v)
    BY <1>2 DEF Faithful, Fulfils, Answers
  <2>1. AllTrue(v, cond) => AllMean(v, todo)  BY <1>1, <1>5
  <2> QED  BY <2>1 DEF IInv, Faithful, Fulfils
<1>9. Complete'
  <2> SUFFICES ASSUME ~thrown, NEW v \in Total, Answers(v)
               PROVE  \E w \in Total : /\ Agree(v, w, NClient) /\ AllSatisfied(w, clauses)
                                       /\ AllTrue(w, cond) => AllMean(w, todo')
    BY <1>2 DEF Complete, Fulfils, Answers
  <2>1. PICK u \in Total : /\ Agree(v, u, NClient) /\ AllSatisfied(u, clauses)
                           /\ AllTrue(u, cond) => AllMean(u, todo)
    BY DEF IInv, Complete, Fulfils
  <2>2. CASE ~AllTrue(u, cond)  BY <2>1, <2>2
  <2>3. CASE AllTrue(u, cond)
    <3>1. Means(u, Head(todo)) /\ AllMean(u, Tail(todo))  BY <1>1, <2>1, <2>3
    <3>2. PICK w \in Total : Agree(u, w, nvar) /\ AllMean(w, S)  BY <3>1 DEF Extends
    <3>3. AllMean(w, Tail(todo))  BY <1>1, <3>1, <3>2, SameCalls
    <3>4. AllSatisfied(w, clauses)
      <4>1. clauses \in SUBSET Seq(LitsUpTo(nvar))  BY DEF IInv, CountTypeOK
      <4> QED  BY <1>1, <2>1, <3>2, <4>1, SameClauses
    <3>5. Agree(v, w, NClient)
      <4>1. \A x \in 1 .. NClient : x \in 1 .. nvar  BY <1>1, NClientAssumption
      <4> QED  BY <2>1, <3>2, <4>1 DEF Agree
    <3> QED  BY <1>5, <3>2, <3>3, <3>4, <3>5
  <2> QED  BY <2>2, <2>3
<1>10. Hopeless'  BY <1>2 DEF IInv, Hopeless, Answers
<1>11. Quiet'  BY <1>2 DEF IInv, Quiet
<1> QED  BY <1>6, <1>7, <1>8, <1>9, <1>10, <1>11 DEF IInv

-----------------------------------------------------------------------------
(* The literals of gates are those of their inputs and outputs.            *)

LEMMA LitsNegate ==
  ASSUME NEW n \in Nat, NEW l \in LitsUpTo(n)
  PROVE  -l \in LitsUpTo(n) /\ l \in Literal /\ -l \in Literal
  BY DEF LitsUpTo, Literal

LEMMA TupleLits ==
  ASSUME NEW L
  PROVE  /\ <<>> \in Seq(L)
         /\ \A a \in L : <<a>> \in Seq(L)
         /\ \A a, b \in L : <<a, b>> \in Seq(L)
         /\ \A a, b, c \in L : <<a, b, c>> \in Seq(L)
         /\ \A a, b, c, d \in L : <<a, b, c, d>> \in Seq(L)
  OBVIOUS

Mirrored(L) == \A l \in L : -l \in L

LEMMA GatesFrom ==
  ASSUME NEW L, Mirrored(L), NEW a \in L, NEW b \in L, NEW c \in L, NEW s \in L, NEW o \in L
  PROVE  /\ BuffGate(a, b) \in SUBSET Seq(L)
         /\ XorGate2(s, a, b) \in SUBSET Seq(L)
         /\ XorGate3(s, a, b, c) \in SUBSET Seq(L)
         /\ HalfAdder(a, b, s, o) \in SUBSET Seq(L)
         /\ FullAdder(a, b, c, s, o) \in SUBSET Seq(L)
<1>1. /\ -a \in L /\ -b \in L /\ -c \in L /\ -s \in L /\ -o \in L
      /\ a \in L /\ b \in L /\ c \in L /\ s \in L /\ o \in L
  BY DEF Mirrored
<1>2. BuffGate(a, b) \in SUBSET Seq(L)  BY <1>1, TupleLits DEF BuffGate
<1>3. XorGate2(s, a, b) \in SUBSET Seq(L)  BY <1>1, TupleLits DEF XorGate2
<1>4. XorGate3(s, a, b, c) \in SUBSET Seq(L)
  <2>1. \A p, q, r, t \in L : <<p, q, r, t>> \in Seq(L)  BY TupleLits
  <2> QED  BY <1>1, <2>1 DEF XorGate3
<1>5. (\A p, q \in L : <<p, q>> \in Seq(L)) /\ (\A p, q, r \in L : <<p, q, r>> \in Seq(L))
  BY TupleLits
<1>6. HalfAdder(a, b, s, o) \in SUBSET Seq(L)
  <2>1. {<<-o, a>>, <<-o, b>>, <<o, -a, -b>>} \in SUBSET Seq(L)  BY <1>1, <1>5
  <2> QED  BY <1>3, <2>1 DEF HalfAdder
<1>7. FullAdder(a, b, c, s, o) \in SUBSET Seq(L)
  <2>1. {<<-o, a, b>>, <<-o, a, c>>, <<-o, b, c>>, <<o, -a, -b>>, <<o, -a, -c>>, <<o, -b, -c>>}
          \in SUBSET Seq(L)
    BY <1>1, <1>5
  <2> QED  BY <1>4, <2>1 DEF FullAdder
<1> QED  BY <1>2, <1>3, <1>4, <1>6, <1>7

LEMMA WideGatesFrom ==
  ASSUME NEW L, Mirrored(L), NEW o \in L, NEW s \in Seq(L)
  PROVE  /\ AndGate(o, s) \in SUBSET Seq(L)
         /\ OrGate(o, s) \in SUBSET Seq(L)
         /\ Negated(s) \in Seq(L) /\ Len(Negated(s)) = Len(s)
<1>1. /\ DOMAIN s = 1 .. Len(s) /\ Len(s) \in Nat
      /\ \A i \in 1 .. Len(s) : s[i] \in L /\ -s[i] \in L
  BY DEF Mirrored
<1>2. -o \in L  BY DEF Mirrored
<1>3. Negated(s) \in Seq(L) /\ Len(Negated(s)) = Len(s)  BY <1>1 DEF Negated
<1>4. Append(Negated(s), o) \in Seq(L) /\ Append(s, -o) \in Seq(L)
  BY <1>2, <1>3
<1>5. \A i \in 1 .. Len(s) : <<s[i], -o>> \in Seq(L) /\ <<-s[i], o>> \in Seq(L)
  BY <1>1, <1>2, TupleLits
<1>6. AndGate(o, s) \in SUBSET Seq(L)  BY <1>1, <1>4, <1>5 DEF AndGate
<1>7. OrGate(o, s) \in SUBSET Seq(L)  BY <1>1, <1>4, <1>5 DEF OrGate
<1> QED  BY <1>3, <1>6, <1>7

LEMMA PatternsFrom ==
  ASSUME NEW L, Mirrored(L), NEW s \in Seq(L)
  PROVE  /\ AtMostOneOf(s) \in SUBSET Seq(L)
         /\ AtMostTwoOf(s) \in SUBSET Seq(L)
         /\ AtLeastTwoOf(s) \in SUBSET Seq(L)
         /\ NotOneOf(s) \in SUBSET Seq(L)
<1>1. /\ DOMAIN s = 1 .. Len(s) /\ Len(s) \in Nat
      /\ \A i \in 1 .. Len(s) : s[i] \in L /\ -s[i] \in L
  BY DEF Mirrored
<1>2. AtMostOneOf(s) \in SUBSET Seq(L)
  <2>1. \A i, j \in 1 .. Len(s) : <<-s[i], -s[j]>> \in Seq(L)  BY <1>1, TupleLits
  <2>2. ASSUME NEW c \in AtMostOneOf(s) PROVE c \in Seq(L)
    <3>1. PICK p \in (DOMAIN s) \X (DOMAIN s) : c = <<-s[p[1]], -s[p[2]]>>  BY DEF AtMostOneOf
    <3>2. p[1] \in 1 .. Len(s) /\ p[2] \in 1 .. Len(s)  BY <1>1
    <3> QED  BY <2>1, <3>1, <3>2
  <2> QED  BY <2>2
<1>3. AtMostTwoOf(s) \in SUBSET Seq(L)
  <2>1. \A i, j, k \in 1 .. Len(s) : <<-s[i], -s[j], -s[k]>> \in Seq(L)  BY <1>1, TupleLits
  <2>2. ASSUME NEW c \in AtMostTwoOf(s) PROVE c \in Seq(L)
    <3>1. PICK p \in (DOMAIN s) \X (DOMAIN s) \X (DOMAIN s) :
                  c = <<-s[p[1]], -s[p[2]], -s[p[3]]>>
      BY DEF AtMostTwoOf
    <3>2. p[1] \in 1 .. Len(s) /\ p[2] \in 1 .. Len(s) /\ p[3] \in 1 .. Len(s)  BY <1>1
    <3> QED  BY <2>1, <3>1, <3>2
  <2> QED  BY <2>2
<1>4. AtLeastTwoOf(s) \in SUBSET Seq(L)
  <2> SUFFICES ASSUME NEW i \in 1 .. Len(s) PROVE Without(s, i) \in Seq(L)
    BY <1>1 DEF AtLeastTwoOf
  <2>1. \A j \in 1 .. Len(s) - 1 : j \in 1 .. Len(s) /\ j + 1 \in 1 .. Len(s)  BY <1>1
  <2>2. \A j \in 1 .. Len(s) - 1 : (IF j < i THEN s[j] ELSE s[j + 1]) \in L
    BY <1>1, <2>1
  <2>3. Len(s) - 1 \in Nat  BY <1>1
  <2> QED  BY <2>2, <2>3 DEF Without
<1>5. NotOneOf(s) \in SUBSET Seq(L)
  <2>1. \A i \in 1 .. Len(s) : [s EXCEPT ![i] = -s[i]] \in Seq(L)
    BY <1>1
  <2> QED  BY <1>1, <2>1 DEF NotOneOf
<1> QED  BY <1>2, <1>3, <1>4, <1>5

LEMMA LitsMirrored ==
  ASSUME NEW n \in Nat
  PROVE  Mirrored(LitsUpTo(n))
  BY LitsNegate DEF Mirrored

LEMMA SmallGateLits ==
  ASSUME NEW n \in Nat, NEW a \in LitsUpTo(n), NEW b \in LitsUpTo(n)
  PROVE  BuffGate(a, b) \in SUBSET Seq(LitsUpTo(n))
  BY LitsMirrored, GatesFrom

LEMMA WideGateLits ==
  ASSUME NEW n \in Nat, NEW o \in LitsUpTo(n), NEW s \in Seq(LitsUpTo(n))
  PROVE  /\ AndGate(o, s) \in SUBSET Seq(LitsUpTo(n))
         /\ OrGate(o, s) \in SUBSET Seq(LitsUpTo(n))
         /\ Negated(s) \in Seq(LitsUpTo(n)) /\ Len(Negated(s)) = Len(s)
  BY LitsMirrored, WideGatesFrom

LEMMA AdderLits ==
  ASSUME NEW n \in Nat, NEW a \in LitsUpTo(n), NEW b \in LitsUpTo(n), NEW c \in LitsUpTo(n),
         NEW s \in LitsUpTo(n), NEW o \in LitsUpTo(n)
  PROVE  /\ XorGate2(s, a, b) \in SUBSET Seq(LitsUpTo(n))
         /\ XorGate3(s, a, b, c) \in SUBSET Seq(LitsUpTo(n))
         /\ HalfAdder(a, b, s, o) \in SUBSET Seq(LitsUpTo(n))
         /\ FullAdder(a, b, c, s, o) \in SUBSET Seq(LitsUpTo(n))
  BY LitsMirrored, GatesFrom

LEMMA PatternLits ==
  ASSUME NEW n \in Nat, NEW s \in Seq(LitsUpTo(n))
  PROVE  /\ AtMostOneOf(s) \in SUBSET Seq(LitsUpTo(n))
         /\ AtMostTwoOf(s) \in SUBSET Seq(LitsUpTo(n))
         /\ AtLeastTwoOf(s) \in SUBSET Seq(LitsUpTo(n))
         /\ NotOneOf(s) \in SUBSET Seq(LitsUpTo(n))
  BY LitsMirrored, PatternsFrom

-----------------------------------------------------------------------------
(* What single calls stand for.                                            *)
LEMMA Meanings ==
  ASSUME NEW v, NEW c
  PROVE
    /\ c.op = "add_clause" => (Means(v, c) <=> Count(v, c.in) >= 1)
    /\ c.op = "at_least_one" => (Means(v, c) <=> Count(v, c.in) >= 1)
    /\ c.op = "buff" => (Means(v, c) <=> (True(v, c.out[1]) <=> Count(v, c.in) = 1))
    /\ c.op = "not" => (Means(v, c) <=> (True(v, c.out[1]) <=> Count(v, c.in) = 0))
    /\ c.op = "and" => (Means(v, c) <=> (True(v, c.out[1]) <=> Count(v, c.in) = Len(c.in)))
    /\ c.op = "nand" => (Means(v, c) <=> (True(v, c.out[1]) <=> Count(v, c.in) # Len(c.in)))
    /\ c.op = "or" => (Means(v, c) <=> (True(v, c.out[1]) <=> Count(v, c.in) >= 1))
    /\ c.op = "nor" => (Means(v, c) <=> (True(v, c.out[1]) <=> Count(v, c.in) = 0))
    /\ c.op = "xor" => (Means(v, c) <=> (True(v, c.out[1]) <=> Count(v, c.in) % 2 = 1))
    /\ c.op = "xnor" => (Means(v, c) <=> (True(v, c.out[1]) <=> Count(v, c.in) % 2 = 0))
    /\ c.op = "half_adder" => (Means(v, c) <=>
           ((True(v, c.out[1]) <=> Count(v, c.in) >= 2)
            /\ (True(v, c.out[2]) <=> Count(v, c.in) % 2 = 1)))
    /\ c.op = "full_adder" => (Means(v, c) <=>
           ((True(v, c.out[1]) <=> Count(v, c.in) >= 2)
            /\ (True(v, c.out[2]) <=> Count(v, c.in) % 2 = 1)))
    /\ c.op = "at_most_one" => (Means(v, c) <=> Count(v, c.in) <= 1)
    /\ c.op = "at_most_one_args" => (Means(v, c) <=> Count(v, c.in) <= 1)
    /\ c.op = "exact_one" => (Means(v, c) <=> Count(v, c.in) = 1)
    /\ c.op = "exact_one_args" => (Means(v, c) <=> Count(v, c.in) = 1)
    /\ c.op = "not_one" => (Means(v, c) <=> Count(v, c.in) # 1)
    /\ c.op = "count_one" => (Means(v, c) <=>
           (Count(v, c.in) <= 1 /\ (True(v, c.out[1]) <=> Count(v, c.in) = 1)))
    /\ c.op = "at_most_two" => (Means(v, c) <=> Count(v, c.in) <= 2)
    /\ c.op = "at_most_two_args" => (Means(v, c) <=> Count(v, c.in) <= 2)
    /\ c.op = "exact_two" => (Means(v, c) <=> Count(v, c.in) = 2)
    /\ c.op = "exact_two_args" => (Means(v, c) <=> Count(v, c.in) = 2)
    /\ c.op = "at_least_two" => (Means(v, c) <=> Count(v, c.in) >= 2)
    /\ c.op = "at_least_two_args" => (Means(v, c) <=> Count(v, c.in) >= 2)
    /\ c.op = "count_two" => (Means(v, c) <=>
           (Count(v, c.in) <= 2 /\ (True(v, c.out[1]) <=> Count(v, c.in) = 2)
            /\ (True(v, c.out[2]) <=> Count(v, c.in) = 1)))
    /\ c.op = "count_up_to_two" => (Means(v, c) <=>
           ((True(v, c.out[1]) <=> Count(v, c.in) >= 2)
            /\ (True(v, c.out[2]) <=> Count(v, c.in) % 2 = 1)))
<1>1. c.op = "add_clause" => (Means(v, c) <=> Count(v, c.in) >= 1)  BY DEF Means, VectorNames
<1>2. c.op = "at_least_one" => (Means(v, c) <=> Count(v, c.in) >= 1)  BY DEF Means, VectorNames
<1>3. c.op = "buff" => (Means(v, c) <=> (True(v, c.out[1]) <=> Count(v, c.in) = 1))  BY DEF Means, VectorNames
<1>4. c.op = "not" => (Means(v, c) <=> (True(v, c.out[1]) <=> Count(v, c.in) = 0))  BY DEF Means, VectorNames
<1>5. c.op = "and" => (Means(v, c) <=> (True(v, c.out[1]) <=> Count(v, c.in) = Len(c.in)))
  BY DEF Means, VectorNames
<1>6. c.op = "nand" => (Means(v, c) <=> (True(v, c.out[1]) <=> Count(v, c.in) # Len(c.in)))
  BY DEF Means, VectorNames
<1>7. c.op = "or" => (Means(v, c) <=> (True(v, c.out[1]) <=> Count(v, c.in) >= 1))  BY DEF Means, VectorNames
<1>8. c.op = "nor" => (Means(v, c) <=> (True(v, c.out[1]) <=> Count(v, c.in) = 0))  BY DEF Means, VectorNames
<1>9. c.op = "xor" => (Means(v, c) <=> (True(v, c.out[1]) <=> Count(v, c.in) % 2 = 1))  BY DEF Means, VectorNames
<1>10. c.op = "xnor" => (Means(v, c) <=> (True(v, c.out[1]) <=> Count(v, c.in) % 2 = 0))
  BY DEF Means, VectorNames
<1>11. c.op = "half_adder" => (Means(v, c) <=>
           ((True(v, c.out[1]) <=> Count(v, c.in) >= 2)
            /\ (True(v, c.out[2]) <=> Count(v, c.in) % 2 = 1)))
  BY DEF Means, VectorNames
<1>12. c.op = "full_adder" => (Means(v, c) <=>
           ((True(v, c.out[1]) <=> Count(v, c.in) >= 2)
            /\ (True(v, c.out[2]) <=> Count(v, c.in) % 2 = 1)))
  BY DEF Means, VectorNames
<1>13. c.op = "at_most_one" => (Means(v, c) <=> Count(v, c.in) <= 1)  BY DEF Means, VectorNames
<1>14. c.op = "at_most_one_args" => (Means(v, c) <=> Count(v, c.in) <= 1)  BY DEF Means, VectorNames
<1>15. c.op = "exact_one" => (Means(v, c) <=> Count(v, c.in) = 1)  BY DEF Means, VectorNames
<1>16. c.op = "exact_one_args" => (Means(v, c) <=> Count(v, c.in) = 1)  BY DEF Means, VectorNames
<1>17. c.op = "not_one" => (Means(v, c) <=> Count(v, c.in) # 1)  BY DEF Means, VectorNames
<1>18. c.op = "count_one" => (Means(v, c) <=>
           (Count(v, c.in) <= 1 /\ (True(v, c.out[1]) <=> Count(v, c.in) = 1)))
  BY DEF Means, VectorNames
<1>19. c.op = "at_most_two" => (Means(v, c) <=> Count(v, c.in) <= 2)  BY DEF Means, VectorNames
<1>20. c.op = "at_most_two_args" => (Means(v, c) <=> Count(v, c.in) <= 2)  BY DEF Means, VectorNames
<1>21. c.op = "exact_two" => (Means(v, c) <=> Count(v, c.in) = 2)  BY DEF Means, VectorNames
<1>22. c.op = "exact_two_args" => (Means(v, c) <=> Count(v, c.in) = 2)  BY DEF Means, VectorNames
<1>23. c.op = "at_least_two" => (Means(v, c) <=> Count(v, c.in) >= 2)  BY DEF Means, VectorNames
<1>24. c.op = "at_least_two_args" => (Means(v, c) <=> Count(v, c.in) >= 2)  BY DEF Means, VectorNames
<1>25. c.op = "count_two" => (Means(v, c) <=>
           (Count(v, c.in) <= 2 /\ (True(v, c.out[1]) <=> Count(v, c.in) = 2)
            /\ (True(v, c.out[2]) <=> Count(v, c.in) = 1)))
  BY DEF Means, VectorNames
<1>26. c.op = "count_up_to_two" => (Means(v, c) <=>
           ((True(v, c.out[1]) <=> Count(v, c.in) >= 2)
            /\ (True(v, c.out[2]) <=> Count(v, c.in) % 2 = 1)))
  BY DEF Means, VectorNames
<1> QED
  BY <1>1, <1>2, <1>3, <1>4, <1>5, <1>6, <1>7, <1>8, <1>9, <1>10, <1>11, <1>12, <1>13, <1>14,
     <1>15, <1>16, <1>17, <1>18, <1>19, <1>20, <1>21, <1>22, <1>23, <1>24, <1>25, <1>26

LEMMA ComparisonMeanings ==
  ASSUME NEW v, NEW c
  PROVE
    /\ c.op = "eq" => (Means(v, c) <=> ValueOf(v, Lhs(c)) = ValueOf(v, Rhs(c)))
    /\ c.op = "ne" => (Means(v, c) <=> ValueOf(v, Lhs(c)) # ValueOf(v, Rhs(c)))
    /\ c.op = "lt" => (Means(v, c) <=> ValueOf(v, Lhs(c)) < ValueOf(v, Rhs(c)))
    /\ c.op = "le" => (Means(v, c) <=> ValueOf(v, Lhs(c)) <= ValueOf(v, Rhs(c)))
    /\ c.op = "gt" => (Means(v, c) <=> ValueOf(v, Lhs(c)) > ValueOf(v, Rhs(c)))
    /\ c.op = "ge" => (Means(v, c) <=> ValueOf(v, Lhs(c)) >= ValueOf(v, Rhs(c)))
<1> DEFINE m == ValueOf(v, Lhs(c))
           n == ValueOf(v, Rhs(c))
<1>1. c.op \in VectorNames => (Means(v, c) <=> Compared(c.op, m, n))
  BY DEF Means, VectorNames
<1> HIDE DEF m, n
<1>2. c.op = "eq" => (Means(v, c) <=> m = n)  BY <1>1 DEF Compared, VectorNames
<1>3. c.op = "ne" => (Means(v, c) <=> m # n)  BY <1>1 DEF Compared, VectorNames
<1>4. c.op = "lt" => (Means(v, c) <=> m < n)  BY <1>1 DEF Compared, VectorNames
<1>5. c.op = "le" => (Means(v, c) <=> m <= n)  BY <1>1 DEF Compared, VectorNames
<1>6. c.op = "gt" => (Means(v, c) <=> m > n)  BY <1>1 DEF Compared, VectorNames
<1>7. c.op = "ge" => (Means(v, c) <=> m >= n)  BY <1>1 DEF Compared, VectorNames
<1> QED  BY <1>2, <1>3, <1>4, <1>5, <1>6, <1>7 DEF m, n

(* Two calls in a row.                                                     *)
LEMMA TwoCalls ==
  ASSUME NEW n \in Nat, NEW c, NEW d, Good(<<c>>, n), Good(<<d>>, n)
  PROVE  /\ Good(<<c, d>>, n)
         /\ \A v : AllMean(v, <<c, d>>) <=> AllMean(v, <<c>>) /\ AllMean(v, <<d>>)
<1>1. Len(<<c>>) = 1 /\ <<c>>[1] = c /\ Len(<<d>>) = 1 /\ <<d>>[1] = d /\ 1 \in 1 .. 1
  OBVIOUS
<1>2. <<c>> \in Seq(CallsUpTo(n)) /\ <<d>> \in Seq(CallsUpTo(n)) /\ Shape(c) /\ Shape(d)
  BY <1>1 DEF Good
<1>3. c \in CallsUpTo(n) /\ d \in CallsUpTo(n)  BY <1>1, <1>2
<1>4. <<c, d>> \in Seq(CallsUpTo(n))  BY <1>3, TupleLits
<1>5. Len(<<c, d>>) = 2 /\ <<c, d>>[1] = c /\ <<c, d>>[2] = d  OBVIOUS
<1>6. \A i \in 1 .. 2 : i = 1 \/ i = 2  OBVIOUS
<1>7. Good(<<c, d>>, n)  BY <1>2, <1>4, <1>5, <1>6 DEF Good
<1>8. \A v : AllMean(v, <<c>>) <=> Means(v, c)  BY <1>1 DEF AllMean
<1>9. \A v : AllMean(v, <<d>>) <=> Means(v, d)  BY <1>1 DEF AllMean
<1>10. \A v : AllMean(v, <<c, d>>) <=> Means(v, c) /\ Means(v, d)
  <2>1. 1 \in 1 .. 2 /\ 2 \in 1 .. 2  OBVIOUS
  <2> QED  BY <1>5, <1>6, <2>1 DEF AllMean
<1> QED  BY <1>7, <1>8, <1>9, <1>10

(* Three and four.                                                         *)
LEMMA ThreeCalls ==
  ASSUME NEW n \in Nat, NEW c, NEW d, NEW e,
         Good(<<c>>, n), Good(<<d>>, n), Good(<<e>>, n)
  PROVE  /\ Good(<<c, d, e>>, n)
         /\ \A v : AllMean(v, <<c, d, e>>) <=>
                   AllMean(v, <<c>>) /\ AllMean(v, <<d>>) /\ AllMean(v, <<e>>)
<1>1. ASSUME NEW x, Good(<<x>>, n)
      PROVE  x \in CallsUpTo(n) /\ Shape(x) /\ (\A v : AllMean(v, <<x>>) <=> Means(v, x))
  <2>1. Len(<<x>>) = 1 /\ <<x>>[1] = x /\ 1 \in 1 .. 1  OBVIOUS
  <2>2. <<x>> \in Seq(CallsUpTo(n)) /\ Shape(x)  BY <1>1, <2>1 DEF Good
  <2>3. x \in CallsUpTo(n)  BY <2>1, <2>2
  <2>4. \A v : AllMean(v, <<x>>) <=> Means(v, x)  BY <2>1 DEF AllMean
  <2> QED  BY <2>2, <2>3, <2>4
<1>2. <<c, d, e>> \in Seq(CallsUpTo(n))  BY <1>1, TupleLits
<1>3. Len(<<c, d, e>>) = 3 /\ <<c, d, e>>[1] = c /\ <<c, d, e>>[2] = d /\ <<c, d, e>>[3] = e
  OBVIOUS
<1>4. (\A i \in 1 .. 3 : i = 1 \/ i = 2 \/ i = 3) /\ 1 \in 1 .. 3 /\ 2 \in 1 .. 3 /\ 3 \in 1 .. 3
  OBVIOUS
<1>5. Good(<<c, d, e>>, n)  BY <1>1, <1>2, <1>3, <1>4 DEF Good
<1>6. \A v : AllMean(v, <<c, d, e>>) <=> Means(v, c) /\ Means(v, d) /\ Means(v, e)
  BY <1>3, <1>4 DEF AllMean
<1> QED  BY <1>1, <1>5, <1>6

LEMMA FourCalls ==
  ASSUME NEW n \in Nat, NEW c, NEW d, NEW e, NEW f,
         Good(<<c>>, n), Good(<<d>>, n), Good(<<e>>, n), Good(<<f>>, n)
  PROVE  /\ Good(<<c, d, e, f>>, n)
         /\ \A v : AllMean(v, <<c, d, e, f>>) <=>
                   AllMean(v, <<c>>) /\ AllMean(v, <<d>>) /\ AllMean(v, <<e>>) /\ AllMean(v, <<f>>)
<1>1. ASSUME NEW x, Good(<<x>>, n)
      PROVE  x \in CallsUpTo(n) /\ Shape(x) /\ (\A v : AllMean(v, <<x>>) <=> Means(v, x))
  <2>1. Len(<<x>>) = 1 /\ <<x>>[1] = x /\ 1 \in 1 .. 1  OBVIOUS
  <2>2. <<x>> \in Seq(CallsUpTo(n)) /\ Shape(x)  BY <1>1, <2>1 DEF Good
  <2>3. x \in CallsUpTo(n)  BY <2>1, <2>2
  <2>4. \A v : AllMean(v, <<x>>) <=> Means(v, x)  BY <2>1 DEF AllMean
  <2> QED  BY <2>2, <2>3, <2>4
<1>2. <<c, d, e, f>> \in Seq(CallsUpTo(n))  BY <1>1, TupleLits
<1>3. /\ Len(<<c, d, e, f>>) = 4 /\ <<c, d, e, f>>[1] = c /\ <<c, d, e, f>>[2] = d
      /\ <<c, d, e, f>>[3] = e /\ <<c, d, e, f>>[4] = f
  OBVIOUS
<1>4. /\ \A i \in 1 .. 4 : i = 1 \/ i = 2 \/ i = 3 \/ i = 4
      /\ 1 \in 1 .. 4 /\ 2 \in 1 .. 4 /\ 3 \in 1 .. 4 /\ 4 \in 1 .. 4
  OBVIOUS
<1>5. Good(<<c, d, e, f>>, n)  BY <1>1, <1>2, <1>3, <1>4 DEF Good
<1>6. \A v : AllMean(v, <<c, d, e, f>>) <=> Means(v, c) /\ Means(v, d) /\ Means(v, e) /\ Means(v, f)
  BY <1>3, <1>4 DEF AllMean
<1> QED  BY <1>1, <1>5, <1>6

LEMMA CalledBuff ==
  ASSUME NEW n \in Nat, NEW in \in Seq(LitsUpTo(n)), NEW o \in LitsUpTo(n), Len(in) = 1
  PROVE  /\ Good(<<GateCall("buff", in, <<o>>)>>, n)
         /\ \A v : AllMean(v, <<GateCall("buff", in, <<o>>)>>) <=>
              (True(v, o) <=> Count(v, in) = 1)
<1> DEFINE c == GateCall("buff", in, <<o>>)
<1>1. c.op = "buff" /\ c.in = in /\ c.out = <<o>>  BY DEF GateCall, CallOf
<1>2. "buff" \in CallNames /\ "buff" # "clauses" /\ <<o>> \in Seq(LitsUpTo(n))
  BY TupleLits DEF CallNames
<1>3. Shape(c)  BY <1>1 DEF Shape, VectorNames
<1>4. \A v : Means(v, c) <=> (True(v, o) <=> Count(v, in) = 1)  BY <1>1, Meanings
<1> QED  BY <1>2, <1>3, <1>4, OneCall

LEMMA CalledAnd ==
  ASSUME NEW n \in Nat, NEW in \in Seq(LitsUpTo(n)), NEW o \in LitsUpTo(n)
  PROVE  /\ Good(<<GateCall("and", in, <<o>>)>>, n)
         /\ \A v : AllMean(v, <<GateCall("and", in, <<o>>)>>) <=>
              (True(v, o) <=> Count(v, in) = Len(in))
<1> DEFINE c == GateCall("and", in, <<o>>)
<1>1. c.op = "and" /\ c.in = in /\ c.out = <<o>>  BY DEF GateCall, CallOf
<1>2. "and" \in CallNames /\ "and" # "clauses" /\ <<o>> \in Seq(LitsUpTo(n))
  BY TupleLits DEF CallNames
<1>3. Shape(c)  BY <1>1 DEF Shape, VectorNames
<1>4. \A v : Means(v, c) <=> (True(v, o) <=> Count(v, in) = Len(in))  BY <1>1, Meanings
<1> QED  BY <1>2, <1>3, <1>4, OneCall

LEMMA CalledOr ==
  ASSUME NEW n \in Nat, NEW in \in Seq(LitsUpTo(n)), NEW o \in LitsUpTo(n)
  PROVE  /\ Good(<<GateCall("or", in, <<o>>)>>, n)
         /\ \A v : AllMean(v, <<GateCall("or", in, <<o>>)>>) <=>
              (True(v, o) <=> Count(v, in) >= 1)
<1> DEFINE c == GateCall("or", in, <<o>>)
<1>1. c.op = "or" /\ c.in = in /\ c.out = <<o>>  BY DEF GateCall, CallOf
<1>2. "or" \in CallNames /\ "or" # "clauses" /\ <<o>> \in Seq(LitsUpTo(n))
  BY TupleLits DEF CallNames
<1>3. Shape(c)  BY <1>1 DEF Shape, VectorNames
<1>4. \A v : Means(v, c) <=> (True(v, o) <=> Count(v, in) >= 1)  BY <1>1, Meanings
<1> QED  BY <1>2, <1>3, <1>4, OneCall

LEMMA CalledXor ==
  ASSUME NEW n \in Nat, NEW in \in Seq(LitsUpTo(n)), NEW o \in LitsUpTo(n), Len(in) >= 2
  PROVE  /\ Good(<<GateCall("xor", in, <<o>>)>>, n)
         /\ \A v : AllMean(v, <<GateCall("xor", in, <<o>>)>>) <=>
              (True(v, o) <=> Count(v, in) % 2 = 1)
<1> DEFINE c == GateCall("xor", in, <<o>>)
<1>1. c.op = "xor" /\ c.in = in /\ c.out = <<o>>  BY DEF GateCall, CallOf
<1>2. "xor" \in CallNames /\ "xor" # "clauses" /\ <<o>> \in Seq(LitsUpTo(n))
  BY TupleLits DEF CallNames
<1>3. Shape(c)  BY <1>1 DEF Shape, VectorNames
<1>4. \A v : Means(v, c) <=> (True(v, o) <=> Count(v, in) % 2 = 1)  BY <1>1, Meanings
<1> QED  BY <1>2, <1>3, <1>4, OneCall

LEMMA CalledHalfAdder ==
  ASSUME NEW n \in Nat, NEW in \in Seq(LitsUpTo(n)), NEW o \in LitsUpTo(n), NEW s \in LitsUpTo(n),
         Len(in) = 2
  PROVE  /\ Good(<<GateCall("half_adder", in, <<o, s>>)>>, n)
         /\ \A v : AllMean(v, <<GateCall("half_adder", in, <<o, s>>)>>) <=>
              ((True(v, o) <=> Count(v, in) >= 2) /\ (True(v, s) <=> Count(v, in) % 2 = 1))
<1> DEFINE c == GateCall("half_adder", in, <<o, s>>)
<1>1. c.op = "half_adder" /\ c.in = in /\ c.out = <<o, s>>  BY DEF GateCall, CallOf
<1>2. "half_adder" \in CallNames /\ "half_adder" # "clauses" /\ <<o, s>> \in Seq(LitsUpTo(n))
  BY TupleLits DEF CallNames
<1>3. Shape(c)  BY <1>1 DEF Shape, VectorNames
<1>4. \A v : Means(v, c) <=>
                 ((True(v, o) <=> Count(v, in) >= 2) /\ (True(v, s) <=> Count(v, in) % 2 = 1))
  BY <1>1, Meanings
<1> QED  BY <1>2, <1>3, <1>4, OneCall

LEMMA CalledFullAdder ==
  ASSUME NEW n \in Nat, NEW in \in Seq(LitsUpTo(n)), NEW o \in LitsUpTo(n), NEW s \in LitsUpTo(n),
         Len(in) = 3
  PROVE  /\ Good(<<GateCall("full_adder", in, <<o, s>>)>>, n)
         /\ \A v : AllMean(v, <<GateCall("full_adder", in, <<o, s>>)>>) <=>
              ((True(v, o) <=> Count(v, in) >= 2) /\ (True(v, s) <=> Count(v, in) % 2 = 1))
<1> DEFINE c == GateCall("full_adder", in, <<o, s>>)
<1>1. c.op = "full_adder" /\ c.in = in /\ c.out = <<o, s>>  BY DEF GateCall, CallOf
<1>2. "full_adder" \in CallNames /\ "full_adder" # "clauses" /\ <<o, s>> \in Seq(LitsUpTo(n))
  BY TupleLits DEF CallNames
<1>3. Shape(c)  BY <1>1 DEF Shape, VectorNames
<1>4. \A v : Means(v, c) <=>
                 ((True(v, o) <=> Count(v, in) >= 2) /\ (True(v, s) <=> Count(v, in) % 2 = 1))
  BY <1>1, Meanings
<1> QED  BY <1>2, <1>3, <1>4, OneCall

LEMMA CalledAtLeastOne ==
  ASSUME NEW n \in Nat, NEW in \in Seq(LitsUpTo(n))
  PROVE  /\ Good(<<GateCall("at_least_one", in, <<>>)>>, n)
         /\ \A v : AllMean(v, <<GateCall("at_least_one", in, <<>>)>>) <=>
              Count(v, in) >= 1
<1> DEFINE c == GateCall("at_least_one", in, <<>>)
<1>1. c.op = "at_least_one" /\ c.in = in /\ c.out = <<>>  BY DEF GateCall, CallOf
<1>2. "at_least_one" \in CallNames /\ "at_least_one" # "clauses" /\ <<>> \in Seq(LitsUpTo(n))
  BY TupleLits DEF CallNames
<1>3. Shape(c)  BY <1>1 DEF Shape, VectorNames
<1>4. \A v : Means(v, c) <=> Count(v, in) >= 1  BY <1>1, Meanings
<1> QED  BY <1>2, <1>3, <1>4, OneCall

LEMMA CalledAtMostOneArgs ==
  ASSUME NEW n \in Nat, NEW in \in Seq(LitsUpTo(n))
  PROVE  /\ Good(<<GateCall("at_most_one_args", in, <<>>)>>, n)
         /\ \A v : AllMean(v, <<GateCall("at_most_one_args", in, <<>>)>>) <=>
              Count(v, in) <= 1
<1> DEFINE c == GateCall("at_most_one_args", in, <<>>)
<1>1. c.op = "at_most_one_args" /\ c.in = in /\ c.out = <<>>  BY DEF GateCall, CallOf
<1>2. "at_most_one_args" \in CallNames /\ "at_most_one_args" # "clauses" /\ <<>> \in Seq(LitsUpTo(n))
  BY TupleLits DEF CallNames
<1>3. Shape(c)  BY <1>1 DEF Shape, VectorNames
<1>4. \A v : Means(v, c) <=> Count(v, in) <= 1  BY <1>1, Meanings
<1> QED  BY <1>2, <1>3, <1>4, OneCall

LEMMA CalledAtMostTwoArgs ==
  ASSUME NEW n \in Nat, NEW in \in Seq(LitsUpTo(n))
  PROVE  /\ Good(<<GateCall("at_most_two_args", in, <<>>)>>, n)
         /\ \A v : AllMean(v, <<GateCall("at_most_two_args", in, <<>>)>>) <=>
              Count(v, in) <= 2
<1> DEFINE c == GateCall("at_most_two_args", in, <<>>)
<1>1. c.op = "at_most_two_args" /\ c.in = in /\ c.out = <<>>  BY DEF GateCall, CallOf
<1>2. "at_most_two_args" \in CallNames /\ "at_most_two_args" # "clauses" /\ <<>> \in Seq(LitsUpTo(n))
  BY TupleLits DEF CallNames
<1>3. Shape(c)  BY <1>1 DEF Shape, VectorNames
<1>4. \A v : Means(v, c) <=> Count(v, in) <= 2  BY <1>1, Meanings
<1> QED  BY <1>2, <1>3, <1>4, OneCall

LEMMA CalledAtLeastTwoArgs ==
  ASSUME NEW n \in Nat, NEW in \in Seq(LitsUpTo(n)), Len(in) >= 2
  PROVE  /\ Good(<<GateCall("at_least_two_args", in, <<>>)>>, n)
         /\ \A v : AllMean(v, <<GateCall("at_least_two_args", in, <<>>)>>) <=>
              Count(v, in) >= 2
<1> DEFINE c == GateCall("at_least_two_args", in, <<>>)
<1>1. c.op = "at_least_two_args" /\ c.in = in /\ c.out = <<>>  BY DEF GateCall, CallOf
<1>2. "at_least_two_args" \in CallNames /\ "at_least_two_args" # "clauses" /\ <<>> \in Seq(LitsUpTo(n))
  BY TupleLits DEF CallNames
<1>3. Shape(c)  BY <1>1 DEF Shape, VectorNames
<1>4. \A v : Means(v, c) <=> Count(v, in) >= 2  BY <1>1, Meanings
<1> QED  BY <1>2, <1>3, <1>4, OneCall

LEMMA CalledExactOneArgs ==
  ASSUME NEW n \in Nat, NEW in \in Seq(LitsUpTo(n))
  PROVE  /\ Good(<<GateCall("exact_one_args", in, <<>>)>>, n)
         /\ \A v : AllMean(v, <<GateCall("exact_one_args", in, <<>>)>>) <=>
              Count(v, in) = 1
<1> DEFINE c == GateCall("exact_one_args", in, <<>>)
<1>1. c.op = "exact_one_args" /\ c.in = in /\ c.out = <<>>  BY DEF GateCall, CallOf
<1>2. "exact_one_args" \in CallNames /\ "exact_one_args" # "clauses" /\ <<>> \in Seq(LitsUpTo(n))
  BY TupleLits DEF CallNames
<1>3. Shape(c)  BY <1>1 DEF Shape, VectorNames
<1>4. \A v : Means(v, c) <=> Count(v, in) = 1  BY <1>1, Meanings
<1> QED  BY <1>2, <1>3, <1>4, OneCall

LEMMA CalledExactTwoArgs ==
  ASSUME NEW n \in Nat, NEW in \in Seq(LitsUpTo(n)), Len(in) >= 2
  PROVE  /\ Good(<<GateCall("exact_two_args", in, <<>>)>>, n)
         /\ \A v : AllMean(v, <<GateCall("exact_two_args", in, <<>>)>>) <=>
              Count(v, in) = 2
<1> DEFINE c == GateCall("exact_two_args", in, <<>>)
<1>1. c.op = "exact_two_args" /\ c.in = in /\ c.out = <<>>  BY DEF GateCall, CallOf
<1>2. "exact_two_args" \in CallNames /\ "exact_two_args" # "clauses" /\ <<>> \in Seq(LitsUpTo(n))
  BY TupleLits DEF CallNames
<1>3. Shape(c)  BY <1>1 DEF Shape, VectorNames
<1>4. \A v : Means(v, c) <=> Count(v, in) = 2  BY <1>1, Meanings
<1> QED  BY <1>2, <1>3, <1>4, OneCall

LEMMA CalledCountOne ==
  ASSUME NEW n \in Nat, NEW in \in Seq(LitsUpTo(n)), NEW o \in LitsUpTo(n), Len(in) >= 2
  PROVE  /\ Good(<<GateCall("count_one", in, <<o>>)>>, n)
         /\ \A v : AllMean(v, <<GateCall("count_one", in, <<o>>)>>) <=>
              (Count(v, in) <= 1 /\ (True(v, o) <=> Count(v, in) = 1))
<1> DEFINE c == GateCall("count_one", in, <<o>>)
<1>1. c.op = "count_one" /\ c.in = in /\ c.out = <<o>>  BY DEF GateCall, CallOf
<1>2. "count_one" \in CallNames /\ "count_one" # "clauses" /\ <<o>> \in Seq(LitsUpTo(n))
  BY TupleLits DEF CallNames
<1>3. Shape(c)  BY <1>1 DEF Shape, VectorNames
<1>4. \A v : Means(v, c) <=> (Count(v, in) <= 1 /\ (True(v, o) <=> Count(v, in) = 1))
  BY <1>1, Meanings
<1> QED  BY <1>2, <1>3, <1>4, OneCall

LEMMA CalledCountTwo ==
  ASSUME NEW n \in Nat, NEW in \in Seq(LitsUpTo(n)), NEW h \in LitsUpTo(n), NEW l \in LitsUpTo(n),
         Len(in) >= 2
  PROVE  /\ Good(<<GateCall("count_two", in, <<h, l>>)>>, n)
         /\ \A v : AllMean(v, <<GateCall("count_two", in, <<h, l>>)>>) <=>
              (Count(v, in) <= 2 /\ (True(v, h) <=> Count(v, in) = 2)
               /\ (True(v, l) <=> Count(v, in) = 1))
<1> DEFINE c == GateCall("count_two", in, <<h, l>>)
<1>1. c.op = "count_two" /\ c.in = in /\ c.out = <<h, l>>  BY DEF GateCall, CallOf
<1>2. "count_two" \in CallNames /\ "count_two" # "clauses" /\ <<h, l>> \in Seq(LitsUpTo(n))
  BY TupleLits DEF CallNames
<1>3. Shape(c)  BY <1>1 DEF Shape, VectorNames
<1>4. \A v : Means(v, c) <=>
                 (Count(v, in) <= 2 /\ (True(v, h) <=> Count(v, in) = 2)
                  /\ (True(v, l) <=> Count(v, in) = 1))
  BY <1>1, Meanings
<1> QED  BY <1>2, <1>3, <1>4, OneCall

LEMMA CalledCountUpToTwo ==
  ASSUME NEW n \in Nat, NEW in \in Seq(LitsUpTo(n)), NEW h \in LitsUpTo(n), NEW l \in LitsUpTo(n),
         Len(in) >= 2
  PROVE  /\ Good(<<GateCall("count_up_to_two", in, <<h, l>>)>>, n)
         /\ \A v : AllMean(v, <<GateCall("count_up_to_two", in, <<h, l>>)>>) <=>
              ((True(v, h) <=> Count(v, in) >= 2) /\ (True(v, l) <=> Count(v, in) % 2 = 1))
<1> DEFINE c == GateCall("count_up_to_two", in, <<h, l>>)
<1>1. c.op = "count_up_to_two" /\ c.in = in /\ c.out = <<h, l>>  BY DEF GateCall, CallOf
<1>2. "count_up_to_two" \in CallNames /\ "count_up_to_two" # "clauses" /\ <<h, l>> \in Seq(LitsUpTo(n))
  BY TupleLits DEF CallNames
<1>3. Shape(c)  BY <1>1 DEF Shape, VectorNames
<1>4. \A v : Means(v, c) <=>
                 ((True(v, h) <=> Count(v, in) >= 2) /\ (True(v, l) <=> Count(v, in) % 2 = 1))
  BY <1>1, Meanings
<1> QED  BY <1>2, <1>3, <1>4, OneCall

-----------------------------------------------------------------------------
(* The literals of the running call, and the variables it makes.           *)

LEMMA ShortSequences ==
  ASSUME NEW L, NEW s \in Seq(L)
  PROVE  /\ Len(s) = 1 => s = <<s[1]>> /\ s[1] \in L
         /\ Len(s) = 2 => s = <<s[1], s[2]>> /\ s[1] \in L /\ s[2] \in L
         /\ Len(s) = 3 => s = <<s[1], s[2], s[3]>> /\ s[1] \in L /\ s[2] \in L /\ s[3] \in L
  OBVIOUS

LEMMA Setting ==
  ASSUME IInv, todo # <<>>, NEW n \in Nat
  PROVE  /\ nvar \in Nat /\ nvar + n \in Nat /\ nvar + 0 = nvar
         /\ In \in Seq(LitsUpTo(nvar + n)) /\ In \in Clause /\ Len(In) \in Nat
         /\ Out \in Seq(LitsUpTo(nvar + n)) /\ Out \in Clause
         /\ Shape(Head(todo)) /\ Head(todo).in = In /\ Head(todo).out = Out
         /\ \A v : Count(v, In) \in 0 .. Len(In) /\ Count(v, In) \in Nat
<1>1. /\ nvar \in Nat /\ In \in Seq(LitsUpTo(nvar)) /\ In \in Clause
      /\ Out \in Seq(LitsUpTo(nvar)) /\ Out \in Clause /\ Shape(Head(todo))
  BY Running
<1>2. nvar + n \in Nat /\ nvar <= nvar + n /\ nvar + 0 = nvar  BY <1>1
<1>3. Seq(LitsUpTo(nvar)) \subseteq Seq(LitsUpTo(nvar + n))  BY <1>1, <1>2, LitsGrow
<1>4. \A v : Count(v, In) \in 0 .. Len(In) /\ Count(v, In) \in Nat  BY <1>1, OnesFinite
<1>5. Len(In) \in Nat  BY <1>1 DEF Clause
<1> QED  BY <1>1, <1>2, <1>3, <1>4, <1>5 DEF In, Out

LEMMA FreshLits ==
  ASSUME nvar \in Nat, NEW n \in Nat, NEW i \in 1 .. n
  PROVE  /\ Fresh(i) \in LitsUpTo(nvar + n) /\ -Fresh(i) \in LitsUpTo(nvar + n)
         /\ Fresh(i) \in Literal /\ -Fresh(i) \in Literal
  BY DEF Fresh, LitsUpTo, Literal

LEMMA Halves ==
  ASSUME IInv, todo # <<>>, NEW n \in Nat, NEW h \in 0 .. Len(In)
  PROVE  /\ First(h) \in Seq(LitsUpTo(nvar + n)) /\ Len(First(h)) = h
         /\ Rest(h) \in Seq(LitsUpTo(nvar + n)) /\ Len(Rest(h)) = Len(In) - h
         /\ First(h) \in Clause /\ Rest(h) \in Clause
         /\ \A v : Count(v, In) = Count(v, First(h)) + Count(v, Rest(h))
         /\ \A v : Count(v, First(h)) \in Nat /\ Count(v, Rest(h)) \in Nat
<1>1. In \in Seq(LitsUpTo(nvar + n)) /\ In \in Clause /\ Len(In) \in Nat  BY Setting
<1>2. /\ First(h) \in Clause /\ Rest(h) \in Clause
      /\ Len(First(h)) = h /\ Len(Rest(h)) = Len(In) - h
      /\ \A v : Count(v, In) = Count(v, First(h)) + Count(v, Rest(h))
  BY <1>1, CountSplit DEF First, Rest
<1>3. First(h) \in Seq(LitsUpTo(nvar + n)) /\ Rest(h) \in Seq(LitsUpTo(nvar + n))
  BY <1>1 DEF First, Rest
<1>4. \A v : Count(v, First(h)) \in Nat /\ Count(v, Rest(h)) \in Nat
  BY <1>2, OnesFinite
<1> QED  BY <1>2, <1>3, <1>4

LEMMA OneOutput ==
  ASSUME IInv, todo # <<>>, Len(Out) = 1, NEW n \in Nat
  PROVE  /\ Out = <<Out[1]>> /\ Negated(Out) = <<-Out[1]>>
         /\ Out[1] \in LitsUpTo(nvar + n) /\ -Out[1] \in LitsUpTo(nvar + n)
         /\ Out[1] \in Literal /\ -Out[1] \in Literal
<1>1. nvar + n \in Nat /\ Out \in Seq(LitsUpTo(nvar + n))  BY Setting
<1>2. Out = <<Out[1]>> /\ Out[1] \in LitsUpTo(nvar + n)  BY <1>1, ShortSequences
<1>3. -Out[1] \in LitsUpTo(nvar + n) /\ Out[1] \in Literal /\ -Out[1] \in Literal
  BY <1>1, <1>2, LitsNegate
<1>4. Negated(Out) = <<-Out[1]>>
  <2>1. DOMAIN Out = 1 .. 1  BY <1>1
  <2>2. Negated(Out) = [i \in 1 .. 1 |-> -Out[i]]  BY <2>1 DEF Negated
  <2>3. <<-Out[1]>> = [i \in 1 .. 1 |-> -Out[1]]  OBVIOUS
  <2>4. \A i \in 1 .. 1 : i = 1  OBVIOUS
  <2> QED  BY <2>2, <2>3, <2>4
<1> QED  BY <1>2, <1>3, <1>4

LEMMA TwoOutputs ==
  ASSUME IInv, todo # <<>>, Len(Out) = 2, NEW n \in Nat
  PROVE  /\ Out = <<Out[1], Out[2]>>
         /\ Out[1] \in LitsUpTo(nvar + n) /\ Out[2] \in LitsUpTo(nvar + n)
         /\ Out[1] \in Literal /\ Out[2] \in Literal
<1>1. nvar + n \in Nat /\ Out \in Seq(LitsUpTo(nvar + n))  BY Setting
<1>2. Out = <<Out[1], Out[2]>> /\ Out[1] \in LitsUpTo(nvar + n) /\ Out[2] \in LitsUpTo(nvar + n)
  BY <1>1, ShortSequences
<1> QED  BY <1>1, <1>2, LitsNegate

LEMMA Same ==
  ASSUME NEW v \in Total, NEW S, AllMean(v, S)
  PROVE  Extends(v, S)
  BY DEF Extends, Agree

(* What the running call means is known when the variables there are have  *)
(* their values.                                                           *)
LEMMA SameCall ==
  ASSUME IInv, todo # <<>>, NEW v, NEW w, Agree(v, w, nvar)
  PROVE  /\ Means(w, Head(todo)) <=> Means(v, Head(todo))
         /\ Count(w, In) = Count(v, In)
         /\ \A h \in 0 .. Len(In) : /\ Count(w, First(h)) = Count(v, First(h))
                                   /\ Count(w, Rest(h)) = Count(v, Rest(h))
<1>1. /\ nvar \in Nat /\ Head(todo) \in CallsUpTo(nvar) /\ Shape(Head(todo))
      /\ In \in Seq(LitsUpTo(nvar))
  BY Running
<1>2. nvar + 0 = nvar  BY <1>1
<1>3. \A h \in 0 .. Len(In) : First(h) \in Seq(LitsUpTo(nvar)) /\ Rest(h) \in Seq(LitsUpTo(nvar))
  BY <1>2, Halves
<1> QED  BY <1>1, <1>3, SameMeaning, SameTruth

(* A function whose first calls determine the variables it makes.          *)
LEMMA FirstKeeps ==
  ASSUME IInv, todo # <<>>, NEW n \in Nat, NEW S, NEW T, Become(n, S \o T),
         Good(S, nvar + n), Good(T, nvar + n),
         \A v \in Total : Means(v, Head(todo)) => Extends(v, S),
         \A v \in Total : AllMean(v, S) => (AllMean(v, T) <=> Means(v, Head(todo)))
  PROVE  IInv'
<1>1. nvar + n \in Nat  BY Setting
<1>2. /\ Good(S \o T, nvar + n)
      /\ \A v : AllMean(v, S \o T) <=> AllMean(v, S) /\ AllMean(v, T)
  BY <1>1, Concat
<1>3. ASSUME NEW v \in Total, Means(v, Head(todo)) PROVE Extends(v, S \o T)
  <2>1. PICK w \in Total : Agree(v, w, nvar) /\ AllMean(w, S)  BY <1>3 DEF Extends
  <2>2. Means(w, Head(todo))  BY <1>3, <2>1, SameCall
  <2> QED  BY <1>2, <2>1, <2>2 DEF Extends
<1> QED  BY <1>2, <1>3, BecomeKeeps

(* A function that only adds clauses.                                      *)
LEMMA BatchKeeps ==
  ASSUME IInv, todo # <<>>, NEW S \in SUBSET Seq(LitsUpTo(nvar)), Become(0, Batch(S)),
         \A v \in Total : AllSatisfied(v, S) <=> Means(v, Head(todo))
  PROVE  IInv'
<1>1. nvar \in Nat /\ nvar + 0 = nvar  BY Setting
<1>2. Good(Batch(S), nvar + 0) /\ \A v : AllMean(v, Batch(S)) <=> AllSatisfied(v, S)
  BY <1>1, BatchMeans
<1>3. \A v \in Total : Means(v, Head(todo)) => Extends(v, Batch(S))  BY <1>2, Same
<1> QED  BY <1>2, <1>3, BecomeKeeps

(* A function that only calls others.                                      *)
LEMMA CallKeeps ==
  ASSUME IInv, todo # <<>>, NEW S, Become(0, S), Good(S, nvar),
         \A v \in Total : AllMean(v, S) <=> Means(v, Head(todo))
  PROVE  IInv'
<1>1. nvar + 0 = nvar  BY Setting
<1>2. \A v \in Total : Means(v, Head(todo)) => Extends(v, S)  BY Same
<1> QED  BY <1>1, <1>2, BecomeKeeps

(* The variables a function makes can be given any values: literals and    *)
(* counts of the literals there are do not change.                         *)
LEMMA Extend ==
  ASSUME nvar \in Nat, NEW v \in Total, NEW a \in BOOLEAN, NEW b \in BOOLEAN,
         NEW c \in BOOLEAN, NEW d \in BOOLEAN, NEW e \in BOOLEAN
  PROVE  \E w \in Total :
           /\ Agree(v, w, nvar)
           /\ (True(w, Fresh(1)) <=> a) /\ (True(w, Fresh(2)) <=> b) /\ (True(w, Fresh(3)) <=> c)
           /\ (True(w, Fresh(4)) <=> d) /\ (True(w, Fresh(5)) <=> e)
<1> DEFINE f == <<a, b, c, d, e>>
           w == [x \in Nat |-> IF x \in nvar + 1 .. nvar + 5 THEN f[x - nvar] ELSE v[x]]
<1>1. /\ f[1] = a /\ f[2] = b /\ f[3] = c /\ f[4] = d /\ f[5] = e
      /\ \A i \in 1 .. 5 : f[i] \in BOOLEAN
  OBVIOUS
<1> HIDE DEF f
<1>2. \A x \in nvar + 1 .. nvar + 5 : x - nvar \in 1 .. 5  OBVIOUS
<1>3. w \in Total
  <2>1. \A x \in Nat : v[x] \in BOOLEAN  BY DEF Total
  <2>2. \A x \in Nat : (IF x \in nvar + 1 .. nvar + 5 THEN f[x - nvar] ELSE v[x]) \in BOOLEAN
    BY <1>1, <1>2, <2>1
  <2> QED  BY <2>2 DEF Total
<1>4. Agree(v, w, nvar)
  <2>1. \A x \in 1 .. nvar : x \in Nat /\ ~(x \in nvar + 1 .. nvar + 5)  OBVIOUS
  <2> QED  BY <2>1 DEF Agree
<1>5. \A i \in 1 .. 5 : True(w, Fresh(i)) <=> f[i]
  <2>1. \A i \in 1 .. 5 : /\ Fresh(i) \in Nat /\ Fresh(i) > 0 /\ Fresh(i) - nvar = i
                          /\ Fresh(i) \in nvar + 1 .. nvar + 5
    BY DEF Fresh
  <2>2. \A i \in 1 .. 5 : w[Fresh(i)] = f[i]  BY <2>1
  <2> QED  BY <2>1, <2>2 DEF True
<1>6. 1 \in 1 .. 5 /\ 2 \in 1 .. 5 /\ 3 \in 1 .. 5 /\ 4 \in 1 .. 5 /\ 5 \in 1 .. 5  OBVIOUS
<1> HIDE DEF w
<1> QED  BY <1>1, <1>3, <1>4, <1>5, <1>6

-----------------------------------------------------------------------------
(* Each function keeps the invariant.  First the gates.                    *)

LEMMA OneClause ==
  ASSUME IInv, todo # <<>>
  PROVE  /\ {In} \in SUBSET Seq(LitsUpTo(nvar))
         /\ \A v : AllSatisfied(v, {In}) <=> Count(v, In) >= 1
<1>1. nvar + 0 = nvar /\ In \in Seq(LitsUpTo(nvar + 0)) /\ In \in Clause  BY Setting
<1>2. \A v : AllSatisfied(v, {In}) <=> Satisfied(v, In)  BY DEF AllSatisfied
<1> QED  BY <1>1, <1>2, CountPositive

LEMMA AddClauseCallKeeps ==
  ASSUME IInv, AddClauseCall
  PROVE  IInv'
<1>1. todo # <<>> /\ Head(todo).op = "add_clause" /\ Become(0, Batch({In}))
  BY DEF AddClauseCall, On
<1>2. \A v : Means(v, Head(todo)) <=> Count(v, In) >= 1  BY <1>1, Meanings DEF In, Out
<1> QED  BY <1>1, <1>2, OneClause, BatchKeeps

LEMMA AtLeastOneKeeps ==
  ASSUME IInv, AtLeastOne
  PROVE  IInv'
<1>1. todo # <<>> /\ Head(todo).op = "at_least_one" /\ Become(0, Batch({In}))
  BY DEF AtLeastOne, On
<1>2. \A v : Means(v, Head(todo)) <=> Count(v, In) >= 1  BY <1>1, Meanings DEF In, Out
<1> QED  BY <1>1, <1>2, OneClause, BatchKeeps

LEMMA AtMostOneArgsKeeps ==
  ASSUME IInv, AtMostOneArgs
  PROVE  IInv'
<1>1. todo # <<>> /\ Head(todo).op = "at_most_one_args" /\ Become(0, Batch(AtMostOneOf(In)))
  BY DEF AtMostOneArgs, On
<1>2. \A v : Means(v, Head(todo)) <=> Count(v, In) <= 1  BY <1>1, Meanings DEF In, Out
<1>3. /\ nvar \in Nat /\ In \in Seq(LitsUpTo(nvar)) /\ In \in Clause  BY <1>1, Running
<1>5. AtMostOneOf(In) \in SUBSET Seq(LitsUpTo(nvar))  BY <1>3, PatternLits
<1>6. \A v \in Total : AllSatisfied(v, AtMostOneOf(In)) <=> Means(v, Head(todo))
  BY <1>2, <1>3, AtMostOneOfMeans, AtMostOneOfHolds
<1> QED  BY <1>1, <1>5, <1>6, BatchKeeps

LEMMA AtMostTwoArgsKeeps ==
  ASSUME IInv, AtMostTwoArgs
  PROVE  IInv'
<1>1. todo # <<>> /\ Head(todo).op = "at_most_two_args" /\ Become(0, Batch(AtMostTwoOf(In)))
  BY DEF AtMostTwoArgs, On
<1>2. \A v : Means(v, Head(todo)) <=> Count(v, In) <= 2  BY <1>1, Meanings DEF In, Out
<1>3. /\ nvar \in Nat /\ In \in Seq(LitsUpTo(nvar)) /\ In \in Clause  BY <1>1, Running
<1>5. AtMostTwoOf(In) \in SUBSET Seq(LitsUpTo(nvar))  BY <1>3, PatternLits
<1>6. \A v \in Total : AllSatisfied(v, AtMostTwoOf(In)) <=> Means(v, Head(todo))
  BY <1>2, <1>3, AtMostTwoOfMeans, AtMostTwoOfHolds
<1> QED  BY <1>1, <1>5, <1>6, BatchKeeps

LEMMA AtLeastTwoArgsKeeps ==
  ASSUME IInv, AtLeastTwoArgs
  PROVE  IInv'
<1>1. todo # <<>> /\ Head(todo).op = "at_least_two_args" /\ Become(0, Batch(AtLeastTwoOf(In)))
  BY DEF AtLeastTwoArgs, On
<1>2. \A v : Means(v, Head(todo)) <=> Count(v, In) >= 2  BY <1>1, Meanings DEF In, Out
<1>3. /\ nvar \in Nat /\ In \in Seq(LitsUpTo(nvar)) /\ In \in Clause  BY <1>1, Running
<1>4. Len(In) >= 1
  <2>1. Shape(Head(todo)) /\ Head(todo).in = In /\ Len(In) \in Nat  BY <1>1, Setting
  <2> QED  BY <1>1, <2>1 DEF Shape, VectorNames
<1>5. AtLeastTwoOf(In) \in SUBSET Seq(LitsUpTo(nvar))  BY <1>3, PatternLits
<1>6. \A v \in Total : AllSatisfied(v, AtLeastTwoOf(In)) <=> Means(v, Head(todo))
  BY <1>2, <1>3, <1>4, AtLeastTwoOfMeans, AtLeastTwoOfHolds
<1> QED  BY <1>1, <1>5, <1>6, BatchKeeps

LEMMA NotOneKeeps ==
  ASSUME IInv, NotOne
  PROVE  IInv'
<1>1. todo # <<>> /\ Head(todo).op = "not_one" /\ Become(0, Batch(NotOneOf(In)))
  BY DEF NotOne, On
<1>2. \A v : Means(v, Head(todo)) <=> Count(v, In) # 1  BY <1>1, Meanings DEF In, Out
<1>3. /\ nvar \in Nat /\ In \in Seq(LitsUpTo(nvar)) /\ In \in Clause  BY <1>1, Running
<1>5. NotOneOf(In) \in SUBSET Seq(LitsUpTo(nvar))  BY <1>3, PatternLits
<1>6. \A v \in Total : AllSatisfied(v, NotOneOf(In)) <=> Means(v, Head(todo))
  BY <1>2, <1>3, NotOneOfMeans, NotOneOfHolds
<1> QED  BY <1>1, <1>5, <1>6, BatchKeeps

LEMMA AddBuffgateKeeps ==
  ASSUME IInv, AddBuffgate
  PROVE  IInv'
<1>1. todo # <<>> /\ Head(todo).op = "buff" /\ Become(0, Batch(BuffGate(Out[1], In[1])))
  BY DEF AddBuffgate, On
<1>2. \A v : Means(v, Head(todo)) <=> (True(v, Out[1]) <=> Count(v, In) = 1)
  BY <1>1, Meanings DEF In, Out
<1>3. Len(In) = 1 /\ Len(Out) = 1
  <2>1. Shape(Head(todo)) /\ Head(todo).in = In /\ Head(todo).out = Out /\ Len(In) \in Nat
    BY <1>1, Setting
  <2> QED  BY <1>1, <2>1 DEF Shape, VectorNames
<1>4. nvar \in Nat /\ In = <<In[1]>> /\ In[1] \in LitsUpTo(nvar)
  BY <1>1, <1>3, Running, ShortSequences
<1>5. Out[1] \in LitsUpTo(nvar)  BY <1>1, <1>3, Running, ShortSequences
<1>6. In[1] \in Literal /\ Out[1] \in Literal  BY <1>4, <1>5, LitsNegate
<1>7. BuffGate(Out[1], In[1]) \in SUBSET Seq(LitsUpTo(nvar))  BY <1>4, <1>5, SmallGateLits
<1>8. \A v : Count(v, In) = Value(v, In[1])  BY <1>4, <1>6, CountOneLiteral
<1>9. \A v \in Total : AllSatisfied(v, BuffGate(Out[1], In[1])) <=>
                           (True(v, Out[1]) <=> True(v, In[1]))
  BY <1>6, BuffGateMeans, BuffGateHolds
<1>10. \A v : Count(v, In) = 1 <=> True(v, In[1])  BY <1>8 DEF Value
<1> QED  BY <1>1, <1>2, <1>7, <1>9, <1>10, BatchKeeps

LEMMA AddAndgateKeeps ==
  ASSUME IInv, AddAndgate
  PROVE  IInv'
<1>1. todo # <<>> /\ Head(todo).op = "and" /\ Become(0, Batch(AndGate(Out[1], In)))
  BY DEF AddAndgate, On
<1>2. \A v : Means(v, Head(todo)) <=> (True(v, Out[1]) <=> Count(v, In) = Len(In))
  BY <1>1, Meanings DEF In, Out
<1>3. Len(Out) = 1
  <2>1. Shape(Head(todo)) /\ Head(todo).in = In /\ Head(todo).out = Out /\ Len(In) \in Nat
    BY <1>1, Setting
  <2> QED  BY <1>1, <2>1 DEF Shape, VectorNames
<1>4. nvar \in Nat /\ In \in Seq(LitsUpTo(nvar)) /\ In \in Clause  BY <1>1, Running
<1>5. Out[1] \in LitsUpTo(nvar) /\ Out[1] \in Literal
  BY <1>1, <1>3, Running, ShortSequences, LitsNegate
<1>6. AndGate(Out[1], In) \in SUBSET Seq(LitsUpTo(nvar))  BY <1>4, <1>5, WideGateLits
<1>7. \A v \in Total : AllSatisfied(v, AndGate(Out[1], In)) <=>
                       (True(v, Out[1]) <=> Count(v, In) = Len(In))
  BY <1>4, <1>5, AndGateMeans, AndGateHolds
<1> QED  BY <1>1, <1>2, <1>6, <1>7, BatchKeeps

LEMMA AddOrgateKeeps ==
  ASSUME IInv, AddOrgate
  PROVE  IInv'
<1>1. todo # <<>> /\ Head(todo).op = "or" /\ Become(0, Batch(OrGate(Out[1], In)))
  BY DEF AddOrgate, On
<1>2. \A v : Means(v, Head(todo)) <=> (True(v, Out[1]) <=> Count(v, In) >= 1)
  BY <1>1, Meanings DEF In, Out
<1>3. Len(Out) = 1
  <2>1. Shape(Head(todo)) /\ Head(todo).in = In /\ Head(todo).out = Out /\ Len(In) \in Nat
    BY <1>1, Setting
  <2> QED  BY <1>1, <2>1 DEF Shape, VectorNames
<1>4. nvar \in Nat /\ In \in Seq(LitsUpTo(nvar)) /\ In \in Clause  BY <1>1, Running
<1>5. Out[1] \in LitsUpTo(nvar) /\ Out[1] \in Literal
  BY <1>1, <1>3, Running, ShortSequences, LitsNegate
<1>6. OrGate(Out[1], In) \in SUBSET Seq(LitsUpTo(nvar))  BY <1>4, <1>5, WideGateLits
<1>7. \A v \in Total : AllSatisfied(v, OrGate(Out[1], In)) <=>
                       (True(v, Out[1]) <=> Count(v, In) >= 1)
  BY <1>4, <1>5, OrGateMeans, OrGateHolds
<1> QED  BY <1>1, <1>2, <1>6, <1>7, BatchKeeps

LEMMA AddNotgateKeeps ==
  ASSUME IInv, AddNotgate
  PROVE  IInv'
<1>1. todo # <<>> /\ Head(todo).op = "not" /\ Become(0, <<GateCall("buff", In, Negated(Out))>>)
  BY DEF AddNotgate, On
<1>2. \A v : Means(v, Head(todo)) <=> (True(v, Out[1]) <=> Count(v, In) = 0)
  BY <1>1, Meanings DEF In, Out
<1>3. Len(In) = 1 /\ Len(Out) = 1
  <2>1. Shape(Head(todo)) /\ Head(todo).in = In /\ Head(todo).out = Out /\ Len(In) \in Nat
    BY <1>1, Setting
  <2> QED  BY <1>1, <2>1 DEF Shape, VectorNames
<1>4. nvar \in Nat /\ In \in Seq(LitsUpTo(nvar)) /\ nvar + 0 = nvar  BY <1>1, Running, Setting
<1>5. Negated(Out) = <<-Out[1]>> /\ -Out[1] \in LitsUpTo(nvar + 0) /\ Out[1] \in Literal
  BY <1>1, <1>3, OneOutput
<1>6. -Out[1] \in LitsUpTo(nvar)  BY <1>4, <1>5
<1>7. /\ Good(<<GateCall("buff", In, <<-Out[1]>>)>>, nvar)
      /\ \A v : AllMean(v, <<GateCall("buff", In, <<-Out[1]>>)>>) <=>
                (True(v, -Out[1]) <=> Count(v, In) = 1)
  BY <1>3, <1>4, <1>6, CalledBuff
<1>8. \A v \in Total : True(v, -Out[1]) <=> ~True(v, Out[1])  BY <1>5, TrueNegation
<1>9. \A v : ~(Count(v, In) = 1) <=> Count(v, In) = 0
  <2>1. \A v : Count(v, In) \in 0 .. Len(In) /\ Count(v, In) \in Nat  BY <1>1, Setting
  <2> QED  BY <1>3, <2>1
<1>10. \A v \in Total : AllMean(v, <<GateCall("buff", In, <<-Out[1]>>)>>) <=> Means(v, Head(todo))
  BY <1>2, <1>7, <1>8, <1>9
<1> QED  BY <1>1, <1>5, <1>7, <1>10, CallKeeps

LEMMA AddNandgateKeeps ==
  ASSUME IInv, AddNandgate
  PROVE  IInv'
<1>1. todo # <<>> /\ Head(todo).op = "nand" /\ Become(0, <<GateCall("and", In, Negated(Out))>>)
  BY DEF AddNandgate, On
<1>2. \A v : Means(v, Head(todo)) <=> (True(v, Out[1]) <=> Count(v, In) # Len(In))
  BY <1>1, Meanings DEF In, Out
<1>3. Len(Out) = 1
  <2>1. Shape(Head(todo)) /\ Head(todo).in = In /\ Head(todo).out = Out /\ Len(In) \in Nat
    BY <1>1, Setting
  <2> QED  BY <1>1, <2>1 DEF Shape, VectorNames
<1>4. nvar \in Nat /\ In \in Seq(LitsUpTo(nvar)) /\ nvar + 0 = nvar  BY <1>1, Running, Setting
<1>5. Negated(Out) = <<-Out[1]>> /\ -Out[1] \in LitsUpTo(nvar + 0) /\ Out[1] \in Literal
  BY <1>1, <1>3, OneOutput
<1>6. -Out[1] \in LitsUpTo(nvar)  BY <1>4, <1>5
<1>7. /\ Good(<<GateCall("and", In, <<-Out[1]>>)>>, nvar)
      /\ \A v : AllMean(v, <<GateCall("and", In, <<-Out[1]>>)>>) <=>
                (True(v, -Out[1]) <=> Count(v, In) = Len(In))
  BY <1>3, <1>4, <1>6, CalledAnd
<1>8. \A v \in Total : True(v, -Out[1]) <=> ~True(v, Out[1])  BY <1>5, TrueNegation
<1>9. \A v : ~(Count(v, In) = Len(In)) <=> Count(v, In) # Len(In)
  <2>1. \A v : Count(v, In) \in 0 .. Len(In) /\ Count(v, In) \in Nat  BY <1>1, Setting
  <2> QED  BY <2>1
<1>10. \A v \in Total : AllMean(v, <<GateCall("and", In, <<-Out[1]>>)>>) <=> Means(v, Head(todo))
  BY <1>2, <1>7, <1>8, <1>9
<1> QED  BY <1>1, <1>5, <1>7, <1>10, CallKeeps

LEMMA AddNorgateKeeps ==
  ASSUME IInv, AddNorgate
  PROVE  IInv'
<1>1. todo # <<>> /\ Head(todo).op = "nor" /\ Become(0, <<GateCall("or", In, Negated(Out))>>)
  BY DEF AddNorgate, On
<1>2. \A v : Means(v, Head(todo)) <=> (True(v, Out[1]) <=> Count(v, In) = 0)
  BY <1>1, Meanings DEF In, Out
<1>3. Len(Out) = 1
  <2>1. Shape(Head(todo)) /\ Head(todo).in = In /\ Head(todo).out = Out /\ Len(In) \in Nat
    BY <1>1, Setting
  <2> QED  BY <1>1, <2>1 DEF Shape, VectorNames
<1>4. nvar \in Nat /\ In \in Seq(LitsUpTo(nvar)) /\ nvar + 0 = nvar  BY <1>1, Running, Setting
<1>5. Negated(Out) = <<-Out[1]>> /\ -Out[1] \in LitsUpTo(nvar + 0) /\ Out[1] \in Literal
  BY <1>1, <1>3, OneOutput
<1>6. -Out[1] \in LitsUpTo(nvar)  BY <1>4, <1>5
<1>7. /\ Good(<<GateCall("or", In, <<-Out[1]>>)>>, nvar)
      /\ \A v : AllMean(v, <<GateCall("or", In, <<-Out[1]>>)>>) <=>
                (True(v, -Out[1]) <=> Count(v, In) >= 1)
  BY <1>3, <1>4, <1>6, CalledOr
<1>8. \A v \in Total : True(v, -Out[1]) <=> ~True(v, Out[1])  BY <1>5, TrueNegation
<1>9. \A v : ~(Count(v, In) >= 1) <=> Count(v, In) = 0
  <2>1. \A v : Count(v, In) \in 0 .. Len(In) /\ Count(v, In) \in Nat  BY <1>1, Setting
  <2> QED  BY <2>1
<1>10. \A v \in Total : AllMean(v, <<GateCall("or", In, <<-Out[1]>>)>>) <=> Means(v, Head(todo))
  BY <1>2, <1>7, <1>8, <1>9
<1> QED  BY <1>1, <1>5, <1>7, <1>10, CallKeeps

LEMMA AddXnorgateKeeps ==
  ASSUME IInv, AddXnorgate
  PROVE  IInv'
<1>1. todo # <<>> /\ Head(todo).op = "xnor" /\ Become(0, <<GateCall("xor", In, Negated(Out))>>)
  BY DEF AddXnorgate, On
<1>2. \A v : Means(v, Head(todo)) <=> (True(v, Out[1]) <=> Count(v, In) % 2 = 0)
  BY <1>1, Meanings DEF In, Out
<1>3. Len(In) >= 2 /\ Len(Out) = 1
  <2>1. Shape(Head(todo)) /\ Head(todo).in = In /\ Head(todo).out = Out /\ Len(In) \in Nat
    BY <1>1, Setting
  <2> QED  BY <1>1, <2>1 DEF Shape, VectorNames
<1>4. nvar \in Nat /\ In \in Seq(LitsUpTo(nvar)) /\ nvar + 0 = nvar  BY <1>1, Running, Setting
<1>5. Negated(Out) = <<-Out[1]>> /\ -Out[1] \in LitsUpTo(nvar + 0) /\ Out[1] \in Literal
  BY <1>1, <1>3, OneOutput
<1>6. -Out[1] \in LitsUpTo(nvar)  BY <1>4, <1>5
<1>7. /\ Good(<<GateCall("xor", In, <<-Out[1]>>)>>, nvar)
      /\ \A v : AllMean(v, <<GateCall("xor", In, <<-Out[1]>>)>>) <=>
                (True(v, -Out[1]) <=> Count(v, In) % 2 = 1)
  BY <1>3, <1>4, <1>6, CalledXor
<1>8. \A v \in Total : True(v, -Out[1]) <=> ~True(v, Out[1])  BY <1>5, TrueNegation
<1>9. \A v : ~(Count(v, In) % 2 = 1) <=> Count(v, In) % 2 = 0
  <2>1. \A v : Count(v, In) \in Nat  BY <1>1, Setting
  <2> QED  BY <2>1
<1>10. \A v \in Total : AllMean(v, <<GateCall("xor", In, <<-Out[1]>>)>>) <=> Means(v, Head(todo))
  BY <1>2, <1>7, <1>8, <1>9
<1> QED  BY <1>1, <1>5, <1>7, <1>10, CallKeeps

(* The two binary digits of a small number.                                *)
LEMMA Digits ==
  ASSUME NEW v, NEW o, NEW s, NEW n \in Nat, n = 2 * Value(v, o) + Value(v, s)
  PROVE  (True(v, o) <=> n >= 2) /\ (True(v, s) <=> n % 2 = 1)
<1>1. CASE True(v, o) /\ True(v, s)
  <2>1. n = 3  BY <1>1 DEF Value
  <2> QED  BY <1>1, <2>1
<1>2. CASE True(v, o) /\ ~True(v, s)
  <2>1. n = 2  BY <1>2 DEF Value
  <2> QED  BY <1>2, <2>1
<1>3. CASE ~True(v, o) /\ True(v, s)
  <2>1. n = 1  BY <1>3 DEF Value
  <2> QED  BY <1>3, <2>1
<1>4. CASE ~True(v, o) /\ ~True(v, s)
  <2>1. n = 0  BY <1>4 DEF Value
  <2> QED  BY <1>4, <2>1
<1> QED  BY <1>1, <1>2, <1>3, <1>4

LEMMA DigitsDetermine ==
  ASSUME NEW v, NEW o, NEW s, NEW n \in 0 .. 3,
         True(v, o) <=> n >= 2, True(v, s) <=> n % 2 = 1
  PROVE  n = 2 * Value(v, o) + Value(v, s)
<1>1. n = 0 \/ n = 1 \/ n = 2 \/ n = 3  OBVIOUS
<1>2. CASE n = 0  BY <1>2 DEF Value
<1>3. CASE n = 1  BY <1>3 DEF Value
<1>4. CASE n = 2  BY <1>4 DEF Value
<1>5. CASE n = 3  BY <1>5 DEF Value
<1> QED  BY <1>1, <1>2, <1>3, <1>4, <1>5

LEMMA Parity ==
  ASSUME NEW a \in Nat, NEW b \in Nat
  PROVE  (a + b) % 2 = 1 <=> (a % 2 = 1 <=> ~(b % 2 = 1))
  OBVIOUS

LEMMA AddHalfAdderKeeps ==
  ASSUME IInv, AddHalfAdder
  PROVE  IInv'
<1> DEFINE S == HalfAdder(In[1], In[2], Out[2], Out[1])
<1>1. todo # <<>> /\ Head(todo).op = "half_adder" /\ Become(0, Batch(S))
  BY DEF AddHalfAdder, On
<1> HIDE DEF S
<1>2. \A v : Means(v, Head(todo)) <=>
            (True(v, Out[1]) <=> Count(v, In) >= 2) /\ (True(v, Out[2]) <=> Count(v, In) % 2 = 1)
  BY <1>1, Meanings DEF In, Out
<1>3. Len(In) = 2 /\ Len(Out) = 2
  <2>1. Shape(Head(todo)) /\ Head(todo).in = In /\ Head(todo).out = Out /\ Len(In) \in Nat
    BY <1>1, Setting
  <2> QED  BY <1>1, <2>1 DEF Shape, VectorNames
<1>4. /\ nvar \in Nat /\ In = <<In[1], In[2]>>
      /\ In[1] \in LitsUpTo(nvar) /\ In[2] \in LitsUpTo(nvar)
  BY <1>1, <1>3, Running, ShortSequences
<1>5. Out[1] \in LitsUpTo(nvar) /\ Out[2] \in LitsUpTo(nvar)
  BY <1>1, <1>3, Running, ShortSequences
<1>6. In[1] \in Literal /\ In[2] \in Literal /\ Out[1] \in Literal /\ Out[2] \in Literal
  BY <1>4, <1>5, LitsNegate
<1>7. S \in SUBSET Seq(LitsUpTo(nvar))  BY <1>4, <1>5, AdderLits DEF S
<1>8. \A v : Count(v, In) = Value(v, In[1]) + Value(v, In[2])
  BY <1>4, <1>6, CountTwoLiterals
<1>9. ASSUME NEW v \in Total, AllSatisfied(v, S) PROVE Means(v, Head(todo))
  <2>1. Count(v, In) = 2 * Value(v, Out[1]) + Value(v, Out[2])
    BY <1>6, <1>8, <1>9, HalfAdderMeans DEF S
  <2>2. Count(v, In) \in Nat  BY <1>1, Setting
  <2> QED  BY <1>2, <2>1, <2>2, Digits
<1>10. ASSUME NEW v \in Total, Means(v, Head(todo)) PROVE AllSatisfied(v, S)
  <2>1. Count(v, In) \in 0 .. 3
    <3>1. Count(v, In) \in 0 .. Len(In)  BY <1>1, Setting
    <3> QED  BY <1>3, <3>1
  <2>2. Count(v, In) = 2 * Value(v, Out[1]) + Value(v, Out[2])
    BY <1>2, <1>10, <2>1, DigitsDetermine
  <2> QED  BY <1>6, <1>8, <2>2, HalfAdderHolds DEF S
<1> QED  BY <1>1, <1>7, <1>9, <1>10, BatchKeeps

LEMMA AddFullAdderKeeps ==
  ASSUME IInv, AddFullAdder
  PROVE  IInv'
<1> DEFINE S == FullAdder(In[1], In[2], In[3], Out[2], Out[1])
<1>1. todo # <<>> /\ Head(todo).op = "full_adder" /\ Become(0, Batch(S))
  BY DEF AddFullAdder, On
<1> HIDE DEF S
<1>2. \A v : Means(v, Head(todo)) <=>
            (True(v, Out[1]) <=> Count(v, In) >= 2) /\ (True(v, Out[2]) <=> Count(v, In) % 2 = 1)
  BY <1>1, Meanings DEF In, Out
<1>3. Len(In) = 3 /\ Len(Out) = 2
  <2>1. Shape(Head(todo)) /\ Head(todo).in = In /\ Head(todo).out = Out /\ Len(In) \in Nat
    BY <1>1, Setting
  <2> QED  BY <1>1, <2>1 DEF Shape, VectorNames
<1>4. /\ nvar \in Nat /\ In = <<In[1], In[2], In[3]>>
      /\ In[1] \in LitsUpTo(nvar) /\ In[2] \in LitsUpTo(nvar) /\ In[3] \in LitsUpTo(nvar)
  BY <1>1, <1>3, Running, ShortSequences
<1>5. Out[1] \in LitsUpTo(nvar) /\ Out[2] \in LitsUpTo(nvar)
  BY <1>1, <1>3, Running, ShortSequences
<1>6. /\ In[1] \in Literal /\ In[2] \in Literal /\ In[3] \in Literal
      /\ Out[1] \in Literal /\ Out[2] \in Literal
  BY <1>4, <1>5, LitsNegate
<1>7. S \in SUBSET Seq(LitsUpTo(nvar))  BY <1>4, <1>5, AdderLits DEF S
<1>8. \A v : Count(v, In) = Value(v, In[1]) + Value(v, In[2]) + Value(v, In[3])
  BY <1>4, <1>6, CountThreeLiterals
<1>9. ASSUME NEW v \in Total, AllSatisfied(v, S) PROVE Means(v, Head(todo))
  <2>1. Count(v, In) = 2 * Value(v, Out[1]) + Value(v, Out[2])
    BY <1>6, <1>8, <1>9, FullAdderMeans DEF S
  <2>2. Count(v, In) \in Nat  BY <1>1, Setting
  <2> QED  BY <1>2, <2>1, <2>2, Digits
<1>10. ASSUME NEW v \in Total, Means(v, Head(todo)) PROVE AllSatisfied(v, S)
  <2>1. Count(v, In) \in 0 .. 3
    <3>1. Count(v, In) \in 0 .. Len(In)  BY <1>1, Setting
    <3> QED  BY <1>3, <3>1
  <2>2. Count(v, In) = 2 * Value(v, Out[1]) + Value(v, Out[2])
    BY <1>2, <1>10, <2>1, DigitsDetermine
  <2> QED  BY <1>6, <1>8, <2>2, FullAdderHolds DEF S
<1> QED  BY <1>1, <1>7, <1>9, <1>10, BatchKeeps

(* Three calls queued as two and one.                                       *)
LEMMA TwoAndOne ==
  ASSUME NEW c, NEW d, NEW e
  PROVE  <<c, d>> \o <<e>> = <<c, d, e>>
<1> DEFINE A == {c, d, e}
           S == <<c, d>>
           T == <<e>>
           U == <<c, d, e>>
<1>1. S \in Seq(A) /\ T \in Seq(A) /\ U \in Seq(A) /\ Len(S) = 2 /\ Len(T) = 1 /\ Len(U) = 3
  OBVIOUS
<1>2. S[1] = c /\ S[2] = d /\ T[1] = e /\ U[1] = c /\ U[2] = d /\ U[3] = e  OBVIOUS
<1> HIDE DEF A, S, T, U
<1>3. /\ S \o T \in Seq(A) /\ Len(S \o T) = Len(S) + Len(T)
      /\ \A i \in 1 .. Len(S) + Len(T) :
             (S \o T)[i] = IF i <= Len(S) THEN S[i] ELSE T[i - Len(S)]
  BY <1>1, ConcatProperties
<1> DEFINE W == S \o T
<1>4. W \in Seq(A) /\ Len(W) = 3 /\ \A i \in 1 .. 3 : W[i] = IF i <= 2 THEN S[i] ELSE T[i - 2]
  BY <1>1, <1>3
<1> HIDE DEF W
<1>5. W[1] = c /\ W[2] = d /\ W[3] = e  BY <1>2, <1>4
<1>6. \A i \in 1 .. 3 : W[i] = U[i]  BY <1>2, <1>5
<1>7. W = U  BY <1>1, <1>4, <1>6, SeqEqual
<1> QED  BY <1>7 DEF S, T, U, W

LEMMA AddXorgateKeeps ==
  ASSUME IInv, AddXorgate
  PROVE  IInv'
<1>1. todo # <<>> /\ Head(todo).op = "xor"  BY DEF AddXorgate, On
<1>2. \A v : Means(v, Head(todo)) <=> (True(v, Out[1]) <=> Count(v, In) % 2 = 1)
  BY <1>1, Meanings DEF In, Out
<1>3. Len(In) >= 2 /\ Len(Out) = 1 /\ Len(In) \in Nat
  <2>1. Shape(Head(todo)) /\ Head(todo).in = In /\ Head(todo).out = Out /\ Len(In) \in Nat
    BY <1>1, Setting
  <2> QED  BY <1>1, <2>1 DEF Shape, VectorNames
<1>4. nvar \in Nat /\ In \in Seq(LitsUpTo(nvar)) /\ Out = <<Out[1]>> /\ Out[1] \in LitsUpTo(nvar)
  BY <1>1, <1>3, Running, ShortSequences
<1>5. Out[1] \in Literal  BY <1>4, LitsNegate
<1>6. CASE Len(In) = 2
  <2> DEFINE S == XorGate2(Out[1], In[1], In[2])
  <2>1. Become(0, Batch(S))  BY <1>6 DEF AddXorgate
  <2>2. In = <<In[1], In[2]>> /\ In[1] \in LitsUpTo(nvar) /\ In[2] \in LitsUpTo(nvar)
    BY <1>4, <1>6, ShortSequences
  <2>3. In[1] \in Literal /\ In[2] \in Literal  BY <1>4, <2>2, LitsNegate
  <2>4. S \in SUBSET Seq(LitsUpTo(nvar))  BY <1>4, <2>2, AdderLits
  <2>5. \A v \in Total : AllSatisfied(v, S) <=>
                             (True(v, Out[1]) <=> (True(v, In[1]) <=> ~True(v, In[2])))
    BY <1>5, <2>3, XorGate2Means, XorGate2Holds
  <2>6. \A v : Count(v, In) = Value(v, In[1]) + Value(v, In[2])
    BY <2>2, <2>3, CountTwoLiterals
  <2>7. \A v : Count(v, In) % 2 = 1 <=> (True(v, In[1]) <=> ~True(v, In[2]))
    BY <2>6 DEF Value
  <2>8. \A v \in Total : AllSatisfied(v, S) <=> Means(v, Head(todo))
    BY <1>2, <2>5, <2>7
  <2> HIDE DEF S
  <2> QED  BY <1>1, <2>1, <2>4, <2>8, BatchKeeps
<1>7. CASE Len(In) = 3
  <2> DEFINE S == XorGate3(Out[1], In[1], In[2], In[3])
  <2>1. Become(0, Batch(S))  BY <1>7 DEF AddXorgate
  <2>2. /\ In = <<In[1], In[2], In[3]>>
        /\ In[1] \in LitsUpTo(nvar) /\ In[2] \in LitsUpTo(nvar) /\ In[3] \in LitsUpTo(nvar)
    BY <1>4, <1>7, ShortSequences
  <2>3. In[1] \in Literal /\ In[2] \in Literal /\ In[3] \in Literal  BY <1>4, <2>2, LitsNegate
  <2>4. S \in SUBSET Seq(LitsUpTo(nvar))  BY <1>4, <2>2, AdderLits
  <2>5. \A v \in Total : AllSatisfied(v, S) <=>
          (True(v, Out[1]) <=> (True(v, In[1]) <=> (True(v, In[2]) <=> True(v, In[3]))))
    BY <1>5, <2>3, XorGate3Means, XorGate3Holds
  <2>6. \A v : Count(v, In) = Value(v, In[1]) + Value(v, In[2]) + Value(v, In[3])
    BY <2>2, <2>3, CountThreeLiterals
  <2>7. \A v : Count(v, In) % 2 = 1 <=> (True(v, In[1]) <=> (True(v, In[2]) <=> True(v, In[3])))
    BY <2>6 DEF Value
  <2>8. \A v \in Total : AllSatisfied(v, S) <=> Means(v, Head(todo))
    BY <1>2, <2>5, <2>7
  <2> HIDE DEF S
  <2> QED  BY <1>1, <2>1, <2>4, <2>8, BatchKeeps
<1>8. CASE Len(In) > 3
  <2> DEFINE h == Len(In) \div 2
             c == GateCall("xor", First(h), <<Fresh(1)>>)
             d == GateCall("xor", Rest(h), <<Fresh(2)>>)
             e == GateCall("xor", <<Fresh(1), Fresh(2)>>, <<Out[1]>>)
  <2>1. Become(2, <<c, d, e>>)
    <3>1. Become(2, <<GateCall("xor", First(h), <<nvar + 1>>), GateCall("xor", Rest(h), <<nvar + 2>>),
                      GateCall("xor", <<nvar + 1, nvar + 2>>, Out)>>)
      BY <1>3, <1>8 DEF AddXorgate
    <3> QED  BY <1>4, <3>1 DEF Fresh
  <2>2. h \in 0 .. Len(In) /\ h >= 2 /\ Len(In) - h >= 2  BY <1>3, <1>8
  <2> HIDE DEF h
  <2>3. /\ nvar + 2 \in Nat /\ Out[1] \in LitsUpTo(nvar + 2)
        /\ First(h) \in Seq(LitsUpTo(nvar + 2)) /\ Rest(h) \in Seq(LitsUpTo(nvar + 2))
        /\ Len(First(h)) >= 2 /\ Len(Rest(h)) >= 2
        /\ \A v : Count(v, In) = Count(v, First(h)) + Count(v, Rest(h))
        /\ \A v : Count(v, First(h)) \in Nat /\ Count(v, Rest(h)) \in Nat
    BY <1>1, <1>3, <2>2, Setting, Halves, OneOutput
  <2>4. /\ Fresh(1) \in LitsUpTo(nvar + 2) /\ Fresh(2) \in LitsUpTo(nvar + 2)
        /\ Fresh(1) \in Literal /\ Fresh(2) \in Literal
    BY <1>4, FreshLits
  <2>5. <<Fresh(1), Fresh(2)>> \in Seq(LitsUpTo(nvar + 2)) /\ Len(<<Fresh(1), Fresh(2)>>) >= 2
    BY <2>4, TupleLits
  <2>6. Good(<<c>>, nvar + 2) /\ \A v : AllMean(v, <<c>>) <=>
            (True(v, Fresh(1)) <=> Count(v, First(h)) % 2 = 1)
    BY <2>3, <2>4, CalledXor
  <2>7. Good(<<d>>, nvar + 2) /\ \A v : AllMean(v, <<d>>) <=>
            (True(v, Fresh(2)) <=> Count(v, Rest(h)) % 2 = 1)
    BY <2>3, <2>4, CalledXor
  <2>8. Good(<<e>>, nvar + 2) /\ \A v : AllMean(v, <<e>>) <=>
                (True(v, Out[1]) <=> Count(v, <<Fresh(1), Fresh(2)>>) % 2 = 1)
    BY <2>3, <2>5, CalledXor
  <2>9. \A v : Count(v, <<Fresh(1), Fresh(2)>>) % 2 = 1 <=>
                   (True(v, Fresh(1)) <=> ~True(v, Fresh(2)))
    <3>1. \A v : Count(v, <<Fresh(1), Fresh(2)>>) = Value(v, Fresh(1)) + Value(v, Fresh(2))
      BY <2>4, CountTwoLiterals
    <3> QED  BY <3>1 DEF Value
  <2>10. \A v : Count(v, In) % 2 = 1 <=>
                    (Count(v, First(h)) % 2 = 1 <=> ~(Count(v, Rest(h)) % 2 = 1))
    <3> SUFFICES ASSUME NEW v
                 PROVE  Count(v, In) % 2 = 1 <=>
                          (Count(v, First(h)) % 2 = 1 <=> ~(Count(v, Rest(h)) % 2 = 1))
      OBVIOUS
    <3>1. /\ Count(v, In) = Count(v, First(h)) + Count(v, Rest(h))
          /\ Count(v, First(h)) \in Nat /\ Count(v, Rest(h)) \in Nat
      BY <2>3
    <3> QED  BY <3>1, Parity
  <2> HIDE DEF c, d, e
  <2>11. /\ Good(<<c, d>>, nvar + 2)
         /\ \A v : AllMean(v, <<c, d>>) <=> AllMean(v, <<c>>) /\ AllMean(v, <<d>>)
    BY <2>3, <2>6, <2>7, TwoCalls
  <2>12. Become(2, <<c, d>> \o <<e>>)
    <3>1. <<c, d>> \o <<e>> = <<c, d, e>>  BY TwoAndOne
    <3> QED  BY <2>1, <3>1
  <2>13. ASSUME NEW v \in Total PROVE Extends(v, <<c, d>>)
    <3>1. PICK w \in Total : /\ Agree(v, w, nvar)
                             /\ True(w, Fresh(1)) <=> Count(v, First(h)) % 2 = 1
                             /\ True(w, Fresh(2)) <=> Count(v, Rest(h)) % 2 = 1
      BY <1>4, Extend
    <3>2. Count(w, First(h)) = Count(v, First(h)) /\ Count(w, Rest(h)) = Count(v, Rest(h))
      BY <1>1, <2>2, <3>1, SameCall
    <3>3. AllMean(w, <<c, d>>)  BY <2>6, <2>7, <2>11, <3>1, <3>2
    <3> QED  BY <3>1, <3>3 DEF Extends
  <2>14. \A v \in Total : AllMean(v, <<c, d>>) => (AllMean(v, <<e>>) <=> Means(v, Head(todo)))
    BY <1>2, <2>6, <2>7, <2>8, <2>9, <2>10, <2>11
  <2> QED  BY <1>1, <2>3, <2>8, <2>11, <2>12, <2>13, <2>14, FirstKeeps
<1>9. Len(In) = 2 \/ Len(In) = 3 \/ Len(In) > 3
  <2>1. \A n \in Nat : n >= 2 => n = 2 \/ n = 3 \/ n > 3  OBVIOUS
  <2> QED  BY <1>3, <2>1
<1> QED  BY <1>6, <1>7, <1>8, <1>9

-----------------------------------------------------------------------------
(* What the halves of a long list tell of it.                              *)

LEMMA PlainCall ==
  ASSUME NEW op, NEW in
  PROVE  Call(op, in) = GateCall(op, in, <<>>)
  BY DEF Call, GateCall

LEMMA HalfRange ==
  ASSUME IInv, todo # <<>>, Len(In) > 4
  PROVE  Half \in 0 .. Len(In) /\ Half >= 2 /\ Len(In) - Half >= 2
<1>1. Len(In) \in Nat
  <2>1. In \in Clause  BY Running
  <2> QED  BY <2>1 DEF Clause
<1>2. \A n \in Nat : n > 4 => /\ (n + 1) \div 2 \in 0 .. n
                              /\ (n + 1) \div 2 >= 2 /\ n - (n + 1) \div 2 >= 2
  OBVIOUS
<1> QED  BY <1>1, <1>2 DEF Half

FrontCount(v) == Count(v, First(Half))
BackCount(v) == Count(v, Rest(Half))

LEMMA HalfCounts ==
  ASSUME IInv, todo # <<>>, Len(In) > 4, NEW n \in Nat
  PROVE  /\ First(Half) \in Seq(LitsUpTo(nvar + n)) /\ Len(First(Half)) >= 2
         /\ Rest(Half) \in Seq(LitsUpTo(nvar + n)) /\ Len(Rest(Half)) >= 2
         /\ \A v : /\ Count(v, In) = FrontCount(v) + BackCount(v)
                   /\ FrontCount(v) \in Nat /\ BackCount(v) \in Nat
  BY HalfRange, Halves DEF FrontCount, BackCount

LEMMA SameHalves ==
  ASSUME IInv, todo # <<>>, Len(In) > 4, NEW v, NEW w, Agree(v, w, nvar)
  PROVE  FrontCount(w) = FrontCount(v) /\ BackCount(w) = BackCount(v)
  BY HalfRange, SameCall DEF FrontCount, BackCount

LEMMA HalvesToOneMean ==
  ASSUME IInv, todo # <<>>, Len(In) > 4, NEW n \in Nat, n >= 2
  PROVE  /\ Good(HalvesToOne, nvar + n)
         /\ \A v : AllMean(v, HalvesToOne) =>
                     Count(v, In) = Value(v, Fresh(1)) + Value(v, Fresh(2))
         /\ \A v : AllMean(v, HalvesToOne) <=>
                     /\ FrontCount(v) <= 1 /\ (True(v, Fresh(1)) <=> FrontCount(v) = 1)
                     /\ BackCount(v) <= 1 /\ (True(v, Fresh(2)) <=> BackCount(v) = 1)
<1> DEFINE c == GateCall("count_one", First(Half), <<Fresh(1)>>)
           d == GateCall("count_one", Rest(Half), <<Fresh(2)>>)
<1>1. nvar \in Nat /\ nvar + n \in Nat  BY Setting
<1>2. Fresh(1) \in LitsUpTo(nvar + n) /\ Fresh(2) \in LitsUpTo(nvar + n)
  BY <1>1, FreshLits
<1>3. Good(<<c>>, nvar + n) /\ \A v : AllMean(v, <<c>>) <=>
            (FrontCount(v) <= 1 /\ (True(v, Fresh(1)) <=> FrontCount(v) = 1))
  BY <1>1, <1>2, HalfCounts, CalledCountOne DEF FrontCount
<1>4. Good(<<d>>, nvar + n) /\ \A v : AllMean(v, <<d>>) <=>
            (BackCount(v) <= 1 /\ (True(v, Fresh(2)) <=> BackCount(v) = 1))
  BY <1>1, <1>2, HalfCounts, CalledCountOne DEF BackCount
<1>5. HalvesToOne = <<c, d>>  BY DEF HalvesToOne
<1> HIDE DEF c, d
<1>6. /\ Good(<<c, d>>, nvar + n)
      /\ \A v : AllMean(v, <<c, d>>) <=> AllMean(v, <<c>>) /\ AllMean(v, <<d>>)
  BY <1>1, <1>3, <1>4, TwoCalls
<1>7. ASSUME NEW v, AllMean(v, HalvesToOne)
      PROVE  Count(v, In) = Value(v, Fresh(1)) + Value(v, Fresh(2))
  <2>1. /\ Count(v, In) = FrontCount(v) + BackCount(v)
        /\ FrontCount(v) \in Nat /\ BackCount(v) \in Nat
    BY HalfCounts
  <2>2. /\ FrontCount(v) <= 1 /\ (True(v, Fresh(1)) <=> FrontCount(v) = 1)
        /\ BackCount(v) <= 1 /\ (True(v, Fresh(2)) <=> BackCount(v) = 1)
    BY <1>3, <1>4, <1>5, <1>6, <1>7
  <2>3. FrontCount(v) = Value(v, Fresh(1))  BY <2>1, <2>2 DEF Value
  <2>4. BackCount(v) = Value(v, Fresh(2))  BY <2>1, <2>2 DEF Value
  <2> QED  BY <2>1, <2>3, <2>4
<1> QED  BY <1>3, <1>4, <1>5, <1>6, <1>7

(* The variables of the halves have values that make them right.           *)
LEMMA HalvesToOneChosen ==
  ASSUME IInv, todo # <<>>, Len(In) > 4, NEW v \in Total, Count(v, In) <= 1
  PROVE  Extends(v, HalvesToOne)
<1>1. nvar \in Nat  BY Setting
<1>2. PICK w \in Total : /\ Agree(v, w, nvar)
                         /\ True(w, Fresh(1)) <=> FrontCount(v) = 1
                         /\ True(w, Fresh(2)) <=> BackCount(v) = 1
  BY <1>1, Extend
<1>3. FrontCount(v) <= 1 /\ BackCount(v) <= 1
  <2>1. 2 \in Nat  OBVIOUS
  <2>2. /\ Count(v, In) = FrontCount(v) + BackCount(v)
        /\ FrontCount(v) \in Nat /\ BackCount(v) \in Nat
    BY <2>1, HalfCounts
  <2> QED  BY <2>2
<1>4. FrontCount(w) = FrontCount(v) /\ BackCount(w) = BackCount(v)  BY <1>2, SameHalves
<1>5. AllMean(w, HalvesToOne)  BY <1>2, <1>3, <1>4, HalvesToOneMean
<1> QED  BY <1>2, <1>5 DEF Extends

LEMMA HalvesToTwoMean ==
  ASSUME IInv, todo # <<>>, Len(In) > 4, NEW n \in Nat, n >= 4
  PROVE  /\ Good(HalvesToTwo("count_two"), nvar + n)
         /\ \A v : AllMean(v, HalvesToTwo("count_two")) =>
              /\ Count(v, In) = 2 * Value(v, Fresh(1)) + Value(v, Fresh(2))
                                + 2 * Value(v, Fresh(3)) + Value(v, Fresh(4))
              /\ ~(True(v, Fresh(1)) /\ True(v, Fresh(2)))
              /\ ~(True(v, Fresh(3)) /\ True(v, Fresh(4)))
         /\ \A v : AllMean(v, HalvesToTwo("count_two")) <=>
              /\ FrontCount(v) <= 2 /\ (True(v, Fresh(1)) <=> FrontCount(v) = 2)
                                    /\ (True(v, Fresh(2)) <=> FrontCount(v) = 1)
              /\ BackCount(v) <= 2 /\ (True(v, Fresh(3)) <=> BackCount(v) = 2)
                                   /\ (True(v, Fresh(4)) <=> BackCount(v) = 1)
<1> DEFINE c == GateCall("count_two", First(Half), <<Fresh(1), Fresh(2)>>)
           d == GateCall("count_two", Rest(Half), <<Fresh(3), Fresh(4)>>)
<1>1. nvar \in Nat /\ nvar + n \in Nat  BY Setting
<1>2. /\ Fresh(1) \in LitsUpTo(nvar + n) /\ Fresh(2) \in LitsUpTo(nvar + n)
      /\ Fresh(3) \in LitsUpTo(nvar + n) /\ Fresh(4) \in LitsUpTo(nvar + n)
  BY <1>1, FreshLits
<1>3. Good(<<c>>, nvar + n) /\ \A v : AllMean(v, <<c>>) <=>
            (FrontCount(v) <= 2 /\ (True(v, Fresh(1)) <=> FrontCount(v) = 2)
                                /\ (True(v, Fresh(2)) <=> FrontCount(v) = 1))
  <2>1. First(Half) \in Seq(LitsUpTo(nvar + n)) /\ Len(First(Half)) >= 2  BY HalfCounts
  <2>2. Good(<<c>>, nvar + n) /\ \A v : AllMean(v, <<c>>) <=>
              (Count(v, First(Half)) <= 2 /\ (True(v, Fresh(1)) <=> Count(v, First(Half)) = 2)
               /\ (True(v, Fresh(2)) <=> Count(v, First(Half)) = 1))
    BY <1>1, <1>2, <2>1, CalledCountTwo
  <2> QED  BY <2>2 DEF FrontCount
<1>4. Good(<<d>>, nvar + n) /\ \A v : AllMean(v, <<d>>) <=>
            (BackCount(v) <= 2 /\ (True(v, Fresh(3)) <=> BackCount(v) = 2)
                               /\ (True(v, Fresh(4)) <=> BackCount(v) = 1))
  <2>1. Rest(Half) \in Seq(LitsUpTo(nvar + n)) /\ Len(Rest(Half)) >= 2  BY HalfCounts
  <2>2. Good(<<d>>, nvar + n) /\ \A v : AllMean(v, <<d>>) <=>
              (Count(v, Rest(Half)) <= 2 /\ (True(v, Fresh(3)) <=> Count(v, Rest(Half)) = 2)
               /\ (True(v, Fresh(4)) <=> Count(v, Rest(Half)) = 1))
    BY <1>1, <1>2, <2>1, CalledCountTwo
  <2> QED  BY <2>2 DEF BackCount
<1>5. HalvesToTwo("count_two") = <<c, d>>  BY DEF HalvesToTwo
<1> HIDE DEF c, d
<1>6. /\ Good(<<c, d>>, nvar + n)
      /\ \A v : AllMean(v, <<c, d>>) <=> AllMean(v, <<c>>) /\ AllMean(v, <<d>>)
  BY <1>1, <1>3, <1>4, TwoCalls
<1>7. ASSUME NEW v, AllMean(v, HalvesToTwo("count_two"))
      PROVE  /\ Count(v, In) = 2 * Value(v, Fresh(1)) + Value(v, Fresh(2))
                                + 2 * Value(v, Fresh(3)) + Value(v, Fresh(4))
             /\ ~(True(v, Fresh(1)) /\ True(v, Fresh(2)))
             /\ ~(True(v, Fresh(3)) /\ True(v, Fresh(4)))
  <2>1. /\ Count(v, In) = FrontCount(v) + BackCount(v)
        /\ FrontCount(v) \in Nat /\ BackCount(v) \in Nat
    BY HalfCounts
  <2>2. /\ FrontCount(v) <= 2 /\ (True(v, Fresh(1)) <=> FrontCount(v) = 2)
        /\ (True(v, Fresh(2)) <=> FrontCount(v) = 1)
        /\ BackCount(v) <= 2 /\ (True(v, Fresh(3)) <=> BackCount(v) = 2)
        /\ (True(v, Fresh(4)) <=> BackCount(v) = 1)
    BY <1>3, <1>4, <1>5, <1>6, <1>7
  <2>3. FrontCount(v) = 2 * Value(v, Fresh(1)) + Value(v, Fresh(2))  BY <2>1, <2>2 DEF Value
  <2>4. BackCount(v) = 2 * Value(v, Fresh(3)) + Value(v, Fresh(4))  BY <2>1, <2>2 DEF Value
  <2>5. /\ Value(v, Fresh(1)) \in {0, 1} /\ Value(v, Fresh(2)) \in {0, 1}
        /\ Value(v, Fresh(3)) \in {0, 1} /\ Value(v, Fresh(4)) \in {0, 1}
    BY DEF Value
  <2>6. Count(v, In) = 2 * Value(v, Fresh(1)) + Value(v, Fresh(2))
                        + 2 * Value(v, Fresh(3)) + Value(v, Fresh(4))
    BY <2>1, <2>3, <2>4, <2>5
  <2> QED  BY <2>2, <2>6
<1>8. ASSUME NEW v
      PROVE  AllMean(v, HalvesToTwo("count_two")) <=>
              /\ FrontCount(v) <= 2 /\ (True(v, Fresh(1)) <=> FrontCount(v) = 2)
                                    /\ (True(v, Fresh(2)) <=> FrontCount(v) = 1)
              /\ BackCount(v) <= 2 /\ (True(v, Fresh(3)) <=> BackCount(v) = 2)
                                   /\ (True(v, Fresh(4)) <=> BackCount(v) = 1)
  BY <1>3, <1>4, <1>5, <1>6
<1> QED  BY <1>5, <1>6, <1>7, <1>8

LEMMA HalvesToTwoChosen ==
  ASSUME IInv, todo # <<>>, Len(In) > 4, NEW v \in Total, Count(v, In) <= 2
  PROVE  \E w \in Total : /\ Agree(v, w, nvar) /\ AllMean(w, HalvesToTwo("count_two"))
                          /\ True(w, Fresh(5)) <=> True(w, Fresh(2)) /\ True(w, Fresh(4))
<1>1. nvar \in Nat  BY Setting
<1>2. PICK w \in Total :
        /\ Agree(v, w, nvar)
        /\ (True(w, Fresh(1)) <=> FrontCount(v) = 2) /\ (True(w, Fresh(2)) <=> FrontCount(v) = 1)
        /\ (True(w, Fresh(3)) <=> BackCount(v) = 2) /\ (True(w, Fresh(4)) <=> BackCount(v) = 1)
        /\ True(w, Fresh(5)) <=> FrontCount(v) = 1 /\ BackCount(v) = 1
  <2> DEFINE a == FrontCount(v) = 2
             b == FrontCount(v) = 1
             c == BackCount(v) = 2
             d == BackCount(v) = 1
             e == FrontCount(v) = 1 /\ BackCount(v) = 1
  <2>1. a \in BOOLEAN /\ b \in BOOLEAN /\ c \in BOOLEAN /\ d \in BOOLEAN /\ e \in BOOLEAN
    OBVIOUS
  <2> HIDE DEF a, b, c, d, e
  <2>2. \E w \in Total :
           /\ Agree(v, w, nvar)
           /\ (True(w, Fresh(1)) <=> a) /\ (True(w, Fresh(2)) <=> b) /\ (True(w, Fresh(3)) <=> c)
           /\ (True(w, Fresh(4)) <=> d) /\ (True(w, Fresh(5)) <=> e)
    BY <1>1, <2>1, Extend, ZenonT(30)
  <2> QED  BY <2>2 DEF a, b, c, d, e
<1>3. FrontCount(v) <= 2 /\ BackCount(v) <= 2
  <2>1. 4 \in Nat  OBVIOUS
  <2>2. /\ Count(v, In) = FrontCount(v) + BackCount(v)
        /\ FrontCount(v) \in Nat /\ BackCount(v) \in Nat
    BY <2>1, HalfCounts
  <2> QED  BY <2>2
<1>4. FrontCount(w) = FrontCount(v) /\ BackCount(w) = BackCount(v)  BY <1>2, SameHalves
<1>5. AllMean(w, HalvesToTwo("count_two"))
  <2>1. 4 \in Nat /\ 4 >= 4  OBVIOUS
  <2> QED  BY <1>2, <1>3, <1>4, <2>1, HalvesToTwoMean
<1> QED  BY <1>2, <1>5

LEMMA HalvesUpToTwoMean ==
  ASSUME IInv, todo # <<>>, Len(In) > 4, NEW n \in Nat, n >= 4
  PROVE  /\ Good(HalvesToTwo("count_up_to_two"), nvar + n)
         /\ \A v : AllMean(v, HalvesToTwo("count_up_to_two")) <=>
              /\ True(v, Fresh(1)) <=> FrontCount(v) >= 2
              /\ True(v, Fresh(2)) <=> FrontCount(v) % 2 = 1
              /\ True(v, Fresh(3)) <=> BackCount(v) >= 2
              /\ True(v, Fresh(4)) <=> BackCount(v) % 2 = 1
<1> DEFINE c == GateCall("count_up_to_two", First(Half), <<Fresh(1), Fresh(2)>>)
           d == GateCall("count_up_to_two", Rest(Half), <<Fresh(3), Fresh(4)>>)
<1>1. nvar \in Nat /\ nvar + n \in Nat  BY Setting
<1>2. /\ Fresh(1) \in LitsUpTo(nvar + n) /\ Fresh(2) \in LitsUpTo(nvar + n)
      /\ Fresh(3) \in LitsUpTo(nvar + n) /\ Fresh(4) \in LitsUpTo(nvar + n)
  BY <1>1, FreshLits
<1>3. Good(<<c>>, nvar + n) /\ \A v : AllMean(v, <<c>>) <=>
            ((True(v, Fresh(1)) <=> FrontCount(v) >= 2)
             /\ (True(v, Fresh(2)) <=> FrontCount(v) % 2 = 1))
  <2>1. First(Half) \in Seq(LitsUpTo(nvar + n)) /\ Len(First(Half)) >= 2  BY HalfCounts
  <2>2. Good(<<c>>, nvar + n) /\ \A v : AllMean(v, <<c>>) <=>
              ((True(v, Fresh(1)) <=> Count(v, First(Half)) >= 2)
               /\ (True(v, Fresh(2)) <=> Count(v, First(Half)) % 2 = 1))
    BY <1>1, <1>2, <2>1, CalledCountUpToTwo
  <2> QED  BY <2>2 DEF FrontCount
<1>4. Good(<<d>>, nvar + n) /\ \A v : AllMean(v, <<d>>) <=>
            ((True(v, Fresh(3)) <=> BackCount(v) >= 2)
             /\ (True(v, Fresh(4)) <=> BackCount(v) % 2 = 1))
  <2>1. Rest(Half) \in Seq(LitsUpTo(nvar + n)) /\ Len(Rest(Half)) >= 2  BY HalfCounts
  <2>2. Good(<<d>>, nvar + n) /\ \A v : AllMean(v, <<d>>) <=>
              ((True(v, Fresh(3)) <=> Count(v, Rest(Half)) >= 2)
               /\ (True(v, Fresh(4)) <=> Count(v, Rest(Half)) % 2 = 1))
    BY <1>1, <1>2, <2>1, CalledCountUpToTwo
  <2> QED  BY <2>2 DEF BackCount
<1>5. HalvesToTwo("count_up_to_two") = <<c, d>>  BY DEF HalvesToTwo
<1> HIDE DEF c, d
<1>6. /\ Good(<<c, d>>, nvar + n)
      /\ \A v : AllMean(v, <<c, d>>) <=> AllMean(v, <<c>>) /\ AllMean(v, <<d>>)
  BY <1>1, <1>3, <1>4, TwoCalls
<1> QED  BY <1>3, <1>4, <1>5, <1>6

LEMMA HalvesUpToTwoChosen ==
  ASSUME IInv, todo # <<>>, Len(In) > 4, NEW v \in Total
  PROVE  \E w \in Total : /\ Agree(v, w, nvar) /\ AllMean(w, HalvesToTwo("count_up_to_two"))
                          /\ True(w, Fresh(5)) <=> True(w, Fresh(2)) /\ True(w, Fresh(4))
<1>1. nvar \in Nat  BY Setting
<1>2. PICK w \in Total :
        /\ Agree(v, w, nvar)
        /\ True(w, Fresh(1)) <=> FrontCount(v) >= 2
        /\ True(w, Fresh(2)) <=> FrontCount(v) % 2 = 1
        /\ True(w, Fresh(3)) <=> BackCount(v) >= 2
        /\ True(w, Fresh(4)) <=> BackCount(v) % 2 = 1
        /\ True(w, Fresh(5)) <=> FrontCount(v) % 2 = 1 /\ BackCount(v) % 2 = 1
  BY <1>1, Extend
<1>3. FrontCount(w) = FrontCount(v) /\ BackCount(w) = BackCount(v)  BY <1>2, SameHalves
<1>4. AllMean(w, HalvesToTwo("count_up_to_two"))
  <2>1. 4 \in Nat /\ 4 >= 4  OBVIOUS
  <2> QED  BY <1>2, <1>3, <2>1, HalvesUpToTwoMean
<1> QED  BY <1>2, <1>4

(* Half adders of two literals.                                            *)
LEMMA CalledHalfAdderOf ==
  ASSUME NEW n \in Nat, NEW a \in LitsUpTo(n), NEW b \in LitsUpTo(n),
         NEW o \in LitsUpTo(n), NEW s \in LitsUpTo(n)
  PROVE  /\ Good(<<GateCall("half_adder", <<a, b>>, <<o, s>>)>>, n)
         /\ \A v : AllMean(v, <<GateCall("half_adder", <<a, b>>, <<o, s>>)>>) <=>
              (True(v, o) <=> True(v, a) /\ True(v, b))
               /\ (True(v, s) <=> (True(v, a) <=> ~True(v, b)))
<1>1. <<a, b>> \in Seq(LitsUpTo(n)) /\ Len(<<a, b>>) = 2  BY TupleLits
<1>2. a \in Literal /\ b \in Literal  BY LitsNegate
<1>3. \A v : Count(v, <<a, b>>) = Value(v, a) + Value(v, b)  BY <1>2, CountTwoLiterals
<1>4. \A v : (Count(v, <<a, b>>) >= 2 <=> True(v, a) /\ True(v, b))
             /\ (Count(v, <<a, b>>) % 2 = 1 <=> (True(v, a) <=> ~True(v, b)))
  BY <1>3 DEF Value
<1>5. /\ Good(<<GateCall("half_adder", <<a, b>>, <<o, s>>)>>, n)
      /\ \A v : AllMean(v, <<GateCall("half_adder", <<a, b>>, <<o, s>>)>>) <=>
           (True(v, o) <=> Count(v, <<a, b>>) >= 2) /\ (True(v, s) <=> Count(v, <<a, b>>) % 2 = 1)
  BY <1>1, CalledHalfAdder
<1> QED  BY <1>4, <1>5

(* Gates of two and three literals.                                        *)
LEMMA CalledOrOfTwo ==
  ASSUME NEW n \in Nat, NEW a \in LitsUpTo(n), NEW b \in LitsUpTo(n),
         NEW o \in LitsUpTo(n)
  PROVE  /\ Good(<<GateCall("or", <<a, b>>, <<o>>)>>, n)
         /\ \A v : AllMean(v, <<GateCall("or", <<a, b>>, <<o>>)>>) <=>
                     (True(v, o) <=> True(v, a) \/ True(v, b))
<1>1. <<a, b>> \in Seq(LitsUpTo(n))  BY TupleLits
<1>2. a \in Literal /\ b \in Literal  BY LitsNegate
<1>3. \A v : Count(v, <<a, b>>) = Value(v, a) + Value(v, b)  BY <1>2, CountTwoLiterals
<1>4. \A v : Count(v, <<a, b>>) >= 1 <=> True(v, a) \/ True(v, b)  BY <1>3 DEF Value
<1>5. /\ Good(<<GateCall("or", <<a, b>>, <<o>>)>>, n)
      /\ \A v : AllMean(v, <<GateCall("or", <<a, b>>, <<o>>)>>) <=>
                  (True(v, o) <=> Count(v, <<a, b>>) >= 1)
  BY <1>1, CalledOr
<1> QED  BY <1>4, <1>5

LEMMA CalledOrOfThree ==
  ASSUME NEW n \in Nat, NEW a \in LitsUpTo(n), NEW b \in LitsUpTo(n), NEW c \in LitsUpTo(n),
         NEW o \in LitsUpTo(n)
  PROVE  /\ Good(<<GateCall("or", <<a, b, c>>, <<o>>)>>, n)
         /\ \A v : AllMean(v, <<GateCall("or", <<a, b, c>>, <<o>>)>>) <=>
                     (True(v, o) <=> True(v, a) \/ True(v, b) \/ True(v, c))
<1>1. <<a, b, c>> \in Seq(LitsUpTo(n))  BY TupleLits
<1>2. a \in Literal /\ b \in Literal /\ c \in Literal  BY LitsNegate
<1>3. \A v : Count(v, <<a, b, c>>) = Value(v, a) + Value(v, b) + Value(v, c)
  BY <1>2, CountThreeLiterals
<1>4. \A v : Count(v, <<a, b, c>>) >= 1 <=> True(v, a) \/ True(v, b) \/ True(v, c)
  BY <1>3 DEF Value
<1>5. /\ Good(<<GateCall("or", <<a, b, c>>, <<o>>)>>, n)
      /\ \A v : AllMean(v, <<GateCall("or", <<a, b, c>>, <<o>>)>>) <=>
                  (True(v, o) <=> Count(v, <<a, b, c>>) >= 1)
  BY <1>1, CalledOr
<1> QED  BY <1>4, <1>5

LEMMA CalledXorOf ==
  ASSUME NEW n \in Nat, NEW a \in LitsUpTo(n), NEW b \in LitsUpTo(n), NEW c \in LitsUpTo(n),
         NEW o \in LitsUpTo(n)
  PROVE  /\ Good(<<GateCall("xor", <<a, b, c>>, <<o>>)>>, n)
         /\ \A v : AllMean(v, <<GateCall("xor", <<a, b, c>>, <<o>>)>>) <=>
                     (True(v, o) <=> (Value(v, a) + Value(v, b) + Value(v, c)) % 2 = 1)
<1>1. <<a, b, c>> \in Seq(LitsUpTo(n)) /\ Len(<<a, b, c>>) >= 2  BY TupleLits
<1>2. a \in Literal /\ b \in Literal /\ c \in Literal  BY LitsNegate
<1>3. \A v : Count(v, <<a, b, c>>) = Value(v, a) + Value(v, b) + Value(v, c)
  BY <1>2, CountThreeLiterals
<1>4. /\ Good(<<GateCall("xor", <<a, b, c>>, <<o>>)>>, n)
      /\ \A v : AllMean(v, <<GateCall("xor", <<a, b, c>>, <<o>>)>>) <=>
                  (True(v, o) <=> Count(v, <<a, b, c>>) % 2 = 1)
  BY <1>1, CalledXor
<1> QED  BY <1>3, <1>4

-----------------------------------------------------------------------------
(* The sums of the numbers the halves deliver.                             *)

LEMMA Sizes ==
  \A n \in Nat :
    /\ n <= 1 => ~(n \in 2 .. 4) /\ ~(n > 4)
    /\ n \in 2 .. 4 => ~(n <= 1) /\ ~(n > 4)
    /\ n < 2 => n # 2 /\ ~(n \in 3 .. 4) /\ ~(n > 4) /\ ~(n \in 2 .. 4)
    /\ n <= 2 => ~(n \in 3 .. 4) /\ ~(n > 4)
    /\ n = 2 => ~(n < 2) /\ n # 3 /\ n # 4
    /\ n \in 3 .. 4 => ~(n <= 2) /\ ~(n < 2) /\ n # 2 /\ ~(n > 4)
    /\ n > 4 => ~(n <= 2) /\ ~(n < 2) /\ n # 2 /\ n # 3 /\ n # 4 /\ ~(n \in 3 .. 4) /\ ~(n \in 2 .. 4)
  OBVIOUS

LEMMA ForbidBoth ==
  ASSUME NEW n \in Nat, NEW a \in LitsUpTo(n), NEW b \in LitsUpTo(n)
  PROVE  /\ {<<-a, -b>>} \in SUBSET Seq(LitsUpTo(n))
         /\ {<<a, b>>, <<-a, -b>>} \in SUBSET Seq(LitsUpTo(n))
         /\ \A v \in Total : AllSatisfied(v, {<<-a, -b>>}) <=> ~(True(v, a) /\ True(v, b))
         /\ \A v \in Total : AllSatisfied(v, {<<a, b>>, <<-a, -b>>}) <=>
                                 (True(v, a) <=> ~True(v, b))
<1>1. /\ -a \in LitsUpTo(n) /\ a \in Literal /\ -b \in LitsUpTo(n) /\ b \in Literal
  BY LitsNegate
<1>2. <<a, b>> \in Seq(LitsUpTo(n)) /\ <<-a, -b>> \in Seq(LitsUpTo(n))  BY <1>1, TupleLits
<1>3. \A v \in Total : Satisfied(v, <<-a, -b>>) <=> ~(True(v, a) /\ True(v, b))
  BY <1>1, SatisfiedShort, TrueNegation
<1>4. \A v : Satisfied(v, <<a, b>>) <=> True(v, a) \/ True(v, b)  BY SatisfiedShort
<1> QED  BY <1>2, <1>3, <1>4 DEF AllSatisfied

LEMMA SumAtMostTwoMeans ==
  ASSUME NEW n \in Nat, NEW h1 \in LitsUpTo(n), NEW l1 \in LitsUpTo(n),
         NEW h2 \in LitsUpTo(n), NEW l2 \in LitsUpTo(n)
  PROVE  /\ SumAtMostTwo(h1, l1, h2, l2) \in SUBSET Seq(LitsUpTo(n))
         /\ \A v \in Total : AllSatisfied(v, SumAtMostTwo(h1, l1, h2, l2)) <=>
              ~(True(v, l1) /\ True(v, h2)) /\ ~(True(v, h1) /\ True(v, l2)) /\ ~(True(v, h1) /\ True(v, h2))
<1>1. /\ -h1 \in LitsUpTo(n) /\ -l1 \in LitsUpTo(n) /\ -h2 \in LitsUpTo(n) /\ -l2 \in LitsUpTo(n)
      /\ h1 \in Literal /\ l1 \in Literal /\ h2 \in Literal /\ l2 \in Literal
  BY LitsNegate
<1>2. /\ <<-l1, -h2>> \in Seq(LitsUpTo(n)) /\ <<-h1, -l2>> \in Seq(LitsUpTo(n))
      /\ <<-h1, -h2>> \in Seq(LitsUpTo(n))
  BY <1>1, TupleLits
<1>3. ASSUME NEW v \in Total
      PROVE  AllSatisfied(v, SumAtMostTwo(h1, l1, h2, l2)) <=>
               ~(True(v, l1) /\ True(v, h2)) /\ ~(True(v, h1) /\ True(v, l2)) /\ ~(True(v, h1) /\ True(v, h2))
  <2>1. AllSatisfied(v, SumAtMostTwo(h1, l1, h2, l2)) <=>
          Satisfied(v, <<-l1, -h2>>) /\ Satisfied(v, <<-h1, -l2>>) /\ Satisfied(v, <<-h1, -h2>>)
    BY DEF AllSatisfied, SumAtMostTwo
  <2>2. \A a \in Literal : True(v, -a) <=> ~True(v, a)  BY TrueNegation
  <2>3. \A a, b \in Literal : Satisfied(v, <<-a, -b>>) <=> ~(True(v, a) /\ True(v, b))
    BY <2>2, SatisfiedShort
  <2> QED  BY <1>1, <2>1, <2>3
<1> QED  BY <1>2, <1>3 DEF SumAtMostTwo

LEMMA OneOfFour ==
  ASSUME NEW v, NEW a, NEW b, NEW c, NEW d
  PROVE  Satisfied(v, <<a, b, c, d>>) <=> True(v, a) \/ True(v, b) \/ True(v, c) \/ True(v, d)
<1>1. True(v, a) \/ True(v, b) \/ True(v, c) \/ True(v, d) => Satisfied(v, <<a, b, c, d>>)
  BY FourSatisfy
<1> QED  BY <1>1, SatisfiedFour

LEMMA SumIsTwoMeans ==
  ASSUME NEW n \in Nat, NEW h1 \in LitsUpTo(n), NEW l1 \in LitsUpTo(n),
         NEW h2 \in LitsUpTo(n), NEW l2 \in LitsUpTo(n)
  PROVE  /\ SumIsTwo(h1, l1, h2, l2) \in SUBSET Seq(LitsUpTo(n))
         /\ \A v \in Total :
              ~(True(v, h1) /\ True(v, l1)) /\ ~(True(v, h2) /\ True(v, l2)) =>
                (AllSatisfied(v, SumIsTwo(h1, l1, h2, l2)) <=>
                 2 * Value(v, h1) + Value(v, l1) + 2 * Value(v, h2) + Value(v, l2) = 2)
<1>1. /\ -h1 \in LitsUpTo(n) /\ -l1 \in LitsUpTo(n) /\ -h2 \in LitsUpTo(n) /\ -l2 \in LitsUpTo(n)
      /\ h1 \in Literal /\ l1 \in Literal /\ h2 \in Literal /\ l2 \in Literal
  BY LitsNegate
<1>2. SumIsTwo(h1, l1, h2, l2) \in SUBSET Seq(LitsUpTo(n))
  <2>1. \A p, q, r, s \in LitsUpTo(n) : <<p, q, r, s>> \in Seq(LitsUpTo(n))  BY TupleLits
  <2> QED  BY <1>1, <2>1 DEF SumIsTwo
<1>3. ASSUME NEW v \in Total,
             ~(True(v, h1) /\ True(v, l1)), ~(True(v, h2) /\ True(v, l2))
      PROVE  AllSatisfied(v, SumIsTwo(h1, l1, h2, l2)) <=>
             2 * Value(v, h1) + Value(v, l1) + 2 * Value(v, h2) + Value(v, l2) = 2
  <2> DEFINE H1 == True(v, h1)
             L1 == True(v, l1)
             H2 == True(v, h2)
             L2 == True(v, l2)
             A == AllSatisfied(v, SumIsTwo(h1, l1, h2, l2))
  <2>1. A <=>
        /\ Satisfied(v, <<h1, l1, h2, l2>>) /\ Satisfied(v, <<h1, l1, h2, -l2>>)
        /\ Satisfied(v, <<h1, -l1, h2, l2>>) /\ Satisfied(v, <<h1, -l1, -h2, l2>>)
        /\ Satisfied(v, <<-h1, l1, h2, -l2>>) /\ Satisfied(v, <<-h1, l1, -h2, l2>>)
    BY DEF AllSatisfied, SumIsTwo
  <2>2. /\ (True(v, -h1) <=> ~H1) /\ (True(v, -l1) <=> ~L1)
        /\ (True(v, -h2) <=> ~H2) /\ (True(v, -l2) <=> ~L2)
    BY <1>1, TrueNegation
  <2>3. \A a, b, c, d : Satisfied(v, <<a, b, c, d>>) <=>
                          True(v, a) \/ True(v, b) \/ True(v, c) \/ True(v, d)
    BY OneOfFour
  <2>4. A <=>
        /\ H1 \/ L1 \/ H2 \/ L2
        /\ H1 \/ L1 \/ H2 \/ True(v, -l2)
        /\ H1 \/ True(v, -l1) \/ H2 \/ L2
        /\ H1 \/ True(v, -l1) \/ True(v, -h2) \/ L2
        /\ True(v, -h1) \/ L1 \/ H2 \/ True(v, -l2)
        /\ True(v, -h1) \/ L1 \/ True(v, -h2) \/ L2
    BY <2>1, <2>3
  <2>5. ~(H1 /\ L1) /\ ~(H2 /\ L2)  BY <1>3
  <2>6. /\ Value(v, h1) = IF H1 THEN 1 ELSE 0
        /\ Value(v, l1) = IF L1 THEN 1 ELSE 0
        /\ Value(v, h2) = IF H2 THEN 1 ELSE 0
        /\ Value(v, l2) = IF L2 THEN 1 ELSE 0
    BY DEF Value
  <2> HIDE DEF A, H1, L1, H2, L2
  <2>7. A <=>
        \/ H1 /\ ~L1 /\ ~H2 /\ ~L2
        \/ ~H1 /\ L1 /\ ~H2 /\ L2
        \/ ~H1 /\ ~L1 /\ H2 /\ ~L2
    BY <2>2, <2>4, <2>5
  <2>8. A <=> 2 * Value(v, h1) + Value(v, l1) + 2 * Value(v, h2) + Value(v, l2) = 2
    BY <2>5, <2>6, <2>7
  <2> QED  BY <2>8 DEF A
<1> QED  BY <1>2, <1>3

-----------------------------------------------------------------------------
(* The counting functions.                                                 *)

LEMMA Associative ==
  ASSUME NEW n \in Nat, NEW S, NEW T, NEW U, Good(S, n), Good(T, n), Good(U, n)
  PROVE  (S \o T) \o U = S \o (T \o U)
<1>1. S \in Seq(CallsUpTo(n)) /\ T \in Seq(CallsUpTo(n)) /\ U \in Seq(CallsUpTo(n))
  BY DEF Good
<1> HIDE DEF CallsUpTo
<1> QED  BY <1>1

LEMMA ExactOneArgsKeeps ==
  ASSUME IInv, ExactOneArgs
  PROVE  IInv'
<1> DEFINE c == Call("at_most_one_args", In)
           d == Call("at_least_one", In)
<1>1. todo # <<>> /\ Head(todo).op = "exact_one_args" /\ Become(0, <<c, d>>)
  BY DEF ExactOneArgs, On
<1>2. \A v : Means(v, Head(todo)) <=> Count(v, In) = 1
  BY <1>1, Meanings DEF In, Out
<1>3. nvar \in Nat /\ In \in Seq(LitsUpTo(nvar))  BY <1>1, Running
<1>4. Good(<<c>>, nvar) /\ \A v : AllMean(v, <<c>>) <=> Count(v, In) <= 1
  BY <1>3, PlainCall, CalledAtMostOneArgs
<1>5. Good(<<d>>, nvar) /\ \A v : AllMean(v, <<d>>) <=> Count(v, In) >= 1
  BY <1>3, PlainCall, CalledAtLeastOne
<1> HIDE DEF c, d
<1>6. /\ Good(<<c, d>>, nvar)
      /\ \A v : AllMean(v, <<c, d>>) <=> AllMean(v, <<c>>) /\ AllMean(v, <<d>>)
  BY <1>3, <1>4, <1>5, TwoCalls
<1>7. \A v : Count(v, In) \in Nat  BY <1>1, Setting
<1>8. ASSUME NEW v PROVE AllMean(v, <<c, d>>) <=> Means(v, Head(todo))
  <2>1. AllMean(v, <<c, d>>) <=> Count(v, In) <= 1 /\ Count(v, In) >= 1  BY <1>4, <1>5, <1>6
  <2>2. Count(v, In) <= 1 /\ Count(v, In) >= 1 <=> Count(v, In) = 1
    <3>1. Count(v, In) \in Nat  BY <1>7
    <3> QED  BY <3>1
  <2> QED  BY <1>2, <2>1, <2>2
<1> QED  BY <1>1, <1>6, <1>8, CallKeeps

LEMMA ExactTwoArgsKeeps ==
  ASSUME IInv, ExactTwoArgs
  PROVE  IInv'
<1> DEFINE c == Call("at_most_two_args", In)
           d == Call("at_least_two_args", In)
<1>1. todo # <<>> /\ Head(todo).op = "exact_two_args" /\ Become(0, <<c, d>>)
  BY DEF ExactTwoArgs, On
<1>2. \A v : Means(v, Head(todo)) <=> Count(v, In) = 2
  BY <1>1, Meanings DEF In, Out
<1>3. Len(In) >= 2
  <2>1. Shape(Head(todo)) /\ Head(todo).in = In /\ Head(todo).out = Out /\ Len(In) \in Nat
    BY <1>1, Setting
  <2> QED  BY <1>1, <2>1 DEF Shape, VectorNames
<1>4. nvar \in Nat /\ In \in Seq(LitsUpTo(nvar))  BY <1>1, Running
<1>5. Good(<<c>>, nvar) /\ \A v : AllMean(v, <<c>>) <=> Count(v, In) <= 2
  BY <1>4, PlainCall, CalledAtMostTwoArgs
<1>6. Good(<<d>>, nvar) /\ \A v : AllMean(v, <<d>>) <=> Count(v, In) >= 2
  BY <1>3, <1>4, PlainCall, CalledAtLeastTwoArgs
<1> HIDE DEF c, d
<1>7. /\ Good(<<c, d>>, nvar)
      /\ \A v : AllMean(v, <<c, d>>) <=> AllMean(v, <<c>>) /\ AllMean(v, <<d>>)
  BY <1>4, <1>5, <1>6, TwoCalls
<1>8. \A v : Count(v, In) \in Nat  BY <1>1, Setting
<1>9. ASSUME NEW v PROVE AllMean(v, <<c, d>>) <=> Means(v, Head(todo))
  <2>1. AllMean(v, <<c, d>>) <=> Count(v, In) <= 2 /\ Count(v, In) >= 2  BY <1>5, <1>6, <1>7
  <2>2. Count(v, In) <= 2 /\ Count(v, In) >= 2 <=> Count(v, In) = 2
    <3>1. Count(v, In) \in Nat  BY <1>8
    <3> QED  BY <3>1
  <2> QED  BY <1>2, <2>1, <2>2
<1> QED  BY <1>1, <1>7, <1>9, CallKeeps

LEMMA AtMostOneKeeps ==
  ASSUME IInv, AtMostOne
  PROVE  IInv'
<1>1. todo # <<>> /\ Head(todo).op = "at_most_one"  BY DEF AtMostOne, On
<1>2. \A v : Means(v, Head(todo)) <=> Count(v, In) <= 1
  BY <1>1, Meanings DEF In, Out
<1>3. /\ nvar \in Nat /\ In \in Seq(LitsUpTo(nvar)) /\ Len(In) \in Nat
      /\ \A v : Count(v, In) \in 0 .. Len(In)
  BY <1>1, Running, Setting
<1>4. CASE Len(In) <= 1
  <2>1. Become(0, <<>>)
    <3>1. ~(Len(In) \in 2 .. 4) /\ ~(Len(In) > 4)  BY <1>3, <1>4, Sizes
    <3> QED  BY <1>4, <3>1 DEF AtMostOne
  <2>2. \A v : Means(v, Head(todo))  BY <1>2, <1>3, <1>4
  <2>3. \A v : AllMean(v, <<>>) <=> Means(v, Head(todo))  BY <1>3, <2>2, Nothing
  <2> QED  BY <1>1, <1>3, <2>1, <2>3, Nothing, CallKeeps
<1>5. CASE Len(In) \in 2 .. 4
  <2>1. Become(0, <<Call("at_most_one_args", In)>>)
    <3>1. ~(Len(In) <= 1) /\ ~(Len(In) > 4)  BY <1>3, <1>5, Sizes
    <3> QED  BY <1>5, <3>1 DEF AtMostOne
  <2>2. /\ Good(<<Call("at_most_one_args", In)>>, nvar)
        /\ \A v : AllMean(v, <<Call("at_most_one_args", In)>>) <=> Count(v, In) <= 1
    BY <1>3, PlainCall, CalledAtMostOneArgs
  <2>3. \A v : AllMean(v, <<Call("at_most_one_args", In)>>) <=> Means(v, Head(todo))
    BY <1>2, <2>2
  <2> QED  BY <1>1, <2>1, <2>2, <2>3, CallKeeps
<1>6. CASE Len(In) > 4
  <2> DEFINE S == {<<-Fresh(1), -Fresh(2)>>}
  <2>1. Become(2, HalvesToOne \o Batch(S))  BY <1>3, <1>6 DEF AtMostOne
  <2>2. /\ Good(HalvesToOne, nvar + 2)
        /\ \A v : AllMean(v, HalvesToOne) => Count(v, In) = Value(v, Fresh(1)) + Value(v, Fresh(2))
    BY <1>1, <1>6, HalvesToOneMean
  <2>3. nvar + 2 \in Nat /\ Fresh(1) \in LitsUpTo(nvar + 2) /\ Fresh(2) \in LitsUpTo(nvar + 2)
    BY <1>3, FreshLits
  <2>4. /\ S \in SUBSET Seq(LitsUpTo(nvar + 2))
        /\ \A v \in Total : AllSatisfied(v, S) <=> ~(True(v, Fresh(1)) /\ True(v, Fresh(2)))
    BY <2>3, ForbidBoth
  <2> HIDE DEF S
  <2>5. Good(Batch(S), nvar + 2) /\ \A v : AllMean(v, Batch(S)) <=> AllSatisfied(v, S)
    BY <2>3, <2>4, BatchMeans
  <2>6. ASSUME NEW v \in Total, Means(v, Head(todo)) PROVE Extends(v, HalvesToOne)
    <3>1. Count(v, In) <= 1  BY <1>2, <2>6
    <3> QED  BY <1>1, <1>6, <3>1, HalvesToOneChosen
  <2>7. ASSUME NEW v \in Total, AllMean(v, HalvesToOne)
        PROVE  AllMean(v, Batch(S)) <=> Means(v, Head(todo))
    <3>1. AllMean(v, Batch(S)) <=> ~(True(v, Fresh(1)) /\ True(v, Fresh(2)))  BY <2>4, <2>5
    <3>2. Count(v, In) = Value(v, Fresh(1)) + Value(v, Fresh(2))  BY <2>2, <2>7
    <3>3. Count(v, In) <= 1 <=> ~(True(v, Fresh(1)) /\ True(v, Fresh(2)))
      BY <3>2 DEF Value
    <3> QED  BY <1>2, <3>1, <3>3
  <2> QED  BY <1>1, <2>1, <2>2, <2>3, <2>5, <2>6, <2>7, FirstKeeps
<1>7. \A n \in Nat : n <= 1 \/ n \in 2 .. 4 \/ n > 4  OBVIOUS
<1> QED  BY <1>3, <1>4, <1>5, <1>6, <1>7

LEMMA ExactOneKeeps ==
  ASSUME IInv, ExactOne
  PROVE  IInv'
<1>1. todo # <<>> /\ Head(todo).op = "exact_one"  BY DEF ExactOne, On
<1>2. \A v : Means(v, Head(todo)) <=> Count(v, In) = 1
  BY <1>1, Meanings DEF In, Out
<1>3. /\ nvar \in Nat /\ In \in Seq(LitsUpTo(nvar)) /\ Len(In) \in Nat
      /\ \A v : Count(v, In) \in 0 .. Len(In)
  BY <1>1, Running, Setting
<1>4. CASE Len(In) <= 1
  <2>1. Become(0, Batch({In}))
    <3>1. ~(Len(In) \in 2 .. 4) /\ ~(Len(In) > 4)  BY <1>3, <1>4, Sizes
    <3> QED  BY <1>4, <3>1 DEF ExactOne
  <2>2. \A v : Count(v, In) >= 1 <=> Means(v, Head(todo))
    <3> SUFFICES ASSUME NEW v PROVE Count(v, In) >= 1 <=> Count(v, In) = 1  BY <1>2
    <3>1. Count(v, In) \in 0 .. Len(In)  BY <1>3
    <3> QED  BY <1>3, <1>4, <3>1
  <2> QED  BY <1>1, <2>1, <2>2, OneClause, BatchKeeps
<1>5. CASE Len(In) \in 2 .. 4
  <2>1. Become(0, <<Call("exact_one_args", In)>>)
    <3>1. ~(Len(In) <= 1) /\ ~(Len(In) > 4)  BY <1>3, <1>5, Sizes
    <3> QED  BY <1>5, <3>1 DEF ExactOne
  <2>2. /\ Good(<<Call("exact_one_args", In)>>, nvar)
        /\ \A v : AllMean(v, <<Call("exact_one_args", In)>>) <=> Count(v, In) = 1
    BY <1>3, PlainCall, CalledExactOneArgs
  <2>3. \A v : AllMean(v, <<Call("exact_one_args", In)>>) <=> Means(v, Head(todo))
    BY <1>2, <2>2
  <2> QED  BY <1>1, <2>1, <2>2, <2>3, CallKeeps
<1>6. CASE Len(In) > 4
  <2> DEFINE S == {<<Fresh(1), Fresh(2)>>, <<-Fresh(1), -Fresh(2)>>}
  <2>1. Become(2, HalvesToOne \o Batch(S))  BY <1>3, <1>6 DEF ExactOne
  <2>2. /\ Good(HalvesToOne, nvar + 2)
        /\ \A v : AllMean(v, HalvesToOne) => Count(v, In) = Value(v, Fresh(1)) + Value(v, Fresh(2))
    BY <1>1, <1>6, HalvesToOneMean
  <2>3. nvar + 2 \in Nat /\ Fresh(1) \in LitsUpTo(nvar + 2) /\ Fresh(2) \in LitsUpTo(nvar + 2)
    BY <1>3, FreshLits
  <2>4. /\ S \in SUBSET Seq(LitsUpTo(nvar + 2))
        /\ \A v \in Total : AllSatisfied(v, S) <=> (True(v, Fresh(1)) <=> ~True(v, Fresh(2)))
    <3>1. S \in SUBSET Seq(LitsUpTo(nvar + 2))  BY <2>3, ForbidBoth
    <3>2. ASSUME NEW v \in Total
          PROVE  AllSatisfied(v, S) <=> (True(v, Fresh(1)) <=> ~True(v, Fresh(2)))
      <4> DEFINE n == nvar + 2
                 a == Fresh(1)
                 b == Fresh(2)
      <4>1. n \in Nat /\ a \in LitsUpTo(n) /\ b \in LitsUpTo(n)  BY <2>3
      <4>2. AllSatisfied(v, {<<a, b>>, <<-a, -b>>}) <=> (True(v, a) <=> ~True(v, b))
        <5> HIDE DEF n, a, b
        <5> QED  BY <4>1, ForbidBoth
      <4> QED  BY <4>2
    <3> QED  BY <3>1, <3>2
  <2> HIDE DEF S
  <2>5. Good(Batch(S), nvar + 2) /\ \A v : AllMean(v, Batch(S)) <=> AllSatisfied(v, S)
    BY <2>3, <2>4, BatchMeans
  <2>6. ASSUME NEW v \in Total, Means(v, Head(todo)) PROVE Extends(v, HalvesToOne)
    <3>1. Count(v, In) <= 1  BY <1>2, <2>6
    <3> QED  BY <1>1, <1>6, <3>1, HalvesToOneChosen
  <2>7. ASSUME NEW v \in Total, AllMean(v, HalvesToOne)
        PROVE  AllMean(v, Batch(S)) <=> Means(v, Head(todo))
    <3>1. AllMean(v, Batch(S)) <=> (True(v, Fresh(1)) <=> ~True(v, Fresh(2)))  BY <2>4, <2>5
    <3>2. Count(v, In) = Value(v, Fresh(1)) + Value(v, Fresh(2))  BY <2>2, <2>7
    <3>3. Count(v, In) = 1 <=> (True(v, Fresh(1)) <=> ~True(v, Fresh(2)))
      BY <3>2 DEF Value
    <3> QED  BY <1>2, <3>1, <3>3
  <2> QED  BY <1>1, <2>1, <2>2, <2>3, <2>5, <2>6, <2>7, FirstKeeps
<1>7. \A n \in Nat : n <= 1 \/ n \in 2 .. 4 \/ n > 4  OBVIOUS
<1> QED  BY <1>3, <1>4, <1>5, <1>6, <1>7

LEMMA CountOneKeeps ==
  ASSUME IInv, CountOne
  PROVE  IInv'
<1>1. todo # <<>> /\ Head(todo).op = "count_one"  BY DEF CountOne, On
<1>2. \A v : Means(v, Head(todo)) <=> (Count(v, In) <= 1 /\ (True(v, Out[1]) <=> Count(v, In) = 1))
  BY <1>1, Meanings DEF In, Out
<1>3. Len(In) >= 2 /\ Len(Out) = 1
  <2>1. Shape(Head(todo)) /\ Head(todo).in = In /\ Head(todo).out = Out /\ Len(In) \in Nat
    BY <1>1, Setting
  <2> QED  BY <1>1, <2>1 DEF Shape, VectorNames
<1>4. /\ nvar \in Nat /\ In \in Seq(LitsUpTo(nvar)) /\ Len(In) \in Nat
      /\ \A v : Count(v, In) \in Nat
  BY <1>1, Running, Setting
<1>5. Out = <<Out[1]>> /\ Out[1] \in LitsUpTo(nvar)  BY <1>1, <1>3, Running, ShortSequences
<1>6. CASE Len(In) \in 2 .. 4
  <2> DEFINE c == Call("at_most_one_args", In)
             d == GateCall("or", In, <<Out[1]>>)
  <2>1. Become(0, <<c, d>>)
    <3>1. ~(Len(In) > 4)  BY <1>4, <1>6, Sizes
    <3> QED  BY <1>5, <1>6, <3>1 DEF CountOne
  <2>2. Good(<<c>>, nvar) /\ \A v : AllMean(v, <<c>>) <=> Count(v, In) <= 1
    BY <1>4, PlainCall, CalledAtMostOneArgs
  <2>3. Good(<<d>>, nvar) /\ \A v : AllMean(v, <<d>>) <=> (True(v, Out[1]) <=> Count(v, In) >= 1)
    BY <1>4, <1>5, CalledOr
  <2> HIDE DEF c, d
  <2>4. /\ Good(<<c, d>>, nvar)
        /\ \A v : AllMean(v, <<c, d>>) <=> AllMean(v, <<c>>) /\ AllMean(v, <<d>>)
    BY <1>4, <2>2, <2>3, TwoCalls
  <2>5. ASSUME NEW v PROVE AllMean(v, <<c, d>>) <=> Means(v, Head(todo))
    <3>1. AllMean(v, <<c, d>>) <=> Count(v, In) <= 1 /\ (True(v, Out[1]) <=> Count(v, In) >= 1)
      BY <2>2, <2>3, <2>4
    <3>2. Count(v, In) <= 1 => (Count(v, In) >= 1 <=> Count(v, In) = 1)
      <4>1. Count(v, In) \in Nat  BY <1>4
      <4> QED  BY <4>1
    <3> QED  BY <1>2, <3>1, <3>2
  <2> QED  BY <1>1, <2>1, <2>4, <2>5, CallKeeps
<1>7. CASE Len(In) > 4
  <2> DEFINE S == {<<-Fresh(1), -Fresh(2)>>}
             d == <<GateCall("or", <<Fresh(1), Fresh(2)>>, <<Out[1]>>)>>
             T == Batch(S) \o d
  <2>1. Become(2, (HalvesToOne \o Batch(S)) \o d)  BY <1>4, <1>5, <1>7 DEF CountOne
  <2>2. /\ Good(HalvesToOne, nvar + 2)
        /\ \A v : AllMean(v, HalvesToOne) => Count(v, In) = Value(v, Fresh(1)) + Value(v, Fresh(2))
    BY <1>1, <1>7, HalvesToOneMean
  <2>3. nvar + 2 \in Nat /\ Fresh(1) \in LitsUpTo(nvar + 2) /\ Fresh(2) \in LitsUpTo(nvar + 2)
    BY <1>4, FreshLits
  <2>4. Out[1] \in LitsUpTo(nvar + 2)  BY <1>1, <1>3, OneOutput
  <2>5. /\ S \in SUBSET Seq(LitsUpTo(nvar + 2))
        /\ \A v \in Total : AllSatisfied(v, S) <=> ~(True(v, Fresh(1)) /\ True(v, Fresh(2)))
    BY <2>3, ForbidBoth
  <2>6. Good(d, nvar + 2) /\ \A v : AllMean(v, d) <=>
              (True(v, Out[1]) <=> True(v, Fresh(1)) \/ True(v, Fresh(2)))
    BY <2>3, <2>4, CalledOrOfTwo
  <2> HIDE DEF S, d
  <2>7. Good(Batch(S), nvar + 2) /\ \A v : AllMean(v, Batch(S)) <=> AllSatisfied(v, S)
    BY <2>3, <2>5, BatchMeans
  <2>8. /\ Good(T, nvar + 2)
        /\ \A v : AllMean(v, T) <=> AllMean(v, Batch(S)) /\ AllMean(v, d)
    BY <2>3, <2>6, <2>7, Concat
  <2>11. Become(2, HalvesToOne \o T)
    <3>1. (HalvesToOne \o Batch(S)) \o d = HalvesToOne \o (Batch(S) \o d)
      <4>1. /\ nvar + 2 \in Nat /\ Good(HalvesToOne, nvar + 2)
            /\ Good(Batch(S), nvar + 2) /\ Good(d, nvar + 2)
        BY <2>2, <2>3, <2>6, <2>7
      <4> DEFINE n == nvar + 2
                 H == HalvesToOne
                 B == Batch(S)
      <4>2. n \in Nat /\ Good(H, n) /\ Good(B, n) /\ Good(d, n)  BY <4>1
      <4>3. (H \o B) \o d = H \o (B \o d)
        <5> HIDE DEF n, H, B
        <5> QED  BY <4>2, Associative
      <4> QED  BY <4>3
    <3> QED  BY <2>1, <3>1
  <2> HIDE DEF T
  <2>9. ASSUME NEW v \in Total, Means(v, Head(todo)) PROVE Extends(v, HalvesToOne)
    <3>1. Count(v, In) <= 1  BY <1>2, <2>9
    <3> QED  BY <1>1, <1>7, <3>1, HalvesToOneChosen
  <2>10. ASSUME NEW v \in Total, AllMean(v, HalvesToOne)
         PROVE  AllMean(v, T) <=> Means(v, Head(todo))
    <3>1. AllMean(v, T) <=>
            /\ ~(True(v, Fresh(1)) /\ True(v, Fresh(2)))
            /\ True(v, Out[1]) <=> True(v, Fresh(1)) \/ True(v, Fresh(2))
      BY <2>5, <2>6, <2>7, <2>8
    <3>2. Count(v, In) = Value(v, Fresh(1)) + Value(v, Fresh(2))  BY <2>2, <2>10
    <3>3. /\ Count(v, In) <= 1 <=> ~(True(v, Fresh(1)) /\ True(v, Fresh(2)))
          /\ Count(v, In) <= 1 => (Count(v, In) = 1 <=> True(v, Fresh(1)) \/ True(v, Fresh(2)))
      BY <3>2 DEF Value
    <3> QED  BY <1>2, <3>1, <3>3
  <2> QED  BY <1>1, <2>2, <2>3, <2>8, <2>9, <2>10, <2>11, FirstKeeps
<1>8. \A n \in Nat : n >= 2 => n \in 2 .. 4 \/ n > 4  OBVIOUS
<1> QED  BY <1>3, <1>4, <1>6, <1>7, <1>8

LEMMA FourFresh ==
  ASSUME nvar \in Nat, NEW n \in Nat, n >= 4
  PROVE  /\ nvar + n \in Nat
         /\ Fresh(1) \in LitsUpTo(nvar + n) /\ Fresh(2) \in LitsUpTo(nvar + n)
         /\ Fresh(3) \in LitsUpTo(nvar + n) /\ Fresh(4) \in LitsUpTo(nvar + n)
<1>1. nvar + n \in Nat
  OBVIOUS
<1>2. 1 \in 1 .. n /\ 2 \in 1 .. n /\ 3 \in 1 .. n /\ 4 \in 1 .. n
  OBVIOUS
<1>3. \A i \in 1 .. n : Fresh(i) \in LitsUpTo(nvar + n)
  BY FreshLits
<1> QED  BY <1>1, <1>2, <1>3

LEMMA AtMostTwoKeeps ==
  ASSUME IInv, AtMostTwo
  PROVE  IInv'
<1>1. todo # <<>> /\ Head(todo).op = "at_most_two"  BY DEF AtMostTwo, On
<1>2. \A v : Means(v, Head(todo)) <=> Count(v, In) <= 2
  BY <1>1, Meanings DEF In, Out
<1>3. /\ nvar \in Nat /\ In \in Seq(LitsUpTo(nvar)) /\ Len(In) \in Nat
      /\ \A v : Count(v, In) \in 0 .. Len(In)
  BY <1>1, Running, Setting
<1>4. CASE Len(In) <= 2
  <2>1. Become(0, <<>>)
    <3>1. ~(Len(In) \in 3 .. 4) /\ ~(Len(In) > 4)  BY <1>3, <1>4, Sizes
    <3> QED  BY <1>4, <3>1 DEF AtMostTwo
  <2>2. \A v : Means(v, Head(todo))  BY <1>2, <1>3, <1>4
  <2>3. \A v : AllMean(v, <<>>) <=> Means(v, Head(todo))  BY <1>3, <2>2, Nothing
  <2> QED  BY <1>1, <1>3, <2>1, <2>3, Nothing, CallKeeps
<1>5. CASE Len(In) \in 3 .. 4
  <2>1. Become(0, <<Call("at_most_two_args", In)>>)
    <3>1. ~(Len(In) <= 2) /\ ~(Len(In) > 4)  BY <1>3, <1>5, Sizes
    <3> QED  BY <1>5, <3>1 DEF AtMostTwo
  <2>2. /\ Good(<<Call("at_most_two_args", In)>>, nvar)
        /\ \A v : AllMean(v, <<Call("at_most_two_args", In)>>) <=> Count(v, In) <= 2
    BY <1>3, PlainCall, CalledAtMostTwoArgs
  <2>3. \A v : AllMean(v, <<Call("at_most_two_args", In)>>) <=> Means(v, Head(todo))
    BY <1>2, <2>2
  <2> QED  BY <1>1, <2>1, <2>2, <2>3, CallKeeps
<1>6. CASE Len(In) > 4
  <2> DEFINE H == HalvesToTwo("count_two")
             S == SumAtMostTwo(Fresh(1), Fresh(2), Fresh(3), Fresh(4))
  <2>1. Become(4, H \o Batch(S))
    <3>1. ~(Len(In) <= 2) /\ ~(Len(In) \in 3 .. 4)  BY <1>3, <1>6, Sizes
    <3> QED  BY <1>6, <3>1 DEF AtMostTwo
  <2>2. /\ Good(H, nvar + 4)
        /\ \A v : AllMean(v, H) =>
              /\ Count(v, In) = 2 * Value(v, Fresh(1)) + Value(v, Fresh(2))
                                + 2 * Value(v, Fresh(3)) + Value(v, Fresh(4))
              /\ ~(True(v, Fresh(1)) /\ True(v, Fresh(2)))
              /\ ~(True(v, Fresh(3)) /\ True(v, Fresh(4)))
    BY <1>1, <1>6, HalvesToTwoMean
  <2>3. nvar + 4 \in Nat  BY <1>3
  <2>4. /\ S \in SUBSET Seq(LitsUpTo(nvar + 4))
        /\ \A v \in Total : AllSatisfied(v, S) <=>
              ~(True(v, Fresh(2)) /\ True(v, Fresh(3))) /\ ~(True(v, Fresh(1)) /\ True(v, Fresh(4)))
              /\ ~(True(v, Fresh(1)) /\ True(v, Fresh(3)))
    BY <1>3, FourFresh, SumAtMostTwoMeans
  <2> HIDE DEF S, H
  <2>5. Good(Batch(S), nvar + 4) /\ \A v : AllMean(v, Batch(S)) <=> AllSatisfied(v, S)
    BY <2>3, <2>4, BatchMeans
  <2>6. ASSUME NEW v \in Total, Means(v, Head(todo)) PROVE Extends(v, H)
    <3>1. Count(v, In) <= 2  BY <1>2, <2>6
    <3> QED  BY <1>1, <1>6, <3>1, HalvesToTwoChosen DEF Extends, H
  <2>7. ASSUME NEW v \in Total, AllMean(v, H)
        PROVE  AllMean(v, Batch(S)) <=> Means(v, Head(todo))
    <3>1. AllMean(v, Batch(S)) <=>
            ~(True(v, Fresh(2)) /\ True(v, Fresh(3))) /\ ~(True(v, Fresh(1)) /\ True(v, Fresh(4)))
            /\ ~(True(v, Fresh(1)) /\ True(v, Fresh(3)))
      BY <2>4, <2>5
    <3>2. /\ Count(v, In) = 2 * Value(v, Fresh(1)) + Value(v, Fresh(2))
                            + 2 * Value(v, Fresh(3)) + Value(v, Fresh(4))
          /\ ~(True(v, Fresh(1)) /\ True(v, Fresh(2))) /\ ~(True(v, Fresh(3)) /\ True(v, Fresh(4)))
      BY <2>2, <2>7
    <3>3. Count(v, In) <= 2 <=>
            ~(True(v, Fresh(2)) /\ True(v, Fresh(3))) /\ ~(True(v, Fresh(1)) /\ True(v, Fresh(4)))
            /\ ~(True(v, Fresh(1)) /\ True(v, Fresh(3)))
      BY <3>2 DEF Value
    <3> QED  BY <1>2, <3>1, <3>3
  <2> QED  BY <1>1, <2>1, <2>2, <2>3, <2>5, <2>6, <2>7, FirstKeeps
<1>7. \A n \in Nat : n <= 2 \/ n \in 3 .. 4 \/ n > 4  OBVIOUS
<1> QED  BY <1>3, <1>4, <1>5, <1>6, <1>7

(* The empty clause.                                                       *)
LEMMA EmptyClause ==
  ASSUME NEW n \in Nat
  PROVE  {<<>>} \in SUBSET Seq(LitsUpTo(n)) /\ \A v : ~AllSatisfied(v, {<<>>})
  BY SatisfiedShort, TupleLits DEF AllSatisfied

LEMMA ExactTwoKeeps ==
  ASSUME IInv, ExactTwo
  PROVE  IInv'
<1>1. todo # <<>> /\ Head(todo).op = "exact_two"  BY DEF ExactTwo, On
<1>2. \A v : Means(v, Head(todo)) <=> Count(v, In) = 2
  BY <1>1, Meanings DEF In, Out
<1>3. /\ nvar \in Nat /\ In \in Seq(LitsUpTo(nvar)) /\ Len(In) \in Nat
      /\ \A v : Count(v, In) \in 0 .. Len(In)
  BY <1>1, Running, Setting
<1>4. CASE Len(In) < 2
  <2>1. Become(0, Batch({<<>>}))
    <3>1. Len(In) # 2 /\ ~(Len(In) \in 3 .. 4) /\ ~(Len(In) > 4)  BY <1>3, <1>4, Sizes
    <3> QED  BY <1>4, <3>1 DEF ExactTwo
  <2>2. \A v : ~Means(v, Head(todo))
    <3> SUFFICES ASSUME NEW v PROVE Count(v, In) < 2  BY <1>2, <1>3
    <3> QED  BY <1>3, <1>4
  <2> QED  BY <1>1, <1>3, <2>1, <2>2, EmptyClause, BatchKeeps
<1>5. CASE Len(In) = 2
  <2> DEFINE S == {<<In[1]>>, <<In[2]>>}
  <2>1. Become(0, Batch(S))
    <3>1. ~(Len(In) < 2) /\ ~(Len(In) \in 3 .. 4) /\ ~(Len(In) > 4)  BY <1>3, <1>5, Sizes
    <3> QED  BY <1>5, <3>1 DEF ExactTwo
  <2>2. In = <<In[1], In[2]>> /\ In[1] \in LitsUpTo(nvar) /\ In[2] \in LitsUpTo(nvar)
    BY <1>3, <1>5, ShortSequences
  <2>3. In[1] \in Literal /\ In[2] \in Literal  BY <1>3, <2>2, LitsNegate
  <2>4. S \in SUBSET Seq(LitsUpTo(nvar))  BY <2>2, TupleLits
  <2>5. \A v : AllSatisfied(v, S) <=> True(v, In[1]) /\ True(v, In[2])
    BY SatisfiedShort DEF AllSatisfied
  <2>6. \A v : Count(v, In) = Value(v, In[1]) + Value(v, In[2])  BY <2>2, <2>3, CountTwoLiterals
  <2>7. \A v : AllSatisfied(v, S) <=> Means(v, Head(todo))  BY <1>2, <2>5, <2>6 DEF Value
  <2> HIDE DEF S
  <2> QED  BY <1>1, <2>1, <2>4, <2>7, BatchKeeps
<1>6. CASE Len(In) \in 3 .. 4
  <2>1. Become(0, <<Call("exact_two_args", In)>>)
    <3>1. ~(Len(In) < 2) /\ Len(In) # 2 /\ ~(Len(In) > 4)  BY <1>3, <1>6, Sizes
    <3> QED  BY <1>6, <3>1 DEF ExactTwo
  <2>2. Len(In) >= 2  BY <1>6
  <2>3. /\ Good(<<Call("exact_two_args", In)>>, nvar)
        /\ \A v : AllMean(v, <<Call("exact_two_args", In)>>) <=> Count(v, In) = 2
    BY <1>3, <2>2, PlainCall, CalledExactTwoArgs
  <2>4. \A v : AllMean(v, <<Call("exact_two_args", In)>>) <=> Means(v, Head(todo))
    BY <1>2, <2>3
  <2> QED  BY <1>1, <2>1, <2>3, <2>4, CallKeeps
<1>7. CASE Len(In) > 4
  <2> DEFINE H == HalvesToTwo("count_two")
             S == SumIsTwo(Fresh(1), Fresh(2), Fresh(3), Fresh(4))
  <2>1. Become(4, H \o Batch(S))
    <3>1. ~(Len(In) < 2) /\ Len(In) # 2 /\ ~(Len(In) \in 3 .. 4)  BY <1>3, <1>7, Sizes
    <3> QED  BY <1>7, <3>1 DEF ExactTwo
  <2>2. /\ Good(H, nvar + 4)
        /\ \A v : AllMean(v, H) =>
              /\ Count(v, In) = 2 * Value(v, Fresh(1)) + Value(v, Fresh(2))
                                + 2 * Value(v, Fresh(3)) + Value(v, Fresh(4))
              /\ ~(True(v, Fresh(1)) /\ True(v, Fresh(2)))
              /\ ~(True(v, Fresh(3)) /\ True(v, Fresh(4)))
    BY <1>1, <1>7, HalvesToTwoMean
  <2>3. nvar + 4 \in Nat  BY <1>3
  <2>4. /\ S \in SUBSET Seq(LitsUpTo(nvar + 4))
        /\ \A v \in Total :
             ~(True(v, Fresh(1)) /\ True(v, Fresh(2))) /\ ~(True(v, Fresh(3)) /\ True(v, Fresh(4))) =>
               (AllSatisfied(v, S) <=>
                2 * Value(v, Fresh(1)) + Value(v, Fresh(2)) + 2 * Value(v, Fresh(3)) + Value(v, Fresh(4)) = 2)
    BY <1>3, FourFresh, SumIsTwoMeans
  <2> HIDE DEF S, H
  <2>5. Good(Batch(S), nvar + 4) /\ \A v : AllMean(v, Batch(S)) <=> AllSatisfied(v, S)
    BY <2>3, <2>4, BatchMeans
  <2>6. ASSUME NEW v \in Total, Means(v, Head(todo)) PROVE Extends(v, H)
    <3>1. Count(v, In) <= 2  BY <1>2, <2>6
    <3> QED  BY <1>1, <1>7, <3>1, HalvesToTwoChosen DEF Extends, H
  <2>7. ASSUME NEW v \in Total, AllMean(v, H)
        PROVE  AllMean(v, Batch(S)) <=> Means(v, Head(todo))
    <3>1. AllMean(v, Batch(S)) <=> Count(v, In) = 2  BY <2>2, <2>4, <2>5, <2>7
    <3> QED  BY <1>2, <3>1
  <2> QED  BY <1>1, <2>1, <2>2, <2>3, <2>5, <2>6, <2>7, FirstKeeps
<1>8. \A n \in Nat : n < 2 \/ n = 2 \/ n \in 3 .. 4 \/ n > 4  OBVIOUS
<1> QED  BY <1>3, <1>4, <1>5, <1>6, <1>7, <1>8

LEMMA AtLeastTwoKeeps ==
  ASSUME IInv, AtLeastTwo
  PROVE  IInv'
<1>1. todo # <<>> /\ Head(todo).op = "at_least_two"  BY DEF AtLeastTwo, On
<1>2. \A v : Means(v, Head(todo)) <=> Count(v, In) >= 2
  BY <1>1, Meanings DEF In, Out
<1>3. /\ nvar \in Nat /\ In \in Seq(LitsUpTo(nvar)) /\ Len(In) \in Nat
      /\ \A v : Count(v, In) \in 0 .. Len(In)
  BY <1>1, Running, Setting
<1>4. CASE Len(In) < 2
  <2>1. Become(0, Batch({<<>>}))
    <3>1. ~(Len(In) \in 2 .. 4) /\ ~(Len(In) > 4)  BY <1>3, <1>4, Sizes
    <3> QED  BY <1>4, <3>1 DEF AtLeastTwo
  <2>2. \A v : ~Means(v, Head(todo))
    <3> SUFFICES ASSUME NEW v PROVE Count(v, In) < 2  BY <1>2, <1>3
    <3> QED  BY <1>3, <1>4
  <2> QED  BY <1>1, <1>3, <2>1, <2>2, EmptyClause, BatchKeeps
<1>5. CASE Len(In) \in 2 .. 4
  <2>1. Become(0, <<Call("at_least_two_args", In)>>)
    <3>1. ~(Len(In) < 2) /\ ~(Len(In) > 4)
      <4>1. \A n \in Nat : n \in 2 .. 4 => ~(n < 2) /\ ~(n > 4)  OBVIOUS
      <4> QED  BY <1>3, <1>5, <4>1
    <3> QED  BY <1>5, <3>1 DEF AtLeastTwo
  <2>2. Len(In) >= 2  BY <1>5
  <2>3. /\ Good(<<Call("at_least_two_args", In)>>, nvar)
        /\ \A v : AllMean(v, <<Call("at_least_two_args", In)>>) <=> Count(v, In) >= 2
    BY <1>3, <2>2, PlainCall, CalledAtLeastTwoArgs
  <2>4. \A v : AllMean(v, <<Call("at_least_two_args", In)>>) <=> Means(v, Head(todo))
    BY <1>2, <2>3
  <2> QED  BY <1>1, <2>1, <2>3, <2>4, CallKeeps
<1>6. CASE Len(In) > 4
  <2> DEFINE H == HalvesToTwo("count_up_to_two")
             S == {<<Fresh(1), Fresh(2), Fresh(3)>>, <<Fresh(1), Fresh(3), Fresh(4)>>}
  <2>1. Become(4, H \o Batch(S))
    <3>1. ~(Len(In) < 2) /\ ~(Len(In) \in 2 .. 4)  BY <1>3, <1>6, Sizes
    <3> QED  BY <1>6, <3>1 DEF AtLeastTwo
  <2>2. /\ Good(H, nvar + 4)
        /\ \A v : AllMean(v, H) =>
              /\ True(v, Fresh(1)) <=> FrontCount(v) >= 2
              /\ True(v, Fresh(2)) <=> FrontCount(v) % 2 = 1
              /\ True(v, Fresh(3)) <=> BackCount(v) >= 2
              /\ True(v, Fresh(4)) <=> BackCount(v) % 2 = 1
    BY <1>1, <1>6, HalvesUpToTwoMean
  <2>3. nvar + 4 \in Nat  BY <1>3
  <2>4. S \in SUBSET Seq(LitsUpTo(nvar + 4))  BY <1>3, FourFresh, TupleLits
  <2>5. \A v : AllSatisfied(v, S) <=>
          /\ True(v, Fresh(1)) \/ True(v, Fresh(2)) \/ True(v, Fresh(3))
          /\ True(v, Fresh(1)) \/ True(v, Fresh(3)) \/ True(v, Fresh(4))
    BY SatisfiedShort DEF AllSatisfied
  <2> HIDE DEF S, H
  <2>6. Good(Batch(S), nvar + 4) /\ \A v : AllMean(v, Batch(S)) <=> AllSatisfied(v, S)
    BY <2>3, <2>4, BatchMeans
  <2>7. ASSUME NEW v \in Total PROVE Extends(v, H)
    BY <1>1, <1>6, HalvesUpToTwoChosen DEF Extends, H
  <2>8. ASSUME NEW v \in Total, AllMean(v, H)
        PROVE  AllMean(v, Batch(S)) <=> Means(v, Head(todo))
    <3>1. AllMean(v, Batch(S)) <=>
            /\ True(v, Fresh(1)) \/ True(v, Fresh(2)) \/ True(v, Fresh(3))
            /\ True(v, Fresh(1)) \/ True(v, Fresh(3)) \/ True(v, Fresh(4))
      BY <2>5, <2>6
    <3>2. /\ True(v, Fresh(1)) <=> FrontCount(v) >= 2
          /\ True(v, Fresh(2)) <=> FrontCount(v) % 2 = 1
          /\ True(v, Fresh(3)) <=> BackCount(v) >= 2
          /\ True(v, Fresh(4)) <=> BackCount(v) % 2 = 1
      BY <2>2, <2>8
    <3>3. /\ Count(v, In) = FrontCount(v) + BackCount(v)
          /\ FrontCount(v) \in Nat /\ BackCount(v) \in Nat
      BY <1>1, <1>6, HalfCounts
    <3>4. AllMean(v, Batch(S)) <=>
            FrontCount(v) >= 2 \/ BackCount(v) >= 2 \/ (FrontCount(v) = 1 /\ BackCount(v) = 1)
      <4>1. \A n \in Nat : n < 2 => (n % 2 = 1 <=> n = 1)  OBVIOUS
      <4>2. \A n \in Nat : n >= 2 \/ n < 2  OBVIOUS
      <4> QED  BY <3>1, <3>2, <3>3, <4>1, <4>2
    <3>5. Count(v, In) >= 2 <=>
            FrontCount(v) >= 2 \/ BackCount(v) >= 2 \/ (FrontCount(v) = 1 /\ BackCount(v) = 1)
      BY <3>3
    <3> QED  BY <1>2, <3>4, <3>5
  <2> QED  BY <1>1, <2>1, <2>2, <2>3, <2>6, <2>7, <2>8, FirstKeeps
<1>7. \A n \in Nat : n < 2 \/ n \in 2 .. 4 \/ n > 4  OBVIOUS
<1> QED  BY <1>3, <1>4, <1>5, <1>6, <1>7

(* The sum of two numbers from what is known of them.                      *)
LEMMA PairSum ==
  ASSUME NEW a \in Nat, NEW b \in Nat
  PROVE  /\ a + b >= 2 <=> a >= 2 \/ b >= 2 \/ (a % 2 = 1 /\ b % 2 = 1)
         /\ (a + b) % 2 = 1 <=> (a % 2 = 1 <=> ~(b % 2 = 1))
<1>1. \A n \in Nat : n >= 2 \/ (n < 2 /\ (n % 2 = 1 <=> n = 1))  OBVIOUS
<1>2. a + b >= 2 <=> a >= 2 \/ b >= 2 \/ (a % 2 = 1 /\ b % 2 = 1)
  <2>1. a + b >= 2 <=> a >= 2 \/ b >= 2 \/ (a = 1 /\ b = 1)  OBVIOUS
  <2> QED  BY <1>1, <2>1
<1>3. (a + b) % 2 = 1 <=> (a % 2 = 1 <=> ~(b % 2 = 1))  BY Parity
<1> QED  BY <1>2, <1>3

LEMMA SumOfFourMeans ==
  ASSUME IInv, todo # <<>>, Len(In) = 4, Len(Out) = 2
  PROVE  /\ Good(SumOfFour, nvar + 5)
         /\ \A v : AllMean(v, SumOfFour) =>
              (True(v, Out[1]) <=> Count(v, In) >= 2) /\ (True(v, Out[2]) <=> Count(v, In) % 2 = 1)
         /\ \A v \in Total :
              (True(v, Out[1]) <=> Count(v, In) >= 2) /\ (True(v, Out[2]) <=> Count(v, In) % 2 = 1)
              => Extends(v, SumOfFour)
<1> DEFINE c == GateCall("half_adder", First(2), <<Fresh(2), Fresh(1)>>)
           d == GateCall("half_adder", Rest(2), <<Fresh(4), Fresh(3)>>)
           e == GateCall("half_adder", <<Fresh(1), Fresh(3)>>, <<Fresh(5), Out[2]>>)
           f == GateCall("or", <<Fresh(2), Fresh(4), Fresh(5)>>, <<Out[1]>>)
           N == nvar + 5
<1>1. /\ N \in Nat /\ Fresh(1) \in LitsUpTo(N) /\ Fresh(2) \in LitsUpTo(N) /\ Fresh(3) \in LitsUpTo(N)
      /\ Fresh(4) \in LitsUpTo(N) /\ Fresh(5) \in LitsUpTo(N)
  <2>1. nvar \in Nat  BY Setting
  <2> QED  BY <2>1, FreshLits
<1>2. Out[1] \in LitsUpTo(N) /\ Out[2] \in LitsUpTo(N)  BY TwoOutputs
<1>3. /\ First(2) \in Seq(LitsUpTo(N)) /\ Rest(2) \in Seq(LitsUpTo(N))
      /\ Len(First(2)) = 2 /\ Len(Rest(2)) = 2
      /\ First(2) \in Clause /\ Rest(2) \in Clause
      /\ \A v : Count(v, In) = Count(v, First(2)) + Count(v, Rest(2))
  <2>1. 2 \in 0 .. Len(In) /\ 5 \in Nat  OBVIOUS
  <2>2. Len(In) - 2 = 2  OBVIOUS
  <2>3. /\ First(2) \in Seq(LitsUpTo(nvar + 5)) /\ Len(First(2)) = 2
        /\ Rest(2) \in Seq(LitsUpTo(nvar + 5)) /\ Len(Rest(2)) = Len(In) - 2
        /\ First(2) \in Clause /\ Rest(2) \in Clause
        /\ \A v : Count(v, In) = Count(v, First(2)) + Count(v, Rest(2))
    BY <2>1, Halves
  <2> QED  BY <2>2, <2>3
<1> HIDE DEF N
<1>4. Good(<<c>>, N) /\ \A v : AllMean(v, <<c>>) <=>
        ((True(v, Fresh(2)) <=> Count(v, First(2)) >= 2)
         /\ (True(v, Fresh(1)) <=> Count(v, First(2)) % 2 = 1))
  BY <1>1, <1>3, CalledHalfAdder
<1>5. Good(<<d>>, N) /\ \A v : AllMean(v, <<d>>) <=>
        ((True(v, Fresh(4)) <=> Count(v, Rest(2)) >= 2)
         /\ (True(v, Fresh(3)) <=> Count(v, Rest(2)) % 2 = 1))
  BY <1>1, <1>3, CalledHalfAdder
<1>6. Good(<<e>>, N) /\ \A v : AllMean(v, <<e>>) <=>
        (True(v, Fresh(5)) <=> True(v, Fresh(1)) /\ True(v, Fresh(3)))
        /\ (True(v, Out[2]) <=> (True(v, Fresh(1)) <=> ~True(v, Fresh(3))))
  BY <1>1, <1>2, CalledHalfAdderOf
<1>7. Good(<<f>>, N) /\ \A v : AllMean(v, <<f>>) <=>
        (True(v, Out[1]) <=> True(v, Fresh(2)) \/ True(v, Fresh(4)) \/ True(v, Fresh(5)))
  BY <1>1, <1>2, CalledOrOfThree
<1>8. SumOfFour = <<c, d, e, f>>  BY DEF SumOfFour
<1> HIDE DEF c, d, e, f
<1>9. /\ Good(<<c, d, e, f>>, N)
      /\ \A v : AllMean(v, <<c, d, e, f>>) <=>
                AllMean(v, <<c>>) /\ AllMean(v, <<d>>) /\ AllMean(v, <<e>>) /\ AllMean(v, <<f>>)
  BY <1>1, <1>4, <1>5, <1>6, <1>7, FourCalls
<1>10. ASSUME NEW v, AllMean(v, SumOfFour)
       PROVE  (True(v, Out[1]) <=> Count(v, In) >= 2) /\ (True(v, Out[2]) <=> Count(v, In) % 2 = 1)
  <2> DEFINE a == Count(v, First(2))
             b == Count(v, Rest(2))
  <2>1. a \in Nat /\ b \in Nat /\ Count(v, In) = a + b
    BY <1>3, OnesFinite
  <2>2. /\ (True(v, Fresh(2)) <=> a >= 2) /\ (True(v, Fresh(1)) <=> a % 2 = 1)
        /\ (True(v, Fresh(4)) <=> b >= 2) /\ (True(v, Fresh(3)) <=> b % 2 = 1)
    BY <1>4, <1>5, <1>8, <1>9, <1>10
  <2>3. /\ (True(v, Fresh(5)) <=> True(v, Fresh(1)) /\ True(v, Fresh(3)))
        /\ (True(v, Out[2]) <=> (True(v, Fresh(1)) <=> ~True(v, Fresh(3))))
        /\ (True(v, Out[1]) <=> True(v, Fresh(2)) \/ True(v, Fresh(4)) \/ True(v, Fresh(5)))
    BY <1>6, <1>7, <1>8, <1>9, <1>10
  <2> HIDE DEF a, b
  <2> QED  BY <2>1, <2>2, <2>3, PairSum
<1>11. ASSUME NEW v \in Total, True(v, Out[1]) <=> Count(v, In) >= 2,
              True(v, Out[2]) <=> Count(v, In) % 2 = 1
       PROVE  Extends(v, SumOfFour)
  <2> DEFINE a == Count(v, First(2))
             b == Count(v, Rest(2))
  <2>1. a \in Nat /\ b \in Nat /\ Count(v, In) = a + b
    BY <1>3, OnesFinite
  <2>2. PICK w \in Total :
          /\ Agree(v, w, nvar)
          /\ (True(w, Fresh(1)) <=> a % 2 = 1) /\ (True(w, Fresh(2)) <=> a >= 2)
          /\ (True(w, Fresh(3)) <=> b % 2 = 1) /\ (True(w, Fresh(4)) <=> b >= 2)
          /\ True(w, Fresh(5)) <=> a % 2 = 1 /\ b % 2 = 1
    <3>1. nvar \in Nat  BY Setting
    <3> QED  BY <3>1, Extend
  <2>3. Count(w, First(2)) = a /\ Count(w, Rest(2)) = b
    <3>1. 2 \in 0 .. Len(In)  OBVIOUS
    <3> QED  BY <2>2, <3>1, SameCall
  <2>4. (True(w, Out[1]) <=> True(v, Out[1])) /\ (True(w, Out[2]) <=> True(v, Out[2]))
    <3>1. 0 \in Nat /\ nvar \in Nat /\ nvar + 0 = nvar  BY Setting
    <3>2. Out[1] \in LitsUpTo(nvar + 0) /\ Out[2] \in LitsUpTo(nvar + 0)  BY <3>1, TwoOutputs
    <3> QED  BY <2>2, <3>1, <3>2, SameLits
  <2>5. (True(v, Out[1]) <=> a + b >= 2) /\ (True(v, Out[2]) <=> (a + b) % 2 = 1)
    BY <1>11, <2>1
  <2>6. AllMean(w, <<c>>) /\ AllMean(w, <<d>>)  BY <1>4, <1>5, <2>2, <2>3
  <2> HIDE DEF a, b
  <2>7. AllMean(w, <<e>>)  BY <1>6, <2>1, <2>2, <2>4, <2>5, PairSum
  <2>8. AllMean(w, <<f>>)  BY <1>7, <2>1, <2>2, <2>4, <2>5, PairSum
  <2> QED  BY <1>8, <1>9, <2>2, <2>6, <2>7, <2>8 DEF Extends
<1> QED  BY <1>8, <1>9, <1>10, <1>11 DEF N

LEMMA CountTwoKeeps ==
  ASSUME IInv, CountTwo
  PROVE  IInv'
<1> DEFINE a2 == Call("at_most_two_args", In)
<1>1. todo # <<>> /\ Head(todo).op = "count_two"  BY DEF CountTwo, On
<1>2. \A v : Means(v, Head(todo)) <=>
        (Count(v, In) <= 2 /\ (True(v, Out[1]) <=> Count(v, In) = 2)
         /\ (True(v, Out[2]) <=> Count(v, In) = 1))
  BY <1>1, Meanings DEF In, Out
<1>3. Len(In) >= 2 /\ Len(Out) = 2
  <2>1. Shape(Head(todo)) /\ Head(todo).in = In /\ Head(todo).out = Out /\ Len(In) \in Nat
    BY <1>1, Setting
  <2> QED  BY <1>1, <2>1 DEF Shape, VectorNames
<1>4. /\ nvar \in Nat /\ In \in Seq(LitsUpTo(nvar)) /\ Len(In) \in Nat
      /\ \A v : Count(v, In) \in Nat
  BY <1>1, Running, Setting
<1>5. Out = <<Out[1], Out[2]>> /\ Out[1] \in LitsUpTo(nvar) /\ Out[2] \in LitsUpTo(nvar)
  BY <1>1, <1>3, Running, ShortSequences
<1>6. \A n \in Nat : In \in Seq(LitsUpTo(nvar + n)) /\ nvar + n \in Nat  BY <1>1, Setting
<1>7. \A n \in Nat : Good(<<a2>>, nvar + n) /\ \A v : AllMean(v, <<a2>>) <=> Count(v, In) <= 2
  BY <1>6, PlainCall, CalledAtMostTwoArgs
<1>8. ASSUME NEW v
      PROVE  Means(v, Head(todo)) <=>
               /\ Count(v, In) <= 2
               /\ True(v, Out[1]) <=> Count(v, In) >= 2
               /\ True(v, Out[2]) <=> Count(v, In) % 2 = 1
  <2>1. Count(v, In) \in Nat  BY <1>4
  <2>2. \A n \in Nat : n <= 2 => (n >= 2 <=> n = 2) /\ (n % 2 = 1 <=> n = 1)  OBVIOUS
  <2> QED  BY <1>2, <2>1, <2>2
<1>9. 0 \in Nat /\ 5 \in Nat /\ nvar + 0 = nvar  BY <1>4
<1> HIDE DEF a2
<1>10. CASE Len(In) = 2 \/ Len(In) = 3
  <2> DEFINE op == IF Len(In) = 2 THEN "half_adder" ELSE "full_adder"
             d == GateCall(op, In, <<Out[1], Out[2]>>)
  <2>1. Become(0, <<a2, d>>)
    <3>1. CASE Len(In) = 2  BY <1>5, <3>1 DEF CountTwo, a2
    <3>2. CASE Len(In) = 3  BY <1>5, <3>2 DEF CountTwo, a2
    <3> QED  BY <1>10, <3>1, <3>2
  <2>2. Good(<<d>>, nvar) /\ \A v : AllMean(v, <<d>>) <=>
          ((True(v, Out[1]) <=> Count(v, In) >= 2) /\ (True(v, Out[2]) <=> Count(v, In) % 2 = 1))
    <3>1. CASE Len(In) = 2  BY <1>4, <1>5, <3>1, CalledHalfAdder
    <3>2. CASE Len(In) = 3
      <4>1. op = "full_adder"  BY <3>2
      <4> QED  BY <1>4, <1>5, <3>2, <4>1, CalledFullAdder
    <3> QED  BY <1>10, <3>1, <3>2
  <2> HIDE DEF d
  <2>3. Good(<<a2>>, nvar) /\ \A v : AllMean(v, <<a2>>) <=> Count(v, In) <= 2
    BY <1>7, <1>9
  <2>4. /\ Good(<<a2, d>>, nvar)
        /\ \A v : AllMean(v, <<a2, d>>) <=> AllMean(v, <<a2>>) /\ AllMean(v, <<d>>)
    BY <1>4, <2>2, <2>3, TwoCalls
  <2>5. \A v : AllMean(v, <<a2, d>>) <=> Means(v, Head(todo))  BY <1>8, <2>2, <2>3, <2>4
  <2> QED  BY <1>1, <2>1, <2>4, <2>5, CallKeeps
<1>11. CASE Len(In) = 4
  <2>1. Become(5, <<a2>> \o SumOfFour)
    BY <1>11 DEF CountTwo, a2
  <2>2. Good(<<a2>>, nvar + 5) /\ \A v : AllMean(v, <<a2>>) <=> Count(v, In) <= 2
    BY <1>7, <1>9
  <2>3. /\ Good(SumOfFour, nvar + 5)
        /\ \A v : AllMean(v, SumOfFour) =>
             (True(v, Out[1]) <=> Count(v, In) >= 2) /\ (True(v, Out[2]) <=> Count(v, In) % 2 = 1)
        /\ \A v \in Total :
             (True(v, Out[1]) <=> Count(v, In) >= 2) /\ (True(v, Out[2]) <=> Count(v, In) % 2 = 1)
             => Extends(v, SumOfFour)
    BY <1>1, <1>3, <1>11, SumOfFourMeans
  <2>4. nvar + 5 \in Nat  BY <1>4
  <2>5. /\ Good(<<a2>> \o SumOfFour, nvar + 5)
        /\ \A v : AllMean(v, <<a2>> \o SumOfFour) <=> AllMean(v, <<a2>>) /\ AllMean(v, SumOfFour)
    BY <2>2, <2>3, <2>4, Concat
  <2>6. \A v : AllMean(v, <<a2>> \o SumOfFour) => Means(v, Head(todo))  BY <1>8, <2>2, <2>3, <2>5
  <2>7. ASSUME NEW v \in Total, Means(v, Head(todo)) PROVE Extends(v, <<a2>> \o SumOfFour)
    <3>1. Extends(v, SumOfFour)  BY <1>8, <2>3, <2>7
    <3>2. PICK w \in Total : Agree(v, w, nvar) /\ AllMean(w, SumOfFour)  BY <3>1 DEF Extends
    <3>3. Count(w, In) <= 2  BY <1>1, <1>2, <2>7, <3>2, SameCall
    <3> QED  BY <2>2, <2>5, <3>2, <3>3 DEF Extends
  <2> QED  BY <1>1, <1>9, <2>1, <2>5, <2>6, <2>7, BecomeKeeps
<1>12. CASE Len(In) > 4
  <2> DEFINE H == HalvesToTwo("count_two")
             S == SumAtMostTwo(Fresh(1), Fresh(2), Fresh(3), Fresh(4))
             d == GateCall("half_adder", <<Fresh(2), Fresh(4)>>, <<Fresh(5), Out[2]>>)
             e == GateCall("xor", <<Fresh(1), Fresh(3), Fresh(5)>>, <<Out[1]>>)
             T == (H \o Batch(S)) \o <<d, e>>
  <2>1. Become(5, T)
    <3>1. Len(In) # 2 /\ Len(In) # 3 /\ Len(In) # 4  BY <1>4, <1>12, Sizes
    <3> QED  BY <1>12, <3>1 DEF CountTwo
  <2>2. /\ Good(H, nvar + 5)
        /\ \A v : AllMean(v, H) =>
              /\ Count(v, In) = 2 * Value(v, Fresh(1)) + Value(v, Fresh(2))
                                + 2 * Value(v, Fresh(3)) + Value(v, Fresh(4))
              /\ ~(True(v, Fresh(1)) /\ True(v, Fresh(2)))
              /\ ~(True(v, Fresh(3)) /\ True(v, Fresh(4)))
    BY <1>1, <1>12, HalvesToTwoMean
  <2>3. /\ nvar + 5 \in Nat
        /\ Fresh(1) \in LitsUpTo(nvar + 5) /\ Fresh(2) \in LitsUpTo(nvar + 5)
        /\ Fresh(3) \in LitsUpTo(nvar + 5) /\ Fresh(4) \in LitsUpTo(nvar + 5)
        /\ Fresh(5) \in LitsUpTo(nvar + 5)
    BY <1>4, FreshLits
  <2>4. Out[1] \in LitsUpTo(nvar + 5) /\ Out[2] \in LitsUpTo(nvar + 5)
    BY <1>1, <1>3, TwoOutputs
  <2>5. /\ S \in SUBSET Seq(LitsUpTo(nvar + 5))
        /\ \A v \in Total : AllSatisfied(v, S) <=>
              ~(True(v, Fresh(2)) /\ True(v, Fresh(3))) /\ ~(True(v, Fresh(1)) /\ True(v, Fresh(4)))
              /\ ~(True(v, Fresh(1)) /\ True(v, Fresh(3)))
    BY <2>3, SumAtMostTwoMeans
  <2>6. Good(<<d>>, nvar + 5) /\ \A v : AllMean(v, <<d>>) <=>
          (True(v, Fresh(5)) <=> True(v, Fresh(2)) /\ True(v, Fresh(4)))
          /\ (True(v, Out[2]) <=> (True(v, Fresh(2)) <=> ~True(v, Fresh(4))))
    BY <2>3, <2>4, CalledHalfAdderOf
  <2>7. Good(<<e>>, nvar + 5) /\ \A v : AllMean(v, <<e>>) <=>
          (True(v, Out[1]) <=>
             (Value(v, Fresh(1)) + Value(v, Fresh(3)) + Value(v, Fresh(5))) % 2 = 1)
    BY <2>3, <2>4, CalledXorOf
  <2> HIDE DEF H, S, d, e
  <2>8. Good(Batch(S), nvar + 5) /\ \A v : AllMean(v, Batch(S)) <=> AllSatisfied(v, S)
    BY <2>3, <2>5, BatchMeans
  <2>9. /\ Good(<<d, e>>, nvar + 5)
        /\ \A v : AllMean(v, <<d, e>>) <=> AllMean(v, <<d>>) /\ AllMean(v, <<e>>)
    BY <2>3, <2>6, <2>7, TwoCalls
  <2>10. /\ Good(H \o Batch(S), nvar + 5)
         /\ \A v : AllMean(v, H \o Batch(S)) <=> AllMean(v, H) /\ AllMean(v, Batch(S))
    BY <2>2, <2>3, <2>8, Concat
  <2>11. /\ Good(T, nvar + 5)
         /\ \A v : AllMean(v, T) <=> AllMean(v, H \o Batch(S)) /\ AllMean(v, <<d, e>>)
    BY <2>3, <2>9, <2>10, Concat
  <2> HIDE DEF T
  <2>12. ASSUME NEW v \in Total, AllMean(v, H),
                True(v, Fresh(5)) <=> True(v, Fresh(2)) /\ True(v, Fresh(4))
         PROVE  AllMean(v, T) <=> Means(v, Head(todo))
    <3> DEFINE h1 == True(v, Fresh(1))
               l1 == True(v, Fresh(2))
               h2 == True(v, Fresh(3))
               l2 == True(v, Fresh(4))
               k == True(v, Fresh(5))
               sum == ~(l1 /\ h2) /\ ~(h1 /\ l2) /\ ~(h1 /\ h2)
    <3>1. AllMean(v, T) <=>
            /\ sum
            /\ (k <=> l1 /\ l2) /\ (True(v, Out[2]) <=> (l1 <=> ~l2))
            /\ True(v, Out[1]) <=>
                   (Value(v, Fresh(1)) + Value(v, Fresh(3)) + Value(v, Fresh(5))) % 2 = 1
      BY <2>5, <2>6, <2>7, <2>8, <2>9, <2>10, <2>11, <2>12
    <3>2. ~(h1 /\ l1) /\ ~(h2 /\ l2) /\ (k <=> l1 /\ l2)  BY <2>2, <2>12
    <3>3. Count(v, In) = 2 * Value(v, Fresh(1)) + Value(v, Fresh(2))
                         + 2 * Value(v, Fresh(3)) + Value(v, Fresh(4))
      BY <2>2, <2>12
    <3>4. /\ Value(v, Fresh(1)) = IF h1 THEN 1 ELSE 0
          /\ Value(v, Fresh(2)) = IF l1 THEN 1 ELSE 0
          /\ Value(v, Fresh(3)) = IF h2 THEN 1 ELSE 0
          /\ Value(v, Fresh(4)) = IF l2 THEN 1 ELSE 0
          /\ Value(v, Fresh(5)) = IF k THEN 1 ELSE 0
      BY DEF Value
    <3> HIDE DEF h1, l1, h2, l2, k
    <3>5. Count(v, In) <= 2 <=> sum  BY <3>2, <3>3, <3>4
    <3>6. sum => (Count(v, In) = 2 <=> h1 \/ h2 \/ k)  BY <3>2, <3>3, <3>4
    <3>7. sum => (Count(v, In) = 1 <=> (l1 <=> ~l2))  BY <3>2, <3>3, <3>4
    <3>8. sum => ((Value(v, Fresh(1)) + Value(v, Fresh(3)) + Value(v, Fresh(5))) % 2 = 1
                    <=> h1 \/ h2 \/ k)
      BY <3>2, <3>4
    <3> HIDE DEF sum
    <3> QED  BY <1>2, <3>1, <3>2, <3>5, <3>6, <3>7, <3>8
  <2>13. ASSUME NEW v \in Total, AllMean(v, T) PROVE Means(v, Head(todo))
    BY <2>6, <2>9, <2>10, <2>11, <2>12, <2>13
  <2>14. ASSUME NEW v \in Total, Means(v, Head(todo)) PROVE Extends(v, T)
    <3>1. PICK w \in Total : /\ Agree(v, w, nvar) /\ AllMean(w, H)
                             /\ True(w, Fresh(5)) <=> True(w, Fresh(2)) /\ True(w, Fresh(4))
      <4>1. Count(v, In) <= 2  BY <1>2, <2>14
      <4> QED  BY <1>1, <1>12, <4>1, HalvesToTwoChosen DEF H
    <3>2. Means(w, Head(todo))  BY <1>1, <2>14, <3>1, SameCall
    <3> QED  BY <2>12, <3>1, <3>2 DEF Extends
  <2> QED  BY <1>1, <1>9, <2>1, <2>11, <2>13, <2>14, BecomeKeeps
<1>13. \A n \in Nat : n >= 2 => n = 2 \/ n = 3 \/ n = 4 \/ n > 4  OBVIOUS
<1> QED  BY <1>3, <1>4, <1>10, <1>11, <1>12, <1>13

LEMMA CountUpToTwoKeeps ==
  ASSUME IInv, CountUpToTwo
  PROVE  IInv'
<1>1. todo # <<>> /\ Head(todo).op = "count_up_to_two"  BY DEF CountUpToTwo, On
<1>2. \A v : Means(v, Head(todo)) <=>
        ((True(v, Out[1]) <=> Count(v, In) >= 2)
         /\ (True(v, Out[2]) <=> Count(v, In) % 2 = 1))
  BY <1>1, Meanings DEF In, Out
<1>3. Len(In) >= 2 /\ Len(Out) = 2
  <2>1. Shape(Head(todo)) /\ Head(todo).in = In /\ Head(todo).out = Out /\ Len(In) \in Nat
    BY <1>1, Setting
  <2> QED  BY <1>1, <2>1 DEF Shape, VectorNames
<1>4. /\ nvar \in Nat /\ In \in Seq(LitsUpTo(nvar)) /\ Len(In) \in Nat
      /\ \A v : Count(v, In) \in Nat
  BY <1>1, Running, Setting
<1>5. Out = <<Out[1], Out[2]>> /\ Out[1] \in LitsUpTo(nvar) /\ Out[2] \in LitsUpTo(nvar)
  BY <1>1, <1>3, Running, ShortSequences
<1>6. 5 \in Nat  OBVIOUS
<1>7. CASE Len(In) = 2
  <2> DEFINE d == GateCall("half_adder", In, <<Out[1], Out[2]>>)
  <2>1. Become(0, <<d>>)  BY <1>5, <1>7 DEF CountUpToTwo
  <2>2. Good(<<d>>, nvar) /\ \A v : AllMean(v, <<d>>) <=>
          ((True(v, Out[1]) <=> Count(v, In) >= 2) /\ (True(v, Out[2]) <=> Count(v, In) % 2 = 1))
    BY <1>4, <1>5, <1>7, CalledHalfAdder
  <2> HIDE DEF d
  <2>3. \A v : AllMean(v, <<d>>) <=> Means(v, Head(todo))  BY <1>2, <2>2
  <2> QED  BY <1>1, <2>1, <2>2, <2>3, CallKeeps
<1>8. CASE Len(In) = 3
  <2> DEFINE d == GateCall("full_adder", In, <<Out[1], Out[2]>>)
  <2>1. Become(0, <<d>>)  BY <1>5, <1>8 DEF CountUpToTwo
  <2>2. Good(<<d>>, nvar) /\ \A v : AllMean(v, <<d>>) <=>
          ((True(v, Out[1]) <=> Count(v, In) >= 2) /\ (True(v, Out[2]) <=> Count(v, In) % 2 = 1))
    BY <1>4, <1>5, <1>8, CalledFullAdder
  <2> HIDE DEF d
  <2>3. \A v : AllMean(v, <<d>>) <=> Means(v, Head(todo))  BY <1>2, <2>2
  <2> QED  BY <1>1, <2>1, <2>2, <2>3, CallKeeps
<1>9. CASE Len(In) = 4
  <2>1. Become(5, SumOfFour)  BY <1>9 DEF CountUpToTwo
  <2>2. /\ Good(SumOfFour, nvar + 5)
        /\ \A v : AllMean(v, SumOfFour) =>
             (True(v, Out[1]) <=> Count(v, In) >= 2) /\ (True(v, Out[2]) <=> Count(v, In) % 2 = 1)
        /\ \A v \in Total :
             (True(v, Out[1]) <=> Count(v, In) >= 2) /\ (True(v, Out[2]) <=> Count(v, In) % 2 = 1)
             => Extends(v, SumOfFour)
    BY <1>1, <1>3, <1>9, SumOfFourMeans
  <2>3. \A v : AllMean(v, SumOfFour) => Means(v, Head(todo))  BY <1>2, <2>2
  <2>4. \A v \in Total : Means(v, Head(todo)) => Extends(v, SumOfFour)  BY <1>2, <2>2
  <2> QED  BY <1>1, <1>6, <2>1, <2>2, <2>3, <2>4, BecomeKeeps
<1>10. CASE Len(In) > 4
  <2> DEFINE H == HalvesToTwo("count_up_to_two")
             d == GateCall("half_adder", <<Fresh(2), Fresh(4)>>, <<Fresh(5), Out[2]>>)
             e == GateCall("or", <<Fresh(1), Fresh(3), Fresh(5)>>, <<Out[1]>>)
             T == H \o <<d, e>>
  <2>1. Become(5, T)
    <3>1. Len(In) # 2 /\ Len(In) # 3 /\ Len(In) # 4  BY <1>4, <1>10, Sizes
    <3> QED  BY <1>10, <3>1 DEF CountUpToTwo
  <2>2. /\ Good(H, nvar + 5)
        /\ \A v : AllMean(v, H) =>
              /\ True(v, Fresh(1)) <=> FrontCount(v) >= 2
              /\ True(v, Fresh(2)) <=> FrontCount(v) % 2 = 1
              /\ True(v, Fresh(3)) <=> BackCount(v) >= 2
              /\ True(v, Fresh(4)) <=> BackCount(v) % 2 = 1
    BY <1>1, <1>10, HalvesUpToTwoMean
  <2>3. /\ nvar + 5 \in Nat
        /\ Fresh(1) \in LitsUpTo(nvar + 5) /\ Fresh(2) \in LitsUpTo(nvar + 5)
        /\ Fresh(3) \in LitsUpTo(nvar + 5) /\ Fresh(4) \in LitsUpTo(nvar + 5)
        /\ Fresh(5) \in LitsUpTo(nvar + 5)
    BY <1>4, FreshLits
  <2>4. Out[1] \in LitsUpTo(nvar + 5) /\ Out[2] \in LitsUpTo(nvar + 5)
    BY <1>1, <1>3, TwoOutputs
  <2>5. Good(<<d>>, nvar + 5) /\ \A v : AllMean(v, <<d>>) <=>
          (True(v, Fresh(5)) <=> True(v, Fresh(2)) /\ True(v, Fresh(4)))
          /\ (True(v, Out[2]) <=> (True(v, Fresh(2)) <=> ~True(v, Fresh(4))))
    BY <2>3, <2>4, CalledHalfAdderOf
  <2>6. Good(<<e>>, nvar + 5) /\ \A v : AllMean(v, <<e>>) <=>
          (True(v, Out[1]) <=> True(v, Fresh(1)) \/ True(v, Fresh(3)) \/ True(v, Fresh(5)))
    BY <2>3, <2>4, CalledOrOfThree
  <2> HIDE DEF H, d, e
  <2>7. /\ Good(<<d, e>>, nvar + 5)
        /\ \A v : AllMean(v, <<d, e>>) <=> AllMean(v, <<d>>) /\ AllMean(v, <<e>>)
    BY <2>3, <2>5, <2>6, TwoCalls
  <2>8. /\ Good(T, nvar + 5)
        /\ \A v : AllMean(v, T) <=> AllMean(v, H) /\ AllMean(v, <<d, e>>)
    BY <2>2, <2>3, <2>7, Concat
  <2> HIDE DEF T
  <2>9. ASSUME NEW v \in Total, AllMean(v, H),
               True(v, Fresh(5)) <=> True(v, Fresh(2)) /\ True(v, Fresh(4))
        PROVE  AllMean(v, T) <=> Means(v, Head(todo))
    <3> DEFINE a == FrontCount(v)
               b == BackCount(v)
    <3>1. AllMean(v, T) <=>
            /\ True(v, Out[2]) <=> (True(v, Fresh(2)) <=> ~True(v, Fresh(4)))
            /\ True(v, Out[1]) <=> True(v, Fresh(1)) \/ True(v, Fresh(3)) \/ True(v, Fresh(5))
      BY <2>5, <2>6, <2>7, <2>8, <2>9
    <3>2. /\ True(v, Fresh(1)) <=> a >= 2
          /\ True(v, Fresh(2)) <=> a % 2 = 1
          /\ True(v, Fresh(3)) <=> b >= 2
          /\ True(v, Fresh(4)) <=> b % 2 = 1
      BY <2>2, <2>9
    <3>3. Count(v, In) = a + b /\ a \in Nat /\ b \in Nat
      BY <1>1, <1>10, HalfCounts
    <3> HIDE DEF a, b
    <3>4. (True(v, Fresh(1)) \/ True(v, Fresh(3)) \/ True(v, Fresh(5))) <=> Count(v, In) >= 2
      BY <2>9, <3>2, <3>3, PairSum
    <3>5. (True(v, Fresh(2)) <=> ~True(v, Fresh(4))) <=> Count(v, In) % 2 = 1
      BY <3>2, <3>3, PairSum
    <3> QED  BY <1>2, <3>1, <3>4, <3>5
  <2>10. ASSUME NEW v \in Total, AllMean(v, T) PROVE Means(v, Head(todo))
    BY <2>5, <2>7, <2>8, <2>9, <2>10
  <2>11. ASSUME NEW v \in Total, Means(v, Head(todo)) PROVE Extends(v, T)
    <3>1. PICK w \in Total : /\ Agree(v, w, nvar) /\ AllMean(w, H)
                             /\ True(w, Fresh(5)) <=> True(w, Fresh(2)) /\ True(w, Fresh(4))
      BY <1>1, <1>10, HalvesUpToTwoChosen DEF H
    <3>2. Means(w, Head(todo))  BY <1>1, <2>11, <3>1, SameCall
    <3> QED  BY <2>9, <3>1, <3>2 DEF Extends
  <2> QED  BY <1>1, <1>6, <2>1, <2>8, <2>10, <2>11, BecomeKeeps
<1>11. \A n \in Nat : n >= 2 => n = 2 \/ n = 3 \/ n = 4 \/ n > 4  OBVIOUS
<1> QED  BY <1>3, <1>4, <1>7, <1>8, <1>9, <1>10, <1>11

-----------------------------------------------------------------------------
(* Comparisons of vectors.                                                 *)

LEMMA Comparing ==
  ASSUME IInv, todo # <<>>, Head(todo).op \in VectorNames
  PROVE  /\ nvar \in Nat /\ nvar + 0 = nvar
         /\ VecA \in Seq(LitsUpTo(nvar)) /\ VecB \in Seq(LitsUpTo(nvar))
         /\ VecA \in Clause /\ VecB \in Clause
         /\ Len(VecA) \in Nat /\ Len(VecB) \in Nat /\ Len(VecA) >= 1 /\ Len(VecB) >= 1
         /\ VecA = Lhs(Head(todo)) /\ VecB = Rhs(Head(todo))
<1>1. /\ nvar \in Nat /\ Shape(Head(todo)) /\ Head(todo).in \in Seq(LitsUpTo(nvar))
  BY Running DEF In
<1>2. VecA = Lhs(Head(todo)) /\ VecB = Rhs(Head(todo))
  BY DEF VecA, VecB, First, Rest, Lhs, Rhs, In, Arg
<1>3. /\ VecA \in Seq(LitsUpTo(nvar)) /\ VecB \in Seq(LitsUpTo(nvar))
      /\ Len(VecA) \in Nat /\ Len(VecB) \in Nat /\ Len(VecA) >= 1 /\ Len(VecB) >= 1
  BY <1>1, <1>2, Operands
<1>4. VecA \in Clause /\ VecB \in Clause  BY <1>1, <1>3, LitsGrow
<1> QED  BY <1>1, <1>2, <1>3, <1>4

(* The literals of the clauses, and of the variables made for them.        *)
LEMMA EqualBitsFrom ==
  ASSUME NEW L, Mirrored(L), NEW a \in Seq(L), NEW b \in Seq(L)
  PROVE  EqualBits(a, b) \in SUBSET Seq(L)
<1> DEFINE c == Common(a, b)
           e == Extra(a, b)
<1>1. e \in Seq(L) /\ \A i \in 1 .. c : a[i] \in L /\ b[i] \in L  BY CommonBits
<1> HIDE DEF c, e
<1>2. \A i \in DOMAIN e : <<-e[i]>> \in Seq(L)
  <2>1. \A i \in DOMAIN e : -e[i] \in L  BY <1>1 DEF Mirrored
  <2> QED  BY <2>1, TupleLits
<1>3. \A i \in 1 .. c : BuffGate(a[i], b[i]) \in SUBSET Seq(L)  BY <1>1, GatesFrom
<1>4. EqualBits(a, b) = {<<-e[i]>> : i \in DOMAIN e} \cup
                        UNION {BuffGate(a[i], b[i]) : i \in 1 .. c}
  BY DEF EqualBits, c, e
<1> QED  BY <1>2, <1>3, <1>4

LEMMA DifferentBitsFrom ==
  ASSUME NEW L, Mirrored(L), NEW a \in Seq(L), NEW b \in Seq(L), NEW x \in Nat,
         \A i \in 1 .. Common(a, b) : x + i \in L
  PROVE  DifferentBits(a, b, x) \in SUBSET Seq(L)
<1> DEFINE c == Common(a, b)
           e == Extra(a, b)
           s == LitsFrom(x, c)
<1>1. /\ e \in Seq(L) /\ c \in Nat
      /\ \A i \in 1 .. c : a[i] \in L /\ b[i] \in L /\ x + i \in L
  BY CommonBits
<1> HIDE DEF c, e
<1>2. \A i \in 1 .. c : XorGate2(x + i, a[i], b[i]) \in SUBSET Seq(L)  BY <1>1, GatesFrom
<1>3. e \o s \in Seq(L)
  <2>1. s = [i \in 1 .. c |-> x + i]  BY DEF LitsFrom
  <2>2. s \in [1 .. c -> L]
    <3>1. \A i \in 1 .. c : x + i \in L  BY <1>1
    <3> QED  BY <2>1, <3>1
  <2>3. s \in Seq(L)  BY <1>1, <2>2
  <2> HIDE DEF s
  <2> QED  BY <1>1, <2>3
<1>4. DifferentBits(a, b, x) = (UNION {XorGate2(x + i, a[i], b[i]) : i \in 1 .. c}) \cup {e \o s}
  BY DEF DifferentBits, c, e
<1> QED  BY <1>2, <1>3, <1>4

LEMMA MadeToCompare ==
  ASSUME NEW a \in Clause, NEW b \in Clause, Len(a) >= 1, Len(b) >= 1,
         ~(Len(a) = 1 /\ Len(b) = 1), NEW x \in Nat, NEW strict \in BOOLEAN
  PROVE  LET n == OneByOne(a, b)
             y == x + TopVars(a, b)
             made == x + 1 .. x + CompareVars(strict, a, b)
         IN  /\ CompareVars(strict, a, b) \in Nat
             /\ x + 1 \in made
             /\ Len(a) = Len(b) => x + 2 \in made
             /\ \A j \in 1 .. n : strict \/ j > 1 => EqualAbove(x + 1, y, n, j - 1) \in made
             /\ \A j \in 1 .. n : EqualAbove(x + 1, y, n, j) \in made
             /\ \A j \in 1 .. n : LessAt(strict, y, n, j) \in made
<1> DEFINE n == OneByOne(a, b)
           t == TopVars(a, b)
           y == x + t
           m == CompareVars(strict, a, b)
           made == x + 1 .. x + m
<1>1. /\ n \in Nat /\ n >= 1 /\ t \in 1 .. 2 /\ (Len(a) = Len(b) => t = 2)  BY Ladder
<1>2. m = t + 2 * n - (IF strict THEN 0 ELSE 1)  BY DEF CompareVars
<1> HIDE DEF n, t, m
<1>3. m \in Nat /\ m >= t + 1 /\ (strict => m = t + 2 * n) /\ (~strict => m = t + 2 * n - 1)
  BY <1>1, <1>2
<1>4. x + 1 \in Literal  BY DEF Literal
<1>5. /\ EqualAbove(x + 1, y, n, n) = x + 1
      /\ \A j \in 0 .. n - 1 : EqualAbove(x + 1, y, n, j) = y + 2 * (n - j) - 1
      /\ \A j \in 1 .. n :
           LessAt(strict, y, n, j) = y + 2 * (n - j) + (IF strict \/ j > 1 THEN 2 ELSE 1)
  <2>1. y \in Nat  BY <1>1
  <2> DEFINE f == x + 1
  <2>2. f \in Literal  BY <1>4
  <2> HIDE DEF y, f
  <2>3. EqualAbove(f, y, n, n) = f  BY <1>1, <2>1, <2>2, BitLits
  <2>4. \A j \in 0 .. n - 1 : EqualAbove(f, y, n, j) = y + 2 * (n - j) - 1
    BY <1>1, <2>1, <2>2, BitLits
  <2>5. \A j \in 1 .. n :
          LessAt(strict, y, n, j) = y + 2 * (n - j) + (IF strict \/ j > 1 THEN 2 ELSE 1)
    BY <1>1 DEF LessAt
  <2> QED  BY <2>3, <2>4, <2>5 DEF f
<1>6. x + 1 \in made  BY <1>1, <1>3
<1>7. Len(a) = Len(b) => x + 2 \in made  BY <1>1, <1>3
<1>8. \A j \in 1 .. n : strict \/ j > 1 => EqualAbove(x + 1, y, n, j - 1) \in made
  <2> TAKE j \in 1 .. n
  <2> HAVE strict \/ j > 1
  <2>1. EqualAbove(x + 1, y, n, j - 1) = y + 2 * (n - (j - 1)) - 1
    <3>1. j - 1 \in 0 .. n - 1  BY <1>1
    <3> QED  BY <1>5, <3>1
  <2>2. y + 2 * (n - (j - 1)) - 1 \in made
    <3>1. CASE strict  BY <1>1, <1>3, <3>1
    <3>2. CASE ~strict /\ j > 1  BY <1>1, <1>3, <3>2
    <3> QED  BY <3>1, <3>2
  <2> QED  BY <2>1, <2>2
<1>9. \A j \in 1 .. n : EqualAbove(x + 1, y, n, j) \in made
  <2> TAKE j \in 1 .. n
  <2>1. CASE j = n  BY <1>5, <1>6, <2>1
  <2>2. CASE j # n
    <3>1. j \in 0 .. n - 1  BY <1>1, <2>2
    <3>2. y + 2 * (n - j) - 1 \in made  BY <1>1, <1>3, <3>1
    <3> QED  BY <1>5, <3>1, <3>2
  <2> QED  BY <2>1, <2>2
<1>10. \A j \in 1 .. n : LessAt(strict, y, n, j) \in made
  <2> TAKE j \in 1 .. n
  <2>1. CASE strict
    <3>1. LessAt(strict, y, n, j) = y + 2 * (n - j) + 2 /\ m = t + 2 * n  BY <1>3, <1>5, <2>1
    <3> QED  BY <1>1, <3>1
  <2>2. CASE ~strict /\ j > 1
    <3>1. LessAt(strict, y, n, j) = y + 2 * (n - j) + 2  BY <1>5, <2>2
    <3> QED  BY <1>1, <1>3, <2>2, <3>1
  <2>3. CASE ~strict /\ ~(j > 1)
    <3>1. LessAt(strict, y, n, j) = y + 2 * (n - j) + 1 /\ j = 1  BY <1>5, <2>3
    <3> QED  BY <1>1, <1>3, <2>3, <3>1
  <2> QED  BY <2>1, <2>2, <2>3
<1> QED  BY <1>3, <1>6, <1>7, <1>8, <1>9, <1>10 DEF n, t, m

LEMMA CompareBitsFrom ==
  ASSUME NEW L, Mirrored(L), NEW a \in Seq(L), NEW b \in Seq(L), a \in Clause, b \in Clause,
         Len(a) >= 1, Len(b) >= 1, ~(Len(a) = 1 /\ Len(b) = 1), NEW x \in Nat,
         NEW strict \in BOOLEAN, \A i \in 1 .. CompareVars(strict, a, b) : x + i \in L
  PROVE  /\ CompareBits(strict, a, b, x) \in SUBSET Seq(L)
         /\ CompareTop(a, b, x) \in SUBSET Seq(L)
         /\ \A j \in 1 .. OneByOne(a, b) :
              CompareBit(strict, a, b, x + 1, x + TopVars(a, b), OneByOne(a, b), j)
                \in SUBSET Seq(L)
<1> DEFINE c == Common(a, b)
           n == OneByOne(a, b)
           e == Extra(a, b)
           y == x + TopVars(a, b)
           m == CompareVars(strict, a, b)
           s == [i \in 1 .. n |-> LessAt(strict, y, n, n + 1 - i)]
<1>1. /\ c \in Nat /\ c >= 1 /\ n \in Nat /\ n <= c
  BY Ladder
<1>2. e \in Seq(L) /\ \A i \in 1 .. c : a[i] \in L /\ b[i] \in L  BY CommonBits
<1>3. \A i \in x + 1 .. x + m : i \in L
  <2> TAKE i \in x + 1 .. x + m
  <2>1. m \in Nat  BY MadeToCompare
  <2> HIDE DEF m
  <2>2. i - x \in 1 .. m /\ x + (i - x) = i  BY <2>1
  <2> QED  BY <2>2 DEF m
<1>4. /\ x + 1 \in L
      /\ Len(a) = Len(b) => x + 2 \in L
      /\ \A j \in 1 .. n : strict \/ j > 1 => EqualAbove(x + 1, y, n, j - 1) \in L
      /\ \A j \in 1 .. n : EqualAbove(x + 1, y, n, j) \in L
      /\ \A j \in 1 .. n : LessAt(strict, y, n, j) \in L
  <2>1. /\ x + 1 \in x + 1 .. x + m
        /\ Len(a) = Len(b) => x + 2 \in x + 1 .. x + m
        /\ \A j \in 1 .. n : strict \/ j > 1 => EqualAbove(x + 1, y, n, j - 1) \in x + 1 .. x + m
        /\ \A j \in 1 .. n : EqualAbove(x + 1, y, n, j) \in x + 1 .. x + m
        /\ \A j \in 1 .. n : LessAt(strict, y, n, j) \in x + 1 .. x + m
    BY MadeToCompare
  <2> HIDE DEF n, y, m
  <2> QED  BY <1>3, <2>1
<1> HIDE DEF c, n, e, y, m
<1>5. CompareTop(a, b, x) \in SUBSET Seq(L)
  <2>1. CASE Len(a) = Len(b)
    <3>1. a[c] \in L /\ b[c] \in L /\ -a[c] \in L /\ -(x + 1) \in L /\ x + 2 \in L
      <4>1. c \in 1 .. c  BY <1>1
      <4> QED  BY <1>2, <1>4, <2>1, <4>1 DEF Mirrored
    <3>2. XorGate2(-(x + 1), a[c], b[c]) \in SUBSET Seq(L)  BY <3>1, GatesFrom
    <3>3. AndGate(x + 2, <<-a[c], b[c]>>) \in SUBSET Seq(L)  BY <3>1, TupleLits, WideGatesFrom
    <3> QED  BY <2>1, <3>2, <3>3 DEF CompareTop, c
  <2>2. CASE Len(a) # Len(b)
    <3>1. Negated(e) \in Seq(L)  BY <1>2, <1>4, WideGatesFrom
    <3>2. AndGate(x + 1, Negated(e)) \in SUBSET Seq(L)  BY <1>4, <3>1, WideGatesFrom
    <3> QED  BY <2>2, <3>2 DEF CompareTop, e
  <2> QED  BY <2>1, <2>2
<1>6. ASSUME NEW j \in 1 .. n
      PROVE  CompareBit(strict, a, b, x + 1, y, n, j) \in SUBSET Seq(L)
  <2> DEFINE f == EqualAbove(x + 1, y, n, j)
             g == EqualAbove(x + 1, y, n, j - 1)
             l == LessAt(strict, y, n, j)
  <2>1. a[j] \in L /\ b[j] \in L /\ f \in L /\ l \in L /\ (strict \/ j > 1 => g \in L)
    <3>1. j \in 1 .. c  BY <1>1
    <3> QED  BY <1>2, <1>4, <3>1
  <2> HIDE DEF f, g, l
  <2>2. -a[j] \in L /\ -b[j] \in L /\ -f \in L /\ -l \in L /\ (strict \/ j > 1 => -g \in L)
    BY <2>1 DEF Mirrored
  <2>3. CASE strict \/ j > 1
    <3>1. EqualHere(g, f, a[j], b[j]) \in SUBSET Seq(L)
      BY <2>1, <2>2, <2>3, TupleLits DEF EqualHere
    <3>2. LessHere(l, f, a[j], b[j]) \in SUBSET Seq(L)
      <4>1. <<f, -a[j], b[j]>> \in Seq(L)  BY <2>1, <2>2, TupleLits
      <4> QED  BY <2>1, <4>1, WideGatesFrom DEF LessHere
    <3> QED  BY <2>3, <3>1, <3>2 DEF CompareBit, f, g, l
  <2>4. CASE ~(strict \/ j > 1)
    <3>1. AtMostHere(l, f, a[j], b[j]) \in SUBSET Seq(L)
      BY <2>1, <2>2, TupleLits DEF AtMostHere
    <3> QED  BY <2>4, <3>1 DEF CompareBit, f, l
  <2> QED  BY <2>3, <2>4
<1>7. LessAtTop(a, b, x) \o s \in Seq(L)
  <2>1. LessAtTop(a, b, x) \in Seq(L)
    <3>1. Len(a) = Len(b) => <<x + 2>> \in Seq(L)  BY <1>4, TupleLits
    <3>2. <<>> \in Seq(L)  BY TupleLits
    <3> QED  BY <1>2, <3>1, <3>2 DEF LessAtTop, e
  <2>2. s \in Seq(L)
    <3>1. \A i \in 1 .. n : n + 1 - i \in 1 .. n  BY <1>1
    <3>2. \A i \in 1 .. n : LessAt(strict, y, n, n + 1 - i) \in L  BY <1>4, <3>1
    <3> QED  BY <1>1, <3>2
  <2> HIDE DEF s
  <2> QED  BY <2>1, <2>2
<1>8. CompareBits(strict, a, b, x) =
        CompareTop(a, b, x) \cup
        (UNION {CompareBit(strict, a, b, x + 1, y, n, j) : j \in 1 .. n}) \cup
        {LessAtTop(a, b, x) \o s}
  BY DEF CompareBits, n, y
<1> HIDE DEF s
<1>9. CompareBits(strict, a, b, x) \in SUBSET Seq(L)  BY <1>5, <1>6, <1>7, <1>8
<1> QED  BY <1>5, <1>6, <1>9 DEF n, y

(* What the bits of the vectors say depends on their variables only.       *)
LEMMA SameBits ==
  ASSUME NEW x \in Nat, NEW v, NEW w, Agree(v, w, x),
         NEW a \in Seq(LitsUpTo(x)), NEW b \in Seq(LitsUpTo(x))
  PROVE  /\ \A i \in 1 .. Common(a, b) : /\ True(w, a[i]) <=> True(v, a[i])
                                         /\ True(w, b[i]) <=> True(v, b[i])
         /\ \A j \in Nat : Open(w, a, b, j) <=> Open(v, a, b, j)
         /\ \A j \in 1 .. Common(a, b), s \in BOOLEAN :
              IsLess(s, w, a, b, j) <=> IsLess(s, v, a, b, j)
<1>1. \A l \in LitsUpTo(x) : True(w, l) <=> True(v, l)  BY SameLits
<1>2. /\ Common(a, b) \in Nat
      /\ \A i \in 1 .. Common(a, b) : a[i] \in LitsUpTo(x) /\ b[i] \in LitsUpTo(x)
      /\ Extra(a, b) \in Seq(LitsUpTo(x))
  BY CommonBits
<1>3. \A i \in 1 .. Common(a, b) : /\ True(w, a[i]) <=> True(v, a[i])
                                   /\ True(w, b[i]) <=> True(v, b[i])
  BY <1>1, <1>2
<1>4. Zero(w, Extra(a, b)) <=> Zero(v, Extra(a, b))
  <2>1. \A i \in DOMAIN Extra(a, b) : Extra(a, b)[i] \in LitsUpTo(x)  BY <1>2
  <2> QED  BY <1>1, <2>1 DEF Zero
<1>5. ASSUME NEW j \in Nat PROVE Open(w, a, b, j) <=> Open(v, a, b, j)
  <2>1. \A k \in j + 1 .. Common(a, b) : k \in 1 .. Common(a, b)  BY <1>2
  <2> QED  BY <1>3, <1>4, <2>1 DEF Open, SameAbove
<1>6. ASSUME NEW j \in 1 .. Common(a, b), NEW s \in BOOLEAN
      PROVE  IsLess(s, w, a, b, j) <=> IsLess(s, v, a, b, j)
  <2>1. j \in Nat  BY <1>2
  <2>2. Open(w, a, b, j) <=> Open(v, a, b, j)  BY <1>5, <2>1
  <2> QED  BY <1>3, <2>2 DEF IsLess
<1> QED  BY <1>3, <1>5, <1>6

(* The variables made can be given the values they stand for.              *)
LEMMA DifferExists ==
  ASSUME NEW x \in Nat, NEW v \in Total,
         NEW a \in Seq(LitsUpTo(x)), NEW b \in Seq(LitsUpTo(x))
  PROVE  \E w \in Total : Agree(v, w, x) /\ Differ(w, a, b, x)
<1> DEFINE c == Common(a, b)
           d(i) == ~(True(v, a[i]) <=> True(v, b[i]))
           w == [i \in Nat |-> IF i \in x + 1 .. x + c THEN d(i - x) ELSE v[i]]
<1>1. c \in Nat  BY CommonBits
<1> HIDE DEF c
<1>2. w \in Total
  <2>1. \A i \in Nat : v[i] \in BOOLEAN  BY DEF Total
  <2>2. \A i \in Nat : d(i) \in BOOLEAN  OBVIOUS
  <2>3. \A i \in x + 1 .. x + c : i - x \in Nat  BY <1>1
  <2> HIDE DEF d
  <2>4. \A i \in Nat : (IF i \in x + 1 .. x + c THEN d(i - x) ELSE v[i]) \in BOOLEAN
    BY <2>1, <2>2, <2>3
  <2> QED  BY <2>4 DEF Total
<1>3. Agree(v, w, x)
  <2>1. \A i \in 1 .. x : i \in Nat /\ ~(i \in x + 1 .. x + c)  BY <1>1
  <2> QED  BY <2>1 DEF Agree
<1>4. \A i \in 1 .. c : True(w, x + i) <=> d(i)
  <2> TAKE i \in 1 .. c
  <2>1. x + i \in Nat /\ x + i > 0 /\ x + i \in x + 1 .. x + c /\ (x + i) - x = i  BY <1>1
  <2>2. w[x + i] = d(i)  BY <2>1
  <2> QED  BY <2>1, <2>2 DEF True
<1> HIDE DEF w
<1>5. \A i \in 1 .. c : /\ True(w, a[i]) <=> True(v, a[i])
                        /\ True(w, b[i]) <=> True(v, b[i])
  BY <1>3, SameBits DEF c
<1>6. Differ(w, a, b, x)  BY <1>4, <1>5 DEF Differ, c
<1> QED  BY <1>2, <1>3, <1>6

LEMMA MarksExist ==
  ASSUME NEW x \in Nat, NEW v \in Total,
         NEW a \in Seq(LitsUpTo(x)), NEW b \in Seq(LitsUpTo(x)), a \in Clause, b \in Clause,
         Len(a) >= 1, Len(b) >= 1, ~(Len(a) = 1 /\ Len(b) = 1), NEW strict \in BOOLEAN
  PROVE  \E w \in Total : Agree(v, w, x) /\ Marked(strict, w, a, b, x)
<1> DEFINE c == Common(a, b)
           n == OneByOne(a, b)
           t == TopVars(a, b)
           y == x + t
           same == Len(a) = Len(b)
           Up(j) == Open(v, a, b, j)
           Less(j) == IsLess(strict, v, a, b, j)
           Top == IsLess(TRUE, v, a, b, c)
           Set(i) == \/ i = x + 1 /\ Up(n)
                     \/ same /\ i = x + 2 /\ Top
                     \/ \E j \in 1 .. n : /\ strict \/ j > 1
                                          /\ i = y + 2 * (n - j) + 1
                                          /\ Up(j - 1)
                     \/ \E j \in 1 .. n : /\ strict \/ j > 1
                                          /\ i = y + 2 * (n - j) + 2
                                          /\ Less(j)
                     \/ ~strict /\ i = y + 2 * n - 1 /\ Less(1)
           w == [i \in Nat |-> IF i <= x THEN v[i] ELSE Set(i)]
<1>1. /\ c \in Nat /\ c >= 1 /\ n \in Nat /\ n >= 1 /\ n <= c
      /\ same => t = 2
      /\ ~same => t = 1
      /\ t \in 1 .. 2
  BY Ladder
<1> HIDE DEF c, n, t, same, Up, Less, Top
<1>2. Set(x + 1) <=> Up(n)
  <2>1. /\ ~(x + 1 = x + 2)
        /\ \A j \in 1 .. n : x + 1 # y + 2 * (n - j) + 1
        /\ \A j \in 1 .. n : x + 1 # y + 2 * (n - j) + 2
        /\ x + 1 # y + 2 * n - 1
    BY <1>1
  <2> QED  BY <2>1
<1>3. same => (Set(x + 2) <=> Top)
  <2> HAVE same
  <2>1. /\ ~(x + 2 = x + 1)
        /\ \A j \in 1 .. n : x + 2 # y + 2 * (n - j) + 1
        /\ \A j \in 1 .. n : x + 2 # y + 2 * (n - j) + 2
        /\ x + 2 # y + 2 * n - 1
    BY <1>1
  <2> QED  BY <2>1
<1>4. ASSUME NEW j \in 1 .. n, strict \/ j > 1
      PROVE  Set(y + 2 * (n - j) + 1) <=> Up(j - 1)
  <2> DEFINE i == y + 2 * (n - j) + 1
  <2>1. i # x + 1  BY <1>1
  <2>2. same => i # x + 2  BY <1>1
  <2>3. \A k \in 1 .. n : i = y + 2 * (n - k) + 1 => k = j  BY <1>1
  <2>4. \A k \in 1 .. n : i # y + 2 * (n - k) + 2  BY <1>1
  <2>5. ~strict => i # y + 2 * n - 1
    <3> HAVE ~strict
    <3>1. j > 1  BY <1>4
    <3> QED  BY <1>1, <3>1
  <2> HIDE DEF y
  <2> QED  BY <1>4, <2>1, <2>2, <2>3, <2>4, <2>5
<1>5. ASSUME NEW j \in 1 .. n, strict \/ j > 1
      PROVE  Set(y + 2 * (n - j) + 2) <=> Less(j)
  <2> DEFINE i == y + 2 * (n - j) + 2
  <2>1. i # x + 1  BY <1>1
  <2>2. same => i # x + 2  BY <1>1
  <2>3. \A k \in 1 .. n : i = y + 2 * (n - k) + 2 => k = j  BY <1>1
  <2>4. \A k \in 1 .. n : i # y + 2 * (n - k) + 1  BY <1>1
  <2>5. ~strict => i # y + 2 * n - 1  BY <1>1
  <2> HIDE DEF y
  <2> QED  BY <1>5, <2>1, <2>2, <2>3, <2>4, <2>5
<1>6. ~strict => (Set(y + 2 * n - 1) <=> Less(1))
  <2> HAVE ~strict
  <2> DEFINE i == y + 2 * n - 1
  <2>1. i # x + 1  BY <1>1
  <2>2. same => i # x + 2  BY <1>1
  <2>3. \A k \in 1 .. n : k > 1 => i # y + 2 * (n - k) + 1  BY <1>1
  <2>4. \A k \in 1 .. n : i # y + 2 * (n - k) + 2  BY <1>1
  <2> HIDE DEF y
  <2> QED  BY <2>1, <2>2, <2>3, <2>4
<1>7. \A i : Set(i) \in BOOLEAN  OBVIOUS
<1>8. y \in Nat /\ y > x  BY <1>1
<1> HIDE DEF Set, y
<1>9. w \in Total
  <2>1. \A i \in Nat : v[i] \in BOOLEAN  BY DEF Total
  <2>2. \A i \in Nat : (IF i <= x THEN v[i] ELSE Set(i)) \in BOOLEAN  BY <1>7, <2>1
  <2> QED  BY <2>2 DEF Total
<1>10. Agree(v, w, x)
  <2>1. \A i \in 1 .. x : i \in Nat /\ i <= x  OBVIOUS
  <2> QED  BY <2>1 DEF Agree
<1>11. \A i \in Nat : i > x => (True(w, i) <=> Set(i))
  <2> TAKE i \in Nat
  <2> HAVE i > x
  <2>1. w[i] = Set(i) /\ i > 0  OBVIOUS
  <2> QED  BY <2>1 DEF True
<1> HIDE DEF w
<1>12. /\ \A j \in Nat : Open(w, a, b, j) <=> Open(v, a, b, j)
       /\ \A j \in 1 .. c, s \in BOOLEAN : IsLess(s, w, a, b, j) <=> IsLess(s, v, a, b, j)
  BY <1>10, SameBits DEF c
<1>13. TopMarked(w, a, b, x)
  <2>1. True(w, x + 1) <=> Open(w, a, b, n)
    <3>1. True(w, x + 1) <=> Up(n)  BY <1>2, <1>11
    <3> QED  BY <1>1, <1>12, <3>1 DEF Up
  <2>2. same => (True(w, x + 2) <=> IsLess(TRUE, w, a, b, c))
    <3>1. same => (True(w, x + 2) <=> Top)  BY <1>3, <1>11
    <3>2. c \in 1 .. c  BY <1>1
    <3> QED  BY <1>12, <3>1, <3>2 DEF Top
  <2> QED  BY <2>1, <2>2 DEF TopMarked, n, c, same
<1>14. ASSUME NEW j \in 1 .. n PROVE BitMarked(strict, w, a, b, x + 1, y, n, j)
  <2>1. j \in 1 .. c /\ j - 1 \in Nat /\ n - j \in Nat  BY <1>1
  <2>2. Less(j) <=> IsLess(strict, w, a, b, j)  BY <1>12, <2>1 DEF Less
  <2>3. Up(j - 1) <=> Open(w, a, b, j - 1)  BY <1>12, <2>1 DEF Up
  <2>4. CASE strict \/ j > 1
    <3>1. EqualAbove(x + 1, y, n, j - 1) = y + 2 * (n - j) + 1
      <4>1. j - 1 # n /\ y + 2 * (n - (j - 1)) - 1 = y + 2 * (n - j) + 1  BY <1>1, <1>8
      <4> QED  BY <4>1 DEF EqualAbove
    <3>2. LessAt(strict, y, n, j) = y + 2 * (n - j) + 2  BY <2>4 DEF LessAt
    <3>3. /\ y + 2 * (n - j) + 1 \in Nat /\ y + 2 * (n - j) + 1 > x
          /\ y + 2 * (n - j) + 2 \in Nat /\ y + 2 * (n - j) + 2 > x
      BY <1>8, <2>1
    <3>4. True(w, y + 2 * (n - j) + 1) <=> Up(j - 1)  BY <1>4, <1>11, <2>4, <3>3
    <3>5. True(w, y + 2 * (n - j) + 2) <=> Less(j)  BY <1>5, <1>11, <2>4, <3>3
    <3> QED  BY <2>2, <2>3, <3>1, <3>2, <3>4, <3>5 DEF BitMarked
  <2>5. CASE ~(strict \/ j > 1)
    <3>1. j = 1  BY <1>1, <2>5
    <3>2. LessAt(strict, y, n, j) = y + 2 * n - 1
      <4>1. LessAt(strict, y, n, j) = y + 2 * (n - j) + 1  BY <2>5 DEF LessAt
      <4> QED  BY <1>1, <1>8, <3>1, <4>1
    <3>3. y + 2 * n - 1 \in Nat /\ y + 2 * n - 1 > x  BY <1>1, <1>8
    <3>4. True(w, y + 2 * n - 1) <=> Less(j)  BY <1>6, <1>11, <2>5, <3>1, <3>3
    <3> QED  BY <2>2, <2>5, <3>2, <3>4 DEF BitMarked
  <2> QED  BY <2>4, <2>5
<1>15. Marked(strict, w, a, b, x)  BY <1>13, <1>14 DEF Marked, n, y, t
<1> QED  BY <1>9, <1>10, <1>15

(* The comparisons themselves.                                             *)
LEMMA AddEqKeeps ==
  ASSUME IInv, AddEq
  PROVE  IInv'
<1>1. todo # <<>> /\ Head(todo).op = "eq" /\ Become(0, Batch(EqualBits(VecA, VecB)))
  BY DEF AddEq, On
<1>2. /\ nvar \in Nat /\ VecA \in Seq(LitsUpTo(nvar)) /\ VecB \in Seq(LitsUpTo(nvar))
      /\ VecA \in Clause /\ VecB \in Clause
      /\ VecA = Lhs(Head(todo)) /\ VecB = Rhs(Head(todo))
  BY <1>1, Comparing DEF VectorNames
<1>3. \A v : Means(v, Head(todo)) <=> ValueOf(v, VecA) = ValueOf(v, VecB)
  BY <1>1, <1>2, ComparisonMeanings
<1>4. EqualBits(VecA, VecB) \in SUBSET Seq(LitsUpTo(nvar))
  BY <1>2, LitsMirrored, EqualBitsFrom
<1>5. \A v \in Total : AllSatisfied(v, EqualBits(VecA, VecB)) <=> Means(v, Head(todo))
  BY <1>2, <1>3, EqualBitsMean
<1> QED  BY <1>1, <1>4, <1>5, BatchKeeps

LEMMA FreshAre ==
  ASSUME NEW x \in Nat, NEW n \in Nat
  PROVE  /\ \A i \in 1 .. n : x + i \in LitsUpTo(x + n)
         /\ x + n \in Nat /\ Seq(LitsUpTo(x)) \subseteq Seq(LitsUpTo(x + n))
<1>1. \A i \in 1 .. n : x + i \in LitsUpTo(x + n)  BY DEF LitsUpTo
<1>2. x + n \in Nat /\ x <= x + n  OBVIOUS
<1> QED  BY <1>1, <1>2, LitsGrow

LEMMA AddNeKeeps ==
  ASSUME IInv, AddNe
  PROVE  IInv'
<1> DEFINE c == Common(VecA, VecB)
           S == DifferentBits(VecA, VecB, nvar)
<1>1. todo # <<>> /\ Head(todo).op = "ne" /\ Become(c, Batch(S))
  BY DEF AddNe, On
<1>2. /\ nvar \in Nat /\ VecA \in Seq(LitsUpTo(nvar)) /\ VecB \in Seq(LitsUpTo(nvar))
      /\ VecA \in Clause /\ VecB \in Clause
      /\ VecA = Lhs(Head(todo)) /\ VecB = Rhs(Head(todo))
  BY <1>1, Comparing DEF VectorNames
<1>3. \A v : Means(v, Head(todo)) <=> ValueOf(v, VecA) # ValueOf(v, VecB)
  BY <1>1, <1>2, ComparisonMeanings
<1>4. c \in Nat  BY <1>2, CommonBits
<1>5. S \in SUBSET Seq(LitsUpTo(nvar + c))
  <2>1. /\ nvar + c \in Nat
        /\ VecA \in Seq(LitsUpTo(nvar + c)) /\ VecB \in Seq(LitsUpTo(nvar + c))
        /\ \A i \in 1 .. c : nvar + i \in LitsUpTo(nvar + c)
    BY <1>2, <1>4, FreshAre
  <2>2. Mirrored(LitsUpTo(nvar + c))  BY <2>1, LitsMirrored
  <2> QED  BY <1>2, <2>1, <2>2, DifferentBitsFrom
<1>6. \A v \in Total : AllSatisfied(v, S) <=>
                         Differ(v, VecA, VecB, nvar) /\ Means(v, Head(todo))
  BY <1>2, <1>3, DifferentBitsMean
<1> HIDE DEF c, S
<1>7. nvar + c \in Nat  BY <1>2, <1>4
<1>8. Good(Batch(S), nvar + c) /\ \A v : AllMean(v, Batch(S)) <=> AllSatisfied(v, S)
  BY <1>5, <1>7, BatchMeans
<1>9. ASSUME NEW v \in Total, Means(v, Head(todo)) PROVE Extends(v, Batch(S))
  <2>1. PICK w \in Total : Agree(v, w, nvar) /\ Differ(w, VecA, VecB, nvar)
    BY <1>2, DifferExists
  <2>2. Means(w, Head(todo))  BY <1>1, <1>9, <2>1, SameCall
  <2> QED  BY <1>6, <1>8, <2>1, <2>2 DEF Extends
<1> QED  BY <1>1, <1>4, <1>6, <1>8, <1>9, BecomeKeeps

LEMMA CompareKeeps ==
  ASSUME IInv, todo # <<>>, Head(todo).op \in VectorNames, ~OneBitEach,
         NEW strict \in BOOLEAN, Compare(strict),
         \A v : Means(v, Head(todo)) <=> IsBelow(strict, ValueOf(v, VecA), ValueOf(v, VecB))
  PROVE  IInv'
<1> DEFINE m == CompareVars(strict, VecA, VecB)
           S == CompareBits(strict, VecA, VecB, nvar)
<1>1. Become(m, Batch(S))  BY DEF Compare
<1>2. /\ nvar \in Nat /\ VecA \in Seq(LitsUpTo(nvar)) /\ VecB \in Seq(LitsUpTo(nvar))
      /\ VecA \in Clause /\ VecB \in Clause
      /\ Len(VecA) >= 1 /\ Len(VecB) >= 1 /\ ~(Len(VecA) = 1 /\ Len(VecB) = 1)
  BY Comparing DEF OneBitEach
<1>3. m \in Nat  BY <1>2, MadeToCompare
<1>4. S \in SUBSET Seq(LitsUpTo(nvar + m))
  <2>1. /\ nvar + m \in Nat
        /\ VecA \in Seq(LitsUpTo(nvar + m)) /\ VecB \in Seq(LitsUpTo(nvar + m))
        /\ \A i \in 1 .. m : nvar + i \in LitsUpTo(nvar + m)
    BY <1>2, <1>3, FreshAre
  <2>2. Mirrored(LitsUpTo(nvar + m))  BY <2>1, LitsMirrored
  <2> QED  BY <1>2, <2>1, <2>2, CompareBitsFrom
<1>5. \A v \in Total : AllSatisfied(v, S) <=>
                         Marked(strict, v, VecA, VecB, nvar) /\ Means(v, Head(todo))
  BY <1>2, CompareBitsMean
<1> HIDE DEF m, S
<1>6. nvar + m \in Nat  BY <1>2, <1>3
<1>7. Good(Batch(S), nvar + m) /\ \A v : AllMean(v, Batch(S)) <=> AllSatisfied(v, S)
  BY <1>4, <1>6, BatchMeans
<1>8. ASSUME NEW v \in Total, Means(v, Head(todo)) PROVE Extends(v, Batch(S))
  <2>1. PICK w \in Total : Agree(v, w, nvar) /\ Marked(strict, w, VecA, VecB, nvar)
    BY <1>2, MarksExist
  <2>2. Means(w, Head(todo))  BY <1>8, <2>1, SameCall
  <2> QED  BY <1>5, <1>7, <2>1, <2>2 DEF Extends
<1> QED  BY <1>1, <1>3, <1>5, <1>7, <1>8, BecomeKeeps

(* Vectors of one bit.                                                     *)
LEMMA OneBitMeans ==
  ASSUME NEW v \in Total, NEW a \in Clause, NEW b \in Clause, Len(a) = 1, Len(b) = 1
  PROVE  /\ a[1] \in Literal /\ b[1] \in Literal
         /\ AllSatisfied(v, {<<-a[1]>>, <<b[1]>>}) <=> ValueOf(v, a) < ValueOf(v, b)
         /\ AllSatisfied(v, {<<-a[1], b[1]>>}) <=> ValueOf(v, a) <= ValueOf(v, b)
<1>1. /\ Common(a, b) = 1 /\ Extra(a, b) = <<>> /\ a[1] \in Literal /\ b[1] \in Literal
  <2>1. /\ Common(a, b) = Len(a) /\ Extra(a, b) = <<>>
        /\ \A i \in 1 .. Common(a, b) : a[i] \in Literal /\ b[i] \in Literal
    BY CommonBits DEF Clause
  <2>2. 1 \in 1 .. 1  OBVIOUS
  <2> QED  BY <2>1, <2>2
<1>2. Zero(v, <<>>)  BY DEF Zero
<1>3. SameAbove(v, a, b, 0, 1) <=> (True(v, a[1]) <=> True(v, b[1]))
  <2>1. 0 + 1 .. 1 = {1}  OBVIOUS
  <2> QED  BY <2>1 DEF SameAbove
<1>4. (\E j \in 1 .. 1 : LessBit(v, a, b, j, 1)) <=> ~True(v, a[1]) /\ True(v, b[1])
  <2>1. 1 .. 1 = {1} /\ 1 + 1 .. 1 = {}  OBVIOUS
  <2> QED  BY <2>1 DEF LessBit, SameAbove
<1>5. /\ ValueOf(v, a) = ValueOf(v, b) <=> (True(v, a[1]) <=> True(v, b[1]))
      /\ ValueOf(v, a) < ValueOf(v, b) <=> ~True(v, a[1]) /\ True(v, b[1])
  <2>1. ~(Len(a) < Len(b))  OBVIOUS
  <2> QED  BY <1>1, <1>2, <1>3, <1>4, <2>1, VectorsCompare
<1>6. ValueOf(v, a) \in Nat /\ ValueOf(v, b) \in Nat  BY ValueRange
<1>7. ValueOf(v, a) <= ValueOf(v, b) <=>
        ValueOf(v, a) < ValueOf(v, b) \/ ValueOf(v, a) = ValueOf(v, b)
  BY <1>6
<1>8. True(v, -a[1]) <=> ~True(v, a[1])  BY <1>1, TrueNegation
<1>9. AllSatisfied(v, {<<-a[1]>>, <<b[1]>>}) <=> ~True(v, a[1]) /\ True(v, b[1])
  <2>1. /\ Satisfied(v, <<-a[1]>>) <=> True(v, -a[1])
        /\ Satisfied(v, <<b[1]>>) <=> True(v, b[1])
    BY SatisfiedShort
  <2> QED  BY <1>8, <2>1 DEF AllSatisfied
<1>10. AllSatisfied(v, {<<-a[1], b[1]>>}) <=> ~True(v, a[1]) \/ True(v, b[1])
  <2>1. Satisfied(v, <<-a[1], b[1]>>) <=> True(v, -a[1]) \/ True(v, b[1])
    BY SatisfiedShort
  <2> QED  BY <1>8, <2>1 DEF AllSatisfied
<1> QED  BY <1>1, <1>5, <1>7, <1>9, <1>10

LEMMA OneBitKeeps ==
  ASSUME IInv, todo # <<>>, Head(todo).op \in VectorNames, OneBitEach
  PROVE  /\ /\ Become(0, Batch({<<-VecA[1]>>, <<VecB[1]>>}))
            /\ \A v : Means(v, Head(todo)) <=> ValueOf(v, VecA) < ValueOf(v, VecB)
            => IInv'
         /\ /\ Become(0, Batch({<<-VecA[1], VecB[1]>>}))
            /\ \A v : Means(v, Head(todo)) <=> ValueOf(v, VecA) <= ValueOf(v, VecB)
            => IInv'
<1>1. /\ nvar \in Nat /\ VecA \in Seq(LitsUpTo(nvar)) /\ VecB \in Seq(LitsUpTo(nvar))
      /\ VecA \in Clause /\ VecB \in Clause /\ Len(VecA) = 1 /\ Len(VecB) = 1
  BY Comparing DEF OneBitEach
<1>2. VecA[1] \in LitsUpTo(nvar) /\ VecB[1] \in LitsUpTo(nvar) /\ -VecA[1] \in LitsUpTo(nvar)
  BY <1>1, ShortSequences, LitsNegate
<1> DEFINE S == {<<-VecA[1]>>, <<VecB[1]>>}
           T == {<<-VecA[1], VecB[1]>>}
<1>3. S \in SUBSET Seq(LitsUpTo(nvar)) /\ T \in SUBSET Seq(LitsUpTo(nvar))
  BY <1>2, TupleLits
<1>4. \A v \in Total : /\ AllSatisfied(v, S) <=> ValueOf(v, VecA) < ValueOf(v, VecB)
                       /\ AllSatisfied(v, T) <=> ValueOf(v, VecA) <= ValueOf(v, VecB)
  BY <1>1, OneBitMeans
<1> HIDE DEF S, T
<1>5. ASSUME Become(0, Batch(S)),
             \A v : Means(v, Head(todo)) <=> ValueOf(v, VecA) < ValueOf(v, VecB)
      PROVE  IInv'
  BY <1>3, <1>4, <1>5, BatchKeeps
<1>6. ASSUME Become(0, Batch(T)),
             \A v : Means(v, Head(todo)) <=> ValueOf(v, VecA) <= ValueOf(v, VecB)
      PROVE  IInv'
  BY <1>3, <1>4, <1>6, BatchKeeps
<1> QED  BY <1>5, <1>6 DEF S, T

LEMMA AddLtKeeps ==
  ASSUME IInv, AddLt
  PROVE  IInv'
<1>1. /\ todo # <<>> /\ Head(todo).op = "lt" /\ Head(todo).op \in VectorNames
      /\ IF OneBitEach THEN Become(0, Batch({<<-VecA[1]>>, <<VecB[1]>>})) ELSE Compare(TRUE)
  BY DEF AddLt, On, VectorNames
<1>2. \A v : Means(v, Head(todo)) <=> ValueOf(v, VecA) < ValueOf(v, VecB)
  BY <1>1, Comparing, ComparisonMeanings
<1>3. CASE OneBitEach  BY <1>1, <1>2, <1>3, OneBitKeeps
<1>4. CASE ~OneBitEach
  <2>1. Compare(TRUE)  BY <1>1, <1>4
  <2>2. \A v : Means(v, Head(todo)) <=> IsBelow(TRUE, ValueOf(v, VecA), ValueOf(v, VecB))
    BY <1>2 DEF IsBelow
  <2> QED  BY <1>1, <1>4, <2>1, <2>2, CompareKeeps
<1> QED  BY <1>3, <1>4

LEMMA AddLeKeeps ==
  ASSUME IInv, AddLe
  PROVE  IInv'
<1>1. /\ todo # <<>> /\ Head(todo).op = "le" /\ Head(todo).op \in VectorNames
      /\ IF OneBitEach THEN Become(0, Batch({<<-VecA[1], VecB[1]>>})) ELSE Compare(FALSE)
  BY DEF AddLe, On, VectorNames
<1>2. \A v : Means(v, Head(todo)) <=> ValueOf(v, VecA) <= ValueOf(v, VecB)
  BY <1>1, Comparing, ComparisonMeanings
<1>3. CASE OneBitEach  BY <1>1, <1>2, <1>3, OneBitKeeps
<1>4. CASE ~OneBitEach
  <2>1. Compare(FALSE)  BY <1>1, <1>4
  <2>2. \A v : Means(v, Head(todo)) <=> IsBelow(FALSE, ValueOf(v, VecA), ValueOf(v, VecB))
    BY <1>2 DEF IsBelow
  <2> QED  BY <1>1, <1>4, <2>1, <2>2, CompareKeeps
<1> QED  BY <1>3, <1>4

(* "Greater" with the operands swapped.                                    *)
LEMMA SwappedCall ==
  ASSUME IInv, todo # <<>>, Head(todo).op \in VectorNames, NEW op \in VectorNames
  PROVE  LET c == CallOf(op, VecB \o VecA, <<>>, <<Len(VecB)>>)
         IN  /\ c.op = op /\ c.in = VecB \o VecA /\ c.out = <<>> /\ c.cls = {}
             /\ c \in CallsUpTo(nvar) /\ Good(<<c>>, nvar)
             /\ Lhs(c) = VecB /\ Rhs(c) = VecA
             /\ \A v : AllMean(v, <<c>>) <=> Means(v, c)
<1> DEFINE c == CallOf(op, VecB \o VecA, <<>>, <<Len(VecB)>>)
<1>1. /\ nvar \in Nat /\ VecA \in Seq(LitsUpTo(nvar)) /\ VecB \in Seq(LitsUpTo(nvar))
      /\ Len(VecA) \in Nat /\ Len(VecB) \in Nat /\ Len(VecA) >= 1 /\ Len(VecB) >= 1
  BY Comparing
<1>2. /\ c.op = op /\ c.in = VecB \o VecA /\ c.out = <<>> /\ c.cls = {}
      /\ c.arg = <<Len(VecB)>> /\ c.arg[1] = Len(VecB) /\ Len(c.arg) = 1
  BY DEF CallOf
<1>3. /\ VecB \o VecA \in Seq(LitsUpTo(nvar)) /\ Len(VecB \o VecA) = Len(VecB) + Len(VecA)
  BY <1>1
<1>4. c \in CallsUpTo(nvar)
  <2>1. <<Len(VecB)>> \in Seq(Int)  BY <1>1
  <2>2. op \in CallNames  BY DEF VectorNames, CallNames
  <2> QED  BY <1>3, <2>1, <2>2, TupleLits DEF CallOf, CallsUpTo
<1> HIDE DEF c
<1>5. Shape(c)
  <2>1. c.arg[1] \in 1 .. Len(c.in) - 1  BY <1>1, <1>2, <1>3
  <2> QED  BY <1>2, <2>1 DEF Shape, VectorNames
<1>6. Good(<<c>>, nvar) /\ \A v : AllMean(v, <<c>>) <=> Means(v, c)
  BY <1>4, <1>5 DEF Good, AllMean
<1>7. Lhs(c) = VecB
  <2>1. Lhs(c) = SubSeq(VecB \o VecA, 1, Len(VecB))  BY <1>2 DEF Lhs
  <2> QED  BY <1>1, <1>3, <2>1
<1>8. Rhs(c) = VecA
  <2>1. Rhs(c) = SubSeq(VecB \o VecA, Len(VecB) + 1, Len(VecB) + Len(VecA))
    BY <1>2, <1>3 DEF Rhs
  <2> QED  BY <1>1, <1>3, <2>1
<1> QED  BY <1>2, <1>4, <1>6, <1>7, <1>8 DEF c

LEMMA SwappedKeeps ==
  ASSUME IInv, todo # <<>>, Head(todo).op \in VectorNames, NEW op \in VectorNames,
         Become(0, Swapped(op)),
         \A v, c : /\ c.op = op /\ Lhs(c) = VecB /\ Rhs(c) = VecA
                   => (Means(v, c) <=> Means(v, Head(todo)))
  PROVE  IInv'
<1> DEFINE c == CallOf(op, VecB \o VecA, <<>>, <<Len(VecB)>>)
<1>1. /\ c.op = op /\ Good(<<c>>, nvar) /\ Lhs(c) = VecB /\ Rhs(c) = VecA
      /\ \A v : AllMean(v, <<c>>) <=> Means(v, c)
  BY SwappedCall
<1>2. Become(0, <<c>>)  BY DEF Swapped
<1> HIDE DEF c
<1>3. \A v : Means(v, c) <=> Means(v, Head(todo))  BY <1>1
<1> QED  BY <1>1, <1>2, <1>3, CallKeeps

LEMMA AddGtKeeps ==
  ASSUME IInv, AddGt
  PROVE  IInv'
<1>1. /\ todo # <<>> /\ Head(todo).op = "gt" /\ Head(todo).op \in VectorNames
      /\ Become(0, Swapped("lt")) /\ "lt" \in VectorNames
  BY DEF AddGt, On, VectorNames
<1>2. \A v : Means(v, Head(todo)) <=> ValueOf(v, VecA) > ValueOf(v, VecB)
  BY <1>1, Comparing, ComparisonMeanings
<1>3. \A v : ValueOf(v, VecA) \in Nat /\ ValueOf(v, VecB) \in Nat
  BY <1>1, Comparing, ValueRange
<1>4. ASSUME NEW v, NEW c, c.op = "lt", Lhs(c) = VecB, Rhs(c) = VecA
      PROVE  Means(v, c) <=> Means(v, Head(todo))
  <2>1. Means(v, c) <=> ValueOf(v, VecB) < ValueOf(v, VecA)  BY <1>4, ComparisonMeanings
  <2> QED  BY <1>2, <1>3, <2>1
<1> QED  BY <1>1, <1>4, SwappedKeeps

LEMMA AddGeKeeps ==
  ASSUME IInv, AddGe
  PROVE  IInv'
<1>1. /\ todo # <<>> /\ Head(todo).op = "ge" /\ Head(todo).op \in VectorNames
      /\ Become(0, Swapped("le")) /\ "le" \in VectorNames
  BY DEF AddGe, On, VectorNames
<1>2. \A v : Means(v, Head(todo)) <=> ValueOf(v, VecA) >= ValueOf(v, VecB)
  BY <1>1, Comparing, ComparisonMeanings
<1>3. \A v : ValueOf(v, VecA) \in Nat /\ ValueOf(v, VecB) \in Nat
  BY <1>1, Comparing, ValueRange
<1>4. ASSUME NEW v, NEW c, c.op = "le", Lhs(c) = VecB, Rhs(c) = VecA
      PROVE  Means(v, c) <=> Means(v, Head(todo))
  <2>1. Means(v, c) <=> ValueOf(v, VecB) <= ValueOf(v, VecA)  BY <1>4, ComparisonMeanings
  <2> QED  BY <1>2, <1>3, <2>1
<1> QED  BY <1>1, <1>4, SwappedKeeps

-----------------------------------------------------------------------------
(* Unit propagation.                                                       *)

(* Unit propagation adds what it adds to fewer literals.                   *)
LEMMA ImpliedGrows ==
  ASSUME NEW S, NEW L, NEW M, L \subseteq M
  PROVE  Implied(S, L) \subseteq Implied(S, M)
  BY DEF Implied

LEMMA ImpliedLits ==
  ASSUME NEW D, NEW S \in SUBSET Seq(D), NEW L
  PROVE  Implied(S, L) \subseteq D
<1>1. \A C \in S : \A i \in DOMAIN C : C[i] \in D  OBVIOUS
<1> QED  BY <1>1 DEF Implied

(* The closure of a set of literals: what the recursion of Propagated      *)
(* arrives at.                                                             *)
Closed(S, M) == Implied(S, M) \subseteq M
Closure(S, L) == {l \in Literal : \A M \in SUBSET Literal : L \subseteq M /\ Closed(S, M) => l \in M}
Grown(S, L) == L \cup Implied(S, L)

LEMMA ClosureFacts ==
  ASSUME NEW S \in SUBSET Clause, NEW L \in SUBSET Literal
  PROVE  /\ Grown(S, L) \in SUBSET Literal
         /\ Grown(S, L) = L => Closure(S, L) = L
         /\ Closure(S, Grown(S, L)) = Closure(S, L)
         /\ Closure(S, L) \in SUBSET Literal
<1>1. Grown(S, L) \in SUBSET Literal  BY ImpliedLits DEF Clause, Grown
<1>2. Grown(S, L) = L => Closure(S, L) = L  BY DEF Grown, Closure, Closed
<1>3. \A M \in SUBSET Literal : L \subseteq M /\ Closed(S, M) <=>
                                    Grown(S, L) \subseteq M /\ Closed(S, M)
  BY ImpliedGrows DEF Grown, Closed
<1>4. Closure(S, Grown(S, L)) = Closure(S, L)  BY <1>3 DEF Closure
<1> QED  BY <1>1, <1>2, <1>4 DEF Closure

Fixes(S, f) ==
  f = [L \in SUBSET Literal |->
         LET M == L \cup Implied(S, L) IN IF M = L THEN L ELSE f[M]]

LEMMA FixExists ==
  ASSUME NEW S \in SUBSET Clause
  PROVE  \E f : Fixes(S, f)
<1> DEFINE g == [L \in SUBSET Literal |-> Closure(S, L)]
<1>1. \A L \in SUBSET Literal :
         Closure(S, L) = IF Grown(S, L) = L THEN L ELSE g[Grown(S, L)]
  BY ClosureFacts
<1>2. g = [L \in SUBSET Literal |-> IF Grown(S, L) = L THEN L ELSE g[Grown(S, L)]]
  BY <1>1, Zenon
<1> HIDE DEF g
<1>3. Fixes(S, g)  BY <1>2 DEF Fixes, Grown
<1> QED  BY <1>3

LEMMA PropagatedFix ==
  ASSUME NEW S \in SUBSET Clause
  PROVE  \E f : Fixes(S, f) /\ Propagated(S, {}) = f[Implied(S, {}) \cup {}]
<1> DEFINE f == CHOOSE f : Fixes(S, f)
<1>1. Fixes(S, f)  BY FixExists
<1>2. Propagated(S, {}) = f[Implied(S, {}) \cup {}]
  BY DEF Propagated, Fixes
<1> QED  BY <1>1, <1>2

(* Literals that must be true if those that are known are.                 *)
LEMMA ImpliedTrue ==
  ASSUME NEW n \in Nat, NEW S \in SUBSET Seq(LitsUpTo(n)), NEW v \in Total, AllSatisfied(v, S),
         NEW L, \A l \in L : l \in LitsUpTo(n) /\ True(v, l)
  PROVE  \A l \in Implied(S, L) : l \in LitsUpTo(n) /\ True(v, l)
<1> SUFFICES ASSUME NEW l \in Implied(S, L) PROVE l \in LitsUpTo(n) /\ True(v, l)
  OBVIOUS
<1>1. l \in LitsUpTo(n)  BY ImpliedLits
<1>2. PICK C \in S : \E i \in DOMAIN C : /\ l = C[i]
                                         /\ \A k \in DOMAIN C \ {i} : -C[k] \in L
  BY DEF Implied
<1>3. PICK i \in DOMAIN C : l = C[i] /\ \A k \in DOMAIN C \ {i} : -C[k] \in L
  BY <1>2
<1>4. PICK j \in DOMAIN C : True(v, C[j])  BY DEF AllSatisfied, Satisfied
<1>5. \A k \in DOMAIN C : C[k] \in LitsUpTo(n)
  <2>1. C \in Seq(LitsUpTo(n))  OBVIOUS
  <2> QED  BY <2>1
<1>6. C[j] \in Literal  BY <1>5, LitsNegate
<1>7. ~True(v, -C[j])  BY <1>4, <1>6, TrueNegation
<1>8. j = i  BY <1>3, <1>7
<1> QED  BY <1>1, <1>3, <1>4, <1>8

(* What unit propagation derives from a satisfied set of clauses is true,  *)
(* so it cannot be contradictory.                                          *)
LEMMA PropagationSound ==
  ASSUME NEW n \in Nat, NEW S \in SUBSET Seq(LitsUpTo(n)), NEW v \in Total, AllSatisfied(v, S)
  PROVE  ~Contradictory(S)
<1> DEFINE T == {l \in LitsUpTo(n) : True(v, l)}
<1>1. <<>> \notin S  BY SatisfiedShort DEF AllSatisfied
<1>2. ASSUME NEW L \in SUBSET T PROVE Implied(S, L) \in SUBSET T  BY ImpliedTrue
<1>3. IsFiniteSet(T)
  <2>1. IsFiniteSet((-n) .. n)  BY FS_Interval
  <2> QED  BY <2>1, FS_Subset DEF LitsUpTo
<1>4. T \in SUBSET Literal /\ S \in SUBSET Clause
  BY LitsGrow
<1>5. PICK f : Fixes(S, f) /\ Propagated(S, {}) = f[Implied(S, {}) \cup {}]
  BY <1>4, PropagatedFix
<1>6. \A l \in T : l \in LitsUpTo(n) /\ True(v, l)  OBVIOUS
<1> HIDE DEF T
<1>7. \A L \in SUBSET T : f[L] \in SUBSET T
  <2> DEFINE Bad == {L \in SUBSET T : f[L] \notin SUBSET T}
             Sizes1 == {Cardinality(T \ L) : L \in Bad}
  <2> SUFFICES ASSUME Bad # {} PROVE FALSE  OBVIOUS
  <2>1. \A L \in SUBSET T : IsFiniteSet(T \ L) /\ Cardinality(T \ L) \in Nat
    BY <1>3, FS_Subset, FS_CardinalityType
  <2>2. Sizes1 \in SUBSET Nat /\ Sizes1 # {}  BY <2>1
  <2>3. PICK L \in Bad : \A K \in Bad : Cardinality(T \ L) <= Cardinality(T \ K)
    <3>1. PICK k \in Sizes1 : \A m \in Sizes1 : k <= m
      <4> HIDE DEF Sizes1
      <4> QED  BY <2>2, LeastNumber
    <3>2. PICK L \in Bad : k = Cardinality(T \ L)  OBVIOUS
    <3>3. \A K \in Bad : Cardinality(T \ K) \in Sizes1  OBVIOUS
    <3> HIDE DEF Sizes1, Bad
    <3> QED  BY <3>1, <3>2, <3>3
  <2> DEFINE M == L \cup Implied(S, L)
  <2>4. M \in SUBSET T  BY <1>2
  <2>5. f[L] = IF M = L THEN L ELSE f[M]
    <3>1. L \in SUBSET Literal  BY <1>4
    <3> QED  BY <1>5, <3>1 DEF Fixes
  <2> HIDE DEF M
  <2>6. M # L /\ f[M] \notin SUBSET T  BY <2>5
  <2>7. M \in Bad  BY <2>4, <2>6
  <2>8. L \subseteq M  BY DEF M
  <2>9. PICK x \in M : x \notin L  BY <2>6, <2>8
  <2>10. (T \ M) \subseteq (T \ L) /\ (T \ M) # (T \ L)  BY <2>4, <2>8, <2>9
  <2>11. Cardinality(T \ M) < Cardinality(T \ L)
    <3>1. /\ IsFiniteSet(T \ L) /\ (T \ M) \in SUBSET (T \ L)
          /\ Cardinality(T \ L) \in Nat /\ Cardinality(T \ M) \in Nat
      BY <2>1, <2>4, <2>10
    <3>2. /\ Cardinality(T \ M) <= Cardinality(T \ L)
          /\ Cardinality(T \ L) = Cardinality(T \ M) => (T \ L) = (T \ M)
      BY <3>1, FS_Subset
    <3> QED  BY <2>10, <3>1, <3>2
  <2>12. Cardinality(T \ L) <= Cardinality(T \ M)  BY <2>3, <2>7
  <2>13. Cardinality(T \ L) \in Nat /\ Cardinality(T \ M) \in Nat  BY <2>1, <2>4
  <2> HIDE DEF Bad
  <2> QED  BY <2>11, <2>12, <2>13
<1>8. Propagated(S, {}) \in SUBSET T
  <2>1. Implied(S, {}) \cup {} \in SUBSET T  BY <1>2
  <2> QED  BY <1>5, <1>7, <2>1
<1>9. Consistent(Propagated(S, {}))
  <2> SUFFICES ASSUME NEW l \in T, -l \in T PROVE FALSE  BY <1>8 DEF Consistent
  <2>1. l \in Literal /\ True(v, l) /\ True(v, -l)  BY <1>4, <1>6
  <2> QED  BY <2>1, TrueNegation
<1> QED  BY <1>1, <1>9 DEF Contradictory

-----------------------------------------------------------------------------
(* The client, and add_clause().                                           *)

LEMMA HeadTail ==
  ASSUME NEW n \in Nat, NEW S, Good(S, n), S # <<>>
  PROVE  Head(S) \in CallsUpTo(n) /\ Shape(Head(S)) /\ Good(Tail(S), n)
<1>1. S \in Seq(CallsUpTo(n)) /\ \A i \in 1 .. Len(S) : Shape(S[i])  BY DEF Good
<1>2. /\ Len(S) \in Nat /\ Len(S) >= 1 /\ Head(S) = S[1]
      /\ Tail(S) \in Seq(CallsUpTo(n)) /\ Len(Tail(S)) = Len(S) - 1
      /\ \A i \in 1 .. Len(S) - 1 : Tail(S)[i] = S[i + 1]
  BY <1>1
<1>3. 1 \in 1 .. Len(S) /\ \A i \in 1 .. Len(S) - 1 : i + 1 \in 1 .. Len(S)  BY <1>2
<1>4. Head(S) \in CallsUpTo(n) /\ Shape(Head(S))  BY <1>1, <1>2, <1>3
<1>5. Good(Tail(S), n)  BY <1>1, <1>2, <1>3 DEF Good
<1> QED  BY <1>4, <1>5

(* What the next call of the client is made of.                            *)
LEMMA NextCall ==
  ASSUME IInv, ClientMayCall
  PROVE  /\ nvar \in Nat /\ todo = <<>> /\ ~thrown
         /\ Head(script) \in CallsUpTo(NClient) /\ Head(script) \in CallsUpTo(nvar)
         /\ Shape(Head(script)) /\ Good(Tail(script), NClient)
         /\ Head(script).in \in Seq(LitsUpTo(NClient)) /\ Head(script).in \in Seq(LitsUpTo(nvar))
<1>1. /\ nvar \in Nat /\ NClient \in Nat /\ NClient <= nvar
      /\ Good(script, NClient) /\ script # <<>> /\ todo = <<>> /\ ~thrown
  BY NClientAssumption DEF IInv, CountTypeOK, ScriptOK, ClientMayCall
<1>2. Head(script) \in CallsUpTo(NClient) /\ Shape(Head(script)) /\ Good(Tail(script), NClient)
  BY <1>1, HeadTail
<1>3. Head(script) \in CallsUpTo(nvar)  BY <1>1, <1>2, LitsGrow
<1> QED  BY <1>1, <1>2, <1>3 DEF CallsUpTo

LEMMA SetConditionalLiteralsKeeps ==
  ASSUME IInv, SetConditionalLiterals
  PROVE  IInv'
<1>1. /\ cond' = Head(script).in /\ script' = Tail(script)
      /\ UNCHANGED <<nvar, clauses, sane, thrown, todo, asked>> /\ ClientMayCall
  BY DEF SetConditionalLiterals
<1>2. /\ todo = <<>> /\ Good(Tail(script), NClient)
      /\ Head(script).in \in Seq(LitsUpTo(NClient)) /\ Head(script).in \in Seq(LitsUpTo(nvar))
  BY <1>1, NextCall
<1>3. CountTypeOK'  BY <1>1, <1>2 DEF IInv, CountTypeOK
<1>4. ScriptOK'  BY <1>1, <1>2 DEF IInv, ScriptOK
<1>5. \A v : AllMean(v, todo)  BY <1>2 DEF AllMean
<1>6. Faithful'
  <2> SUFFICES ASSUME ~thrown, NEW v \in Total, AllSatisfied(v, clauses)
               PROVE  Answers(v)
    BY <1>1 DEF Faithful, Fulfils, Answers
  <2> QED  BY <1>5 DEF IInv, Faithful, Fulfils
<1>7. Complete'
  <2> SUFFICES ASSUME ~thrown, NEW v \in Total, Answers(v)
               PROVE  \E w \in Total : /\ Agree(v, w, NClient) /\ AllSatisfied(w, clauses)
                                       /\ AllTrue(w, cond') => AllMean(w, todo)
    BY <1>1 DEF Complete, Fulfils, Answers
  <2> QED  BY <1>5 DEF IInv, Complete, Fulfils
<1>8. Hopeless'  BY <1>1 DEF IInv, Hopeless, Answers
<1>9. Quiet'  BY <1>1, <1>2 DEF Quiet
<1> QED  BY <1>3, <1>4, <1>6, <1>7, <1>8, <1>9 DEF IInv

LEMMA AskKeeps ==
  ASSUME IInv, Ask
  PROVE  IInv'
<1> DEFINE c == Head(script)
           r == [cond |-> cond, call |-> c]
           R(n) == [cond : Seq(LitsUpTo(n)), call : CallsUpTo(n)]
<1>1. /\ todo' = <<c>> /\ script' = Tail(script) /\ asked' = Append(asked, r)
      /\ UNCHANGED <<nvar, cond, clauses, sane, thrown>> /\ ClientMayCall
  BY DEF Ask
<1>2. /\ nvar \in Nat /\ todo = <<>> /\ ~thrown /\ Shape(c) /\ Good(Tail(script), NClient)
      /\ c \in CallsUpTo(NClient) /\ c \in CallsUpTo(nvar)
  BY <1>1, NextCall
<1>3. /\ cond \in Seq(LitsUpTo(nvar)) /\ asked \in Seq(R(nvar))
      /\ cond \in Seq(LitsUpTo(NClient)) /\ asked \in Seq(R(NClient))
  BY DEF IInv, CountTypeOK, ScriptOK
<1>4. r \in R(nvar) /\ r \in R(NClient) /\ r.cond = cond /\ r.call = c  BY <1>2, <1>3
<1> HIDE DEF c, r, R
<1>5. /\ asked' \in Seq(R(nvar)) /\ Len(asked) \in Nat /\ Len(asked') = Len(asked) + 1
      /\ asked'[Len(asked) + 1] = r
      /\ \A i \in 1 .. Len(asked) : asked'[i] = asked[i]
  BY <1>1, <1>3, <1>4
<1>6. \A i \in 1 .. Len(asked) + 1 : i \in 1 .. Len(asked) \/ i = Len(asked) + 1
  BY <1>5
<1>7. Good(<<c>>, nvar) /\ \A v : AllMean(v, <<c>>) <=> Means(v, c)
  <2>1. Len(<<c>>) = 1 /\ <<c>>[1] = c /\ <<c>> \in Seq(CallsUpTo(nvar))  BY <1>2
  <2> QED  BY <1>2, <2>1 DEF Good, AllMean
<1>8. CountTypeOK'
  <2>1. asked' \in Seq([cond : Seq(LitsUpTo(nvar')), call : CallsUpTo(nvar')])
    BY <1>1, <1>5 DEF R
  <2>2. todo' \in Seq(CallsUpTo(nvar')) /\ \A i \in 1 .. Len(todo') : Shape(todo'[i])
    BY <1>1, <1>7 DEF Good
  <2> QED  BY <1>1, <2>1, <2>2 DEF IInv, CountTypeOK
<1>9. ScriptOK'
  <2>1. \A i \in 1 .. Len(asked) : Shape(asked[i].call)  BY DEF IInv, ScriptOK
  <2>2. \A i \in 1 .. Len(asked) + 1 : Shape(asked'[i].call)
    BY <1>2, <1>4, <1>5, <1>6, <2>1
  <2>3. asked' \in Seq(R(NClient))  BY <1>1, <1>3, <1>4
  <2>4. asked' \in Seq([cond : Seq(LitsUpTo(NClient)), call : CallsUpTo(NClient)])  BY <2>3 DEF R
  <2> QED  BY <1>1, <1>2, <1>3, <1>5, <2>2, <2>4 DEF ScriptOK
<1>10. \A v : (\A i \in 1 .. Len(asked') : Promised(v, asked'[i])) <=> Answers(v) /\ Promised(v, r)
  <2>1. \A i \in 1 .. Len(asked) : i \in 1 .. Len(asked')  BY <1>5
  <2>2. Len(asked) + 1 \in 1 .. Len(asked')  BY <1>5
  <2> QED  BY <1>5, <1>6, <2>1, <2>2 DEF Answers
<1>11. \A v : AllMean(v, todo)  BY <1>2 DEF AllMean
<1>12. Faithful'
  <2> SUFFICES ASSUME NEW v \in Total, AllSatisfied(v, clauses), AllTrue(v, cond) => AllMean(v, <<c>>)
               PROVE  \A i \in 1 .. Len(asked') : Promised(v, asked'[i])
    BY <1>1 DEF Faithful, Fulfils, Answers
  <2>1. Answers(v)  BY <1>2, <1>11 DEF IInv, Faithful, Fulfils
  <2>2. Promised(v, r)  BY <1>4, <1>7 DEF Promised
  <2> QED  BY <1>10, <2>1, <2>2
<1>13. Complete'
  <2> SUFFICES ASSUME NEW v \in Total, \A i \in 1 .. Len(asked') : Promised(v, asked'[i])
               PROVE  \E w \in Total : /\ Agree(v, w, NClient) /\ AllSatisfied(w, clauses)
                                       /\ AllTrue(w, cond) => AllMean(w, <<c>>)
    BY <1>1 DEF Complete, Fulfils, Answers
  <2>1. Answers(v) /\ Promised(v, r)  BY <1>10
  <2>2. PICK w \in Total : Agree(v, w, NClient) /\ AllSatisfied(w, clauses)
    BY <1>2, <2>1 DEF IInv, Complete, Fulfils
  <2>3. Promised(w, r)
    <3>1. r \in [cond : Seq(LitsUpTo(NClient)), call : CallsUpTo(NClient)] /\ Shape(r.call)
      BY <1>2, <1>4 DEF R
    <3> QED  BY <2>1, <2>2, <3>1, NClientAssumption, SamePromise
  <2>4. AllTrue(w, cond) => AllMean(w, <<c>>)  BY <1>4, <1>7, <2>3 DEF Promised
  <2> QED  BY <2>2, <2>4
<1>14. Hopeless'  BY <1>1, <1>2 DEF IInv, Hopeless
<1>15. Quiet'  BY <1>1, <1>2 DEF Quiet
<1> QED  BY <1>8, <1>9, <1>12, <1>13, <1>14, <1>15 DEF IInv

(* A clause is guarded by the conditions: if they are satisfied it says    *)
(* what the caller wrote, otherwise nothing.                               *)
LEMMA GuardedClause ==
  ASSUME NEW n \in Nat, NEW s \in Seq(LitsUpTo(n)), NEW C \in Seq(LitsUpTo(n))
  PROVE  /\ Negated(s) \o C \in Seq(LitsUpTo(n))
         /\ \A v \in Total : Satisfied(v, Negated(s) \o C) <=> (AllTrue(v, s) => Satisfied(v, C))
<1>1. s \in Clause /\ C \in Clause /\ DOMAIN s = 1 .. Len(s)  BY LitsGrow
<1>2. Negated(s) \in Seq(LitsUpTo(n))
  <2>1. \A i \in 1 .. Len(s) : -s[i] \in LitsUpTo(n)  BY LitsNegate
  <2>2. Len(s) \in Nat  OBVIOUS
  <2> QED  BY <1>1, <2>1, <2>2 DEF Negated
<1>3. Negated(s) \o C \in Seq(LitsUpTo(n))  BY <1>2
<1>4. ASSUME NEW v \in Total
      PROVE  Satisfied(v, Negated(s) \o C) <=> (AllTrue(v, s) => Satisfied(v, C))
  <2>1. Negated(s) \in Clause /\ (Satisfied(v, Negated(s)) <=>
            ~(\A i \in 1 .. Len(s) : True(v, s[i])))
    BY <1>1, SatisfiedNegated
  <2>2. Satisfied(v, Negated(s)) <=> ~AllTrue(v, s)  BY <1>1, <2>1 DEF AllTrue
  <2>3. Satisfied(v, Negated(s) \o C) <=> Satisfied(v, Negated(s)) \/ Satisfied(v, C)
    BY <1>1, <2>1, SatisfiedConcat
  <2> QED  BY <2>2, <2>3
<1> QED  BY <1>3, <1>4

LEMMA AddClauseKeeps ==
  ASSUME IInv, AddClause
  PROVE  IInv'
<1> DEFINE batch == Head(todo).cls
           C == CHOOSE D \in batch : TRUE
           rest == Batch(batch \ {C})
<1>1. /\ todo # <<>> /\ Head(todo).op = "clauses"
      /\ clauses' = clauses \cup {Negated(cond) \o C}
      /\ thrown' = ~sane
      /\ todo' = IF sane THEN rest \o Tail(todo) ELSE <<>>
      /\ sane' = (sane /\ ~Contradictory(clauses'))
      /\ UNCHANGED <<nvar, cond, script, asked>>
  BY DEF AddClause, On
<1>2. /\ nvar \in Nat /\ Head(todo) \in CallsUpTo(nvar) /\ Shape(Head(todo)) /\ Good(Tail(todo), nvar)
      /\ \A v : AllMean(v, todo) <=> Means(v, Head(todo)) /\ AllMean(v, Tail(todo))
  BY <1>1, Running
<1>3. batch \in SUBSET Seq(LitsUpTo(nvar)) /\ batch # {}
  <2>1. batch \in SUBSET Seq(LitsUpTo(nvar))  BY <1>2 DEF CallsUpTo
  <2>2. batch # {}  BY <1>1, <1>2 DEF Shape, VectorNames
  <2> QED  BY <2>1, <2>2
<1>4. \A v : Means(v, Head(todo)) <=> AllSatisfied(v, batch)  BY <1>1 DEF Means, VectorNames
<1> HIDE DEF batch
<1>5. C \in batch  BY <1>3
<1> HIDE DEF C
<1>6. cond \in Seq(LitsUpTo(nvar)) /\ clauses \subseteq Seq(LitsUpTo(nvar))
  BY DEF IInv, CountTypeOK
<1>7. /\ Negated(cond) \o C \in Seq(LitsUpTo(nvar))
      /\ \A v \in Total : Satisfied(v, Negated(cond) \o C) <=> (AllTrue(v, cond) => Satisfied(v, C))
  BY <1>2, <1>3, <1>5, <1>6, GuardedClause
<1>8. Good(rest, nvar) /\ \A v : AllMean(v, rest) <=> AllSatisfied(v, batch \ {C})
  BY <1>2, <1>3, BatchMeans
<1> HIDE DEF rest
<1>9. /\ Good(rest \o Tail(todo), nvar)
      /\ \A v : AllMean(v, rest \o Tail(todo)) <=> AllMean(v, rest) /\ AllMean(v, Tail(todo))
  BY <1>2, <1>8, Concat
<1>10. Good(todo', nvar)
  <2>1. CASE sane  BY <1>1, <1>9, <2>1
  <2>2. CASE ~sane
    <3>1. todo' = <<>>  BY <1>1, <2>2
    <3> QED  BY <1>2, <3>1, Nothing
  <2> QED  BY <2>1, <2>2
<1>11. sane' \in BOOLEAN /\ thrown' \in BOOLEAN
  <2>1. sane \in BOOLEAN  BY DEF IInv, CountTypeOK
  <2> QED  BY <1>1, <2>1
<1>12. CountTypeOK'
  <2>1. clauses' \subseteq Seq(LitsUpTo(nvar'))  BY <1>1, <1>6, <1>7
  <2>2. todo' \in Seq(CallsUpTo(nvar')) /\ \A i \in 1 .. Len(todo') : Shape(todo'[i])
    BY <1>1, <1>10 DEF Good
  <2>3. asked' \in Seq([cond : Seq(LitsUpTo(nvar')), call : CallsUpTo(nvar')])
    BY <1>1 DEF IInv, CountTypeOK
  <2>4. nvar' \in Nat /\ nvar' >= NClient /\ cond' \in Seq(LitsUpTo(nvar'))
    BY <1>1 DEF IInv, CountTypeOK
  <2> QED  BY <1>11, <2>1, <2>2, <2>3, <2>4 DEF CountTypeOK
<1>13. ScriptOK'  BY <1>1 DEF IInv, ScriptOK
<1>14. ASSUME NEW v \in Total
       PROVE  AllSatisfied(v, clauses') <=>
                AllSatisfied(v, clauses) /\ (AllTrue(v, cond) => Satisfied(v, C))
  <2>1. AllSatisfied(v, clauses') <=> AllSatisfied(v, clauses) /\ Satisfied(v, Negated(cond) \o C)
    BY <1>1 DEF AllSatisfied
  <2> QED  BY <1>7, <2>1
<1>15. ASSUME NEW v \in Total
       PROVE  AllMean(v, todo) <=> Satisfied(v, C) /\ AllMean(v, rest \o Tail(todo))
  <2>1. AllSatisfied(v, batch) <=> Satisfied(v, C) /\ AllSatisfied(v, batch \ {C})
    BY <1>5 DEF AllSatisfied
  <2> QED  BY <1>2, <1>4, <1>8, <1>9, <2>1
<1>16. ~thrown  BY <1>1 DEF IInv, Quiet
<1>17. Faithful'
  <2> SUFFICES ASSUME ~thrown', NEW v \in Total, AllSatisfied(v, clauses'),
                      AllTrue(v, cond) => AllMean(v, todo')
               PROVE  Answers(v)
    BY <1>1 DEF Faithful, Fulfils, Answers
  <2>1. todo' = rest \o Tail(todo)  BY <1>1
  <2>2. Fulfils(v)  BY <1>14, <1>15, <2>1 DEF Fulfils
  <2> QED  BY <1>16, <2>2 DEF IInv, Faithful
<1>18. Complete'
  <2> SUFFICES ASSUME ~thrown', NEW v \in Total, Answers(v)
               PROVE  \E w \in Total : /\ Agree(v, w, NClient) /\ AllSatisfied(w, clauses')
                                       /\ AllTrue(w, cond) => AllMean(w, todo')
    BY <1>1 DEF Complete, Fulfils, Answers
  <2>1. todo' = rest \o Tail(todo)  BY <1>1
  <2>2. PICK w \in Total : Agree(v, w, NClient) /\ Fulfils(w)  BY <1>16 DEF IInv, Complete
  <2> QED  BY <1>14, <1>15, <2>1, <2>2 DEF Fulfils
<1>19. ASSUME ~sane', NEW v \in Total PROVE ~AllSatisfied(v, clauses')
  <2>1. CASE ~sane  BY <1>14, <2>1 DEF IInv, Hopeless
  <2>2. CASE sane
    <3>1. Contradictory(clauses')  BY <1>1, <1>19, <2>2
    <3>2. clauses' \in SUBSET Seq(LitsUpTo(nvar))  BY <1>1, <1>6, <1>7
    <3> QED  BY <1>2, <3>1, <3>2, PropagationSound
  <2> QED  BY <2>1, <2>2
<1>20. ASSUME thrown', NEW v \in Total PROVE ~Answers(v)
  <2>1. ~sane  BY <1>1, <1>20
  <2>2. \A w \in Total : ~Fulfils(w)  BY <2>1 DEF IInv, Hopeless, Fulfils
  <2> QED  BY <1>16, <2>2 DEF IInv, Complete
<1>21. Hopeless'
  <2>1. \A v : Answers(v)' <=> Answers(v)  BY <1>1 DEF Answers
  <2> QED  BY <1>19, <1>20, <2>1 DEF Hopeless
<1>22. Quiet'  BY <1>1 DEF Quiet
<1> QED  BY <1>12, <1>13, <1>17, <1>18, <1>21, <1>22 DEF IInv

-----------------------------------------------------------------------------
LEMMA CountInitOK == CountInit => IInv
<1> SUFFICES ASSUME CountInit PROVE IInv  OBVIOUS
<1>1. /\ nvar = NClient /\ NClient \in Nat /\ cond = <<>> /\ clauses = {} /\ sane = TRUE
      /\ thrown = FALSE /\ todo = <<>> /\ script \in Sessions /\ asked = <<>>
  BY NClientAssumption DEF CountInit
<1>2. ScriptOK
  <2>1. Good(script, NClient)  BY <1>1, SessionsAssumption DEF Good
  <2> QED  BY <1>1, <2>1 DEF ScriptOK
<1>3. CountTypeOK
  <2>1. nvar \in Nat /\ nvar >= NClient
    <3>1. nvar = NClient /\ NClient \in Nat  BY <1>1
    <3> QED  BY <3>1
  <2>5. sane \in BOOLEAN /\ thrown \in BOOLEAN
    <3>1. sane = TRUE /\ thrown = FALSE  BY <1>1
    <3> QED  BY <3>1
  <2>2. cond \in Seq(LitsUpTo(nvar)) /\ clauses \subseteq Seq(LitsUpTo(nvar))  BY <1>1
  <2>3. todo \in Seq(CallsUpTo(nvar)) /\ \A i \in 1 .. Len(todo) : Shape(todo[i])  BY <1>1
  <2>4. asked \in Seq([cond : Seq(LitsUpTo(nvar)), call : CallsUpTo(nvar)])  BY <1>1
  <2> QED  BY <2>1, <2>2, <2>3, <2>4, <2>5 DEF CountTypeOK
<1>4. Quiet  BY <1>1 DEF Quiet
<1>5. Faithful  BY <1>1 DEF Faithful, Answers
<1>6. Complete
  <2> SUFFICES ASSUME NEW v \in Total PROVE Agree(v, v, NClient) /\ Fulfils(v)
    BY DEF Complete
  <2> QED  BY <1>1 DEF Agree, Fulfils, AllSatisfied, AllMean
<1>7. Hopeless  BY <1>1 DEF Hopeless
<1> QED  BY <1>2, <1>3, <1>4, <1>5, <1>6, <1>7 DEF IInv

LEMMA CountStepOK == IInv /\ [CountNext]_countVars => IInv'
<1> SUFFICES ASSUME IInv, [CountNext]_countVars PROVE IInv'  OBVIOUS
<1>1. CASE CountStep
  BY SetConditionalLiteralsKeeps, AskKeeps, AddClauseKeeps, AddClauseCallKeeps,
     AddBuffgateKeeps, AddNotgateKeeps, AddAndgateKeeps, AddNandgateKeeps,
     AddOrgateKeeps, AddNorgateKeeps, AddXorgateKeeps, AddXnorgateKeeps,
     AddHalfAdderKeeps, AddFullAdderKeeps, AtLeastOneKeeps, AtMostOneArgsKeeps,
     AtMostTwoArgsKeeps, AtLeastTwoArgsKeeps, ExactOneArgsKeeps, ExactTwoArgsKeeps,
     NotOneKeeps, AtMostOneKeeps, ExactOneKeeps, CountOneKeeps, AtMostTwoKeeps,
     ExactTwoKeeps, CountTwoKeeps, AtLeastTwoKeeps, CountUpToTwoKeeps,
     AddEqKeeps, AddNeKeeps, AddLtKeeps, AddLeKeeps, AddGtKeeps, AddGeKeeps,
     <1>1 DEF CountStep
<1>2. CASE UNCHANGED countVars
  <2>1. UNCHANGED <<nvar, cond, clauses, sane, thrown, todo, script, asked>>  BY <1>2 DEF countVars
  <2>2. CountTypeOK'  BY <2>1 DEF IInv, CountTypeOK
  <2>3. ScriptOK' /\ Quiet'  BY <2>1 DEF IInv, ScriptOK, Quiet
  <2>4. Faithful'  BY <2>1 DEF IInv, Faithful, Fulfils, Answers
  <2>5. Complete'  BY <2>1 DEF IInv, Complete, Fulfils, Answers
  <2>6. Hopeless'  BY <2>1 DEF IInv, Hopeless, Answers
  <2> QED  BY <2>2, <2>3, <2>4, <2>5, <2>6 DEF IInv
<1> QED  BY <1>1, <1>2 DEF CountNext, ClientDone

LEMMA CountInvariant == CountSpec => []IInv
  BY CountInitOK, CountStepOK, PTL DEF CountSpec

(* Every literal that the encoders hand to add_clause() is of a variable   *)
(* that new_variable() has returned, and every function is called with as  *)
(* many literals as it asserts, for any lists of literals the client       *)
(* passes and however deep the halving goes (SatSolver_count.cc).          *)
THEOREM CountTypeCorrect == CountSpec => []CountTypeOK
<1>1. IInv => CountTypeOK  BY DEF IInv
<1> QED  BY <1>1, CountInvariant, PTL

-----------------------------------------------------------------------------
(* Values for the variables up to n, extended to all.                      *)
LEMMA Extension ==
  ASSUME NEW n \in Nat, NEW v \in [1 .. n -> BOOLEAN]
  PROVE  \E w \in Total : Agree(v, w, n)
<1> DEFINE w == [k \in Nat |-> IF k \in 1 .. n THEN v[k] ELSE FALSE]
<1>1. \A k \in Nat : (IF k \in 1 .. n THEN v[k] ELSE FALSE) \in BOOLEAN  OBVIOUS
<1>2. \A k \in 1 .. n : k \in Nat  OBVIOUS
<1>3. w \in Total /\ Agree(v, w, n)  BY <1>1, <1>2 DEF Total, Agree
<1> QED  BY <1>3

LEMMA AskedOK ==
  ASSUME IInv, NEW i \in DOMAIN asked
  PROVE  /\ i \in 1 .. Len(asked) /\ Shape(asked[i].call) /\ NClient \in Nat
         /\ asked[i] \in [cond : Seq(LitsUpTo(NClient)), call : CallsUpTo(NClient)]
<1> DEFINE R == [cond : Seq(LitsUpTo(NClient)), call : CallsUpTo(NClient)]
<1>1. asked \in Seq(R) /\ \A j \in 1 .. Len(asked) : Shape(asked[j].call)
  BY DEF IInv, ScriptOK
<1> HIDE DEF R
<1>2. i \in 1 .. Len(asked) /\ asked[i] \in R  BY <1>1
<1> QED  BY <1>1, <1>2, NClientAssumption DEF R

(* Whatever gates, cardinality constraints and comparisons of whatever     *)
(* size a client asks for, under whatever conditions, every model of the   *)
(* clauses keeps what SatSolver.h promises of each of them, although the   *)
(* encodings share and chain auxiliary variables (SatSolver.h,             *)
(* SatSolver_count.cc, SatSolver_bv.cc).                                   *)
THEOREM CountSound == CountSpec => []Sound
<1>1. IInv => Sound
  <2> SUFFICES ASSUME IInv, todo = <<>>, ~thrown, NEW v \in [1 .. nvar -> BOOLEAN],
                      AllSatisfied(v, clauses), NEW i \in DOMAIN asked
               PROVE  Promised(v, asked[i])
    BY DEF Sound, Quiescent
  <2>1. /\ nvar \in Nat /\ NClient \in Nat /\ NClient <= nvar
        /\ clauses \in SUBSET Seq(LitsUpTo(nvar))
    BY NClientAssumption DEF IInv, CountTypeOK
  <2>2. PICK w \in Total : Agree(v, w, nvar)  BY <2>1, Extension
  <2>3. Fulfils(w)
    <3>1. AllSatisfied(w, clauses)  BY <2>1, <2>2, SameClauses
    <3>2. AllMean(w, todo)  BY DEF AllMean
    <3> QED  BY <3>1, <3>2 DEF Fulfils
  <2>4. Promised(w, asked[i])  BY <2>3, AskedOK DEF IInv, Faithful, Answers
  <2>5. Agree(v, w, NClient)
    <3>1. \A x \in 1 .. NClient : x \in 1 .. nvar  BY <2>1
    <3> QED  BY <2>2, <3>1 DEF Agree
  <2> QED  BY <2>4, <2>5, AskedOK, SamePromise
<1> QED  BY <1>1, CountInvariant, PTL

(* And no solution is lost: values of the client's variables that do       *)
(* everything that was asked for are part of a model of the clauses, so    *)
(* that the engine may well find them, and add_clause() throws only if     *)
(* there are none, although it throws in the middle of an encoding and on  *)
(* the word of unit propagation alone (SatSolver.h, SatSolver_count.cc).   *)
THEOREM CountLosesNothing == CountSpec => []NothingLost
<1>1. IInv => NothingLost
  <2> DEFINE z(v, S) == [x \in 1 .. nvar |-> IF x <= NClient THEN v[x] ELSE x \in S]
  <2> SUFFICES ASSUME IInv, NEW v \in [1 .. NClient -> BOOLEAN],
                      \A i \in DOMAIN asked : Promised(v, asked[i])
               PROVE  /\ ~thrown
                      /\ \E S \in SUBSET (NClient + 1 .. nvar) : AllSatisfied(z(v, S), clauses)
    BY DEF NothingLost, Keeps
  <2>1. /\ nvar \in Nat /\ NClient \in Nat /\ NClient <= nvar
        /\ clauses \in SUBSET Seq(LitsUpTo(nvar))
    BY NClientAssumption DEF IInv, CountTypeOK
  <2>2. PICK u \in Total : Agree(v, u, NClient)  BY <2>1, Extension
  <2>3. Answers(u)
    <3> SUFFICES ASSUME NEW i \in 1 .. Len(asked) PROVE Promised(u, asked[i])  BY DEF Answers
    <3>1. i \in DOMAIN asked  BY DEF IInv, ScriptOK
    <3> QED  BY <2>2, <3>1, AskedOK, SamePromise
  <2>4. ~thrown  BY <2>3 DEF IInv, Hopeless
  <2>5. PICK w \in Total : Agree(u, w, NClient) /\ AllSatisfied(w, clauses)
    BY <2>3, <2>4 DEF IInv, Complete, Fulfils
  <2> DEFINE S == {x \in NClient + 1 .. nvar : w[x]}
  <2>6. Agree(w, z(v, S), nvar)
    <3> SUFFICES ASSUME NEW x \in 1 .. nvar PROVE z(v, S)[x] = w[x]  BY DEF Agree
    <3>1. CASE x <= NClient
      <4>1. x \in 1 .. NClient  BY <2>1, <3>1
      <4>2. w[x] = v[x]  BY <2>2, <2>5, <4>1 DEF Agree
      <4> QED  BY <3>1, <4>2
    <3>2. CASE ~(x <= NClient)
      <4>1. x \in NClient + 1 .. nvar /\ x \in Nat  BY <2>1, <3>2
      <4>2. w[x] \in BOOLEAN  BY <4>1 DEF Total
      <4>3. (x \in S) = w[x]  BY <4>1, <4>2
      <4> QED  BY <3>2, <4>3
    <3> QED  BY <3>1, <3>2
  <2>7. AllSatisfied(z(v, S), clauses)  BY <2>1, <2>5, <2>6, SameClauses
  <2> QED  BY <2>4, <2>7
<1> QED  BY <1>1, CountInvariant, PTL
=============================================================================
