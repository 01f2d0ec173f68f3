-------------------------- MODULE CountExactProofs --------------------------
(***************************************************************************)
(* The encodings of gates, of the counts of one and two and of comparisons *)
(* of two vectors are exact, for every list of literals and any            *)
(* conditional literals: unit propagation alone tells the values that keep *)
(* the promises from those that break them, and leaves no clause waiting.  *)
(*                                                                         *)
(* No solution is lost, so values that keep the promises never lead to a   *)
(* conflict.  The other direction needs that propagation decides every     *)
(* auxiliary variable: each is the output of a gate, whose clauses decide  *)
(* it from the inputs.  As the calls are still being made when a variable  *)
(* appears, the invariant speaks of any set P of literals that obeys the   *)
(* clauses and the calls to come (a call is obeyed when the outputs are    *)
(* decided as soon as the inputs are), and says that P then decides all    *)
(* the literals of the clauses and of those calls.  A P without conflict   *)
(* is then an assignment that satisfies the clauses, and the encoders are  *)
(* sound.  Last, what the model computes by propagating round after round  *)
(* is such a P, the least one that contains the client's values.           *)
(***************************************************************************)
EXTENDS CountEncoderProofs

-----------------------------------------------------------------------------
(* What unit propagation decides.  P is a set of literals it has arrived   *)
(* at; it obeys a clause when it has drawn the conclusion from it, and a   *)
(* call when the outputs are decided as soon as the inputs are.            *)
Partial == {P \in SUBSET Literal : Consistent(P)}
Decided(P) == P \cup {-l : l \in P}
Holds(P, s) == \A i \in DOMAIN s : s[i] \in P

Obeyed(P, C) ==
  C # <<>> /\ \A i \in DOMAIN C : (\A k \in DOMAIN C \ {i} : -C[k] \in P) => C[i] \in P
Met(P, C) == \E i \in DOMAIN C : C[i] \in P

GateNames ==
  {"buff", "not", "and", "nand", "or", "nor", "xor", "xnor", "half_adder", "full_adder",
   "count_one", "count_two", "count_up_to_two"}

Obeys(P, c) ==
  /\ c.op = "clauses" => \A C \in c.cls : Obeyed(P, C)
  /\ c.op \in GateNames /\ c.in \in Seq(Decided(P)) => c.out \in Seq(Decided(P))
Settles(P, c) ==
  /\ c.in \in Seq(Decided(P)) /\ c.out \in Seq(Decided(P))
  /\ c.op = "clauses" => c.cls \subseteq Seq(Decided(P))

ObeysAll(P, S) == \A i \in 1 .. Len(S) : Obeys(P, S[i])
SettlesAll(P, S) == \A i \in 1 .. Len(S) : Settles(P, S[i])

(* P has drawn all conclusions and decided all the client has named.       *)
Finished(P) ==
  /\ \A C \in clauses : Obeyed(P, C)
  /\ \A i \in 1 .. Len(asked) :
       asked[i].cond \in Seq(Decided(P)) /\ Settles(P, asked[i].call)

(* Then it has decided everything, and no clause is left waiting.          *)
Settled ==
  ~thrown =>
    \A P \in Partial : Finished(P) /\ (Holds(P, cond) => ObeysAll(P, todo)) =>
      /\ \A C \in clauses : Met(P, C)
      /\ Holds(P, cond) => SettlesAll(P, todo)

(* The running call was made under the conditions that hold now.           *)
CondAsked == todo # <<>> => asked # <<>> /\ asked[Len(asked)].cond = cond

SInv == Settled /\ CondAsked

-----------------------------------------------------------------------------
(* What is decided is closed under negation; one of each pair is in P.     *)
LEMMA DecidedFacts ==
  ASSUME NEW P \in Partial
  PROVE  /\ Mirrored(Decided(P)) /\ Decided(P) \in SUBSET Literal
         /\ \A l \in Decided(P) : l \in Literal /\ -l \in Literal /\ -(-l) = l
         /\ \A l \in Literal : l \in Decided(P) <=> l \in P \/ -l \in P
         /\ \A l \in P : l \in Decided(P) /\ l \in Literal /\ ~(-l \in P)
<1>1. P \in SUBSET Literal /\ Consistent(P)  BY DEF Partial
<1>2. \A l \in Literal : l \in Int /\ -l \in Literal /\ -(-l) = l  BY DEF Literal
<1>3. \A l \in Literal : l \in Decided(P) <=> l \in P \/ -l \in P  BY <1>1, <1>2 DEF Decided
<1>4. Decided(P) \in SUBSET Literal  BY <1>1, <1>2 DEF Decided
<1>5. Mirrored(Decided(P))  BY <1>2, <1>3, <1>4 DEF Mirrored
<1> QED  BY <1>1, <1>2, <1>3, <1>4, <1>5 DEF Consistent

ASeq(S) == \E U : S \in Seq(U)

(* One list of calls after another.                                        *)
LEMMA ConcatSettles ==
  ASSUME NEW S, NEW T, ASeq(S), ASeq(T)
  PROVE  /\ ASeq(S \o T)
         /\ \A P : /\ ObeysAll(P, S \o T) <=> ObeysAll(P, S) /\ ObeysAll(P, T)
                   /\ SettlesAll(P, S \o T) <=> SettlesAll(P, S) /\ SettlesAll(P, T)
<1>1. PICK A : S \in Seq(A)  BY DEF ASeq
<1>2. PICK B : T \in Seq(B)  BY DEF ASeq
<1>3. S \in Seq(A \cup B) /\ T \in Seq(A \cup B)
  <2>1. A \subseteq A \cup B /\ B \subseteq A \cup B  OBVIOUS
  <2> QED  BY <1>1, <1>2, <2>1, SeqGrows
<1>4. /\ S \o T \in Seq(A \cup B)
      /\ Len(S) \in Nat /\ Len(T) \in Nat /\ Len(S \o T) = Len(S) + Len(T)
      /\ \A i \in 1 .. Len(S) : (S \o T)[i] = S[i]
      /\ \A i \in 1 .. Len(T) : (S \o T)[Len(S) + i] = T[i]
  BY <1>3
<1>5. \A k \in 1 .. Len(S) + Len(T) :
        \/ k \in 1 .. Len(S) /\ (S \o T)[k] = S[k]
        \/ k - Len(S) \in 1 .. Len(T) /\ (S \o T)[k] = T[k - Len(S)]
  <2>1. \A k \in 1 .. Len(S) + Len(T) :
          k \in 1 .. Len(S) \/ (k - Len(S) \in 1 .. Len(T) /\ Len(S) + (k - Len(S)) = k)
    BY <1>4
  <2> QED  BY <1>4, <2>1
<1>6. \A i \in 1 .. Len(S) : i \in 1 .. Len(S) + Len(T)  BY <1>4
<1>7. \A i \in 1 .. Len(T) : Len(S) + i \in 1 .. Len(S) + Len(T)  BY <1>4
<1>8. ASSUME NEW P PROVE ObeysAll(P, S \o T) <=> ObeysAll(P, S) /\ ObeysAll(P, T)
  BY <1>4, <1>5, <1>6, <1>7 DEF ObeysAll
<1>9. ASSUME NEW P PROVE SettlesAll(P, S \o T) <=> SettlesAll(P, S) /\ SettlesAll(P, T)
  BY <1>4, <1>5, <1>6, <1>7 DEF SettlesAll
<1>10. ASeq(S \o T)  BY <1>4 DEF ASeq
<1> QED  BY <1>8, <1>9, <1>10

(* Lists of one to four calls.                                             *)
LEMMA ListSettles ==
  /\ ASeq(<<>>) /\ \A P : ObeysAll(P, <<>>) /\ SettlesAll(P, <<>>)
  /\ \A a : /\ ASeq(<<a>>)
            /\ \A P : /\ ObeysAll(P, <<a>>) <=> Obeys(P, a)
                      /\ SettlesAll(P, <<a>>) <=> Settles(P, a)
  /\ \A a, b : /\ ASeq(<<a, b>>)
               /\ \A P : /\ ObeysAll(P, <<a, b>>) <=> Obeys(P, a) /\ Obeys(P, b)
                         /\ SettlesAll(P, <<a, b>>) <=> Settles(P, a) /\ Settles(P, b)
<1>1. ASeq(<<>>) /\ \A P : ObeysAll(P, <<>>) /\ SettlesAll(P, <<>>)
  <2>1. <<>> \in Seq({})  OBVIOUS
  <2> QED  BY <2>1 DEF ASeq, ObeysAll, SettlesAll
<1>2. ASSUME NEW a
      PROVE  /\ ASeq(<<a>>)
             /\ \A P : /\ ObeysAll(P, <<a>>) <=> Obeys(P, a)
                       /\ SettlesAll(P, <<a>>) <=> Settles(P, a)
  <2>1. <<a>> \in Seq({a})  OBVIOUS
  <2>2. Len(<<a>>) = 1 /\ <<a>>[1] = a /\ (\A i \in 1 .. 1 : i = 1) /\ 1 \in 1 .. 1  OBVIOUS
  <2>3. ASeq(<<a>>)  BY <2>1 DEF ASeq
  <2>4. \A P : ObeysAll(P, <<a>>) <=> Obeys(P, a)  BY <2>2 DEF ObeysAll
  <2>5. \A P : SettlesAll(P, <<a>>) <=> Settles(P, a)  BY <2>2 DEF SettlesAll
  <2> QED  BY <2>3, <2>4, <2>5
<1>3. ASSUME NEW a, NEW b
      PROVE  /\ ASeq(<<a, b>>)
             /\ \A P : /\ ObeysAll(P, <<a, b>>) <=> Obeys(P, a) /\ Obeys(P, b)
                       /\ SettlesAll(P, <<a, b>>) <=> Settles(P, a) /\ Settles(P, b)
  <2>1. <<a, b>> \in Seq({a, b})  OBVIOUS
  <2>2. /\ Len(<<a, b>>) = 2 /\ <<a, b>>[1] = a /\ <<a, b>>[2] = b
        /\ \A i \in 1 .. 2 : i = 1 \/ i = 2
        /\ 1 \in 1 .. 2 /\ 2 \in 1 .. 2
    OBVIOUS
  <2> QED  BY <2>1, <2>2 DEF ASeq, ObeysAll, SettlesAll
<1> QED  BY <1>1, <1>2, <1>3

(* A batch of clauses asks for just its clauses.                           *)
LEMMA BatchSettles ==
  ASSUME NEW S
  PROVE  /\ ASeq(Batch(S))
         /\ \A P : /\ ObeysAll(P, Batch(S)) <=> \A C \in S : Obeyed(P, C)
                   /\ SettlesAll(P, Batch(S)) <=> S \subseteq Seq(Decided(P))
<1>1. CASE S = {}
  <2>1. Batch(S) = <<>>  BY <1>1 DEF Batch
  <2> QED  BY <1>1, <2>1, ListSettles
<1>2. CASE S # {}
  <2> DEFINE c == [op |-> "clauses", in |-> <<>>, out |-> <<>>, arg |-> <<>>, cls |-> S]
  <2>1. Batch(S) = <<c>>  BY <1>2 DEF Batch
  <2>2. /\ \A P : Obeys(P, c) <=> \A C \in S : Obeyed(P, C)
        /\ \A P : Settles(P, c) <=> S \subseteq Seq(Decided(P))
    <3>1. \A P : <<>> \in Seq(Decided(P))  OBVIOUS
    <3> QED  BY <3>1 DEF Obeys, Settles, GateNames
  <2> HIDE DEF c
  <2> QED  BY <2>1, <2>2, ListSettles
<1> QED  BY <1>1, <1>2

(* A call with inputs and outputs, and one with inputs only.               *)
LEMMA CallSettles ==
  ASSUME NEW op, op # "clauses", NEW in, NEW out, NEW arg
  PROVE  /\ op \in GateNames =>
              \A P : /\ Obeys(P, CallOf(op, in, out, arg)) <=>
                          (in \in Seq(Decided(P)) => out \in Seq(Decided(P)))
                    /\ Settles(P, CallOf(op, in, out, arg)) <=>
                          in \in Seq(Decided(P)) /\ out \in Seq(Decided(P))
         /\ \A P : Settles(P, CallOf(op, in, <<>>, arg)) <=> in \in Seq(Decided(P))
<1>1. \A P : <<>> \in Seq(Decided(P))  OBVIOUS
<1> QED  BY <1>1 DEF Obeys, Settles, CallOf

(* Calls of a gate, and of a function without outputs.                     *)
LEMMA GateSettles ==
  ASSUME NEW op \in GateNames, NEW in, NEW out
  PROVE  \A P : /\ Obeys(P, GateCall(op, in, out)) <=>
                     (in \in Seq(Decided(P)) => out \in Seq(Decided(P)))
                /\ Settles(P, GateCall(op, in, out)) <=>
                     in \in Seq(Decided(P)) /\ out \in Seq(Decided(P))
<1>1. op # "clauses"  BY DEF GateNames
<1> QED  BY <1>1 DEF GateCall, CallOf, Obeys, Settles

LEMMA PlainSettles ==
  ASSUME NEW op, op # "clauses", NEW in
  PROVE  \A P : Settles(P, Call(op, in)) <=> in \in Seq(Decided(P))
  BY CallSettles DEF Call

-----------------------------------------------------------------------------
(* A function settles what its callers rely on when what it calls decides, *)
(* from its inputs, its outputs and all between.                           *)
Determines(S) ==
  \A P \in Partial : ObeysAll(P, S) /\ In \in Seq(Decided(P)) =>
    /\ Head(todo).op \in GateNames => Out \in Seq(Decided(P))
    /\ SettlesAll(P, S)

(* A function keeps the invariant when its own call settles the calls it   *)
(* makes, for every P that obeys them.                                     *)
LEMMA BecomeSettles ==
  ASSUME IInv, SInv, todo # <<>>, Head(todo).op # "clauses", NEW n, NEW S, ASeq(S),
         Become(n, S), Determines(S)
  PROVE  SInv'
<1>1. /\ todo' = S \o Tail(todo) /\ UNCHANGED <<cond, clauses, thrown, asked>>
  BY DEF Become
<1>2. todo \in Seq(CallsUpTo(nvar)) /\ Tail(todo) \in Seq(CallsUpTo(nvar))
  BY Running DEF Good, IInv, CountTypeOK
<1>3. todo = <<Head(todo)>> \o Tail(todo) /\ ASeq(Tail(todo))
  <2>1. todo = <<Head(todo)>> \o Tail(todo)  BY <1>2
  <2> QED  BY <1>2, <2>1 DEF ASeq
<1>4. \A P : /\ ObeysAll(P, todo) <=> Obeys(P, Head(todo)) /\ ObeysAll(P, Tail(todo))
             /\ SettlesAll(P, todo) <=> Settles(P, Head(todo)) /\ SettlesAll(P, Tail(todo))
  <2> DEFINE H == <<Head(todo)>>
             T == Tail(todo)
  <2>1. /\ ASeq(H)
        /\ \A P : /\ ObeysAll(P, H) <=> Obeys(P, Head(todo))
                  /\ SettlesAll(P, H) <=> Settles(P, Head(todo))
    BY ListSettles
  <2>2. todo = H \o T /\ ASeq(T)  BY <1>3
  <2> HIDE DEF H, T
  <2>3. \A P : /\ ObeysAll(P, H \o T) <=> ObeysAll(P, H) /\ ObeysAll(P, T)
               /\ SettlesAll(P, H \o T) <=> SettlesAll(P, H) /\ SettlesAll(P, T)
    BY <2>1, <2>2, ConcatSettles
  <2>4. \A P : /\ ObeysAll(P, todo) <=> Obeys(P, Head(todo)) /\ ObeysAll(P, T)
               /\ SettlesAll(P, todo) <=> Settles(P, Head(todo)) /\ SettlesAll(P, T)
    BY <2>1, <2>2, <2>3
  <2> QED  BY <2>4 DEF T
<1>5. \A P : /\ ObeysAll(P, todo') <=> ObeysAll(P, S) /\ ObeysAll(P, Tail(todo))
             /\ SettlesAll(P, todo') <=> SettlesAll(P, S) /\ SettlesAll(P, Tail(todo))
  BY <1>1, <1>3, ConcatSettles
<1>6. \A P \in Partial : ObeysAll(P, S) => Obeys(P, Head(todo))
  BY DEF Determines, Obeys, In, Out
<1>7. \A P \in Partial : ObeysAll(P, S) /\ Settles(P, Head(todo)) => SettlesAll(P, S)
  BY DEF Determines, Settles, In
<1>8. Settled'
  <2> SUFFICES ASSUME ~thrown, NEW P \in Partial, Finished(P),
                      Holds(P, cond) => ObeysAll(P, todo')
               PROVE  /\ \A C \in clauses : Met(P, C)
                      /\ Holds(P, cond) => SettlesAll(P, todo')
    BY <1>1 DEF Settled, Finished
  <2>1. Holds(P, cond) => ObeysAll(P, todo)  BY <1>4, <1>5, <1>6
  <2>2. /\ \A C \in clauses : Met(P, C)
        /\ Holds(P, cond) => SettlesAll(P, todo)
    BY <2>1 DEF SInv, Settled
  <2> QED  BY <1>4, <1>5, <1>7, <2>2
<1>9. CondAsked'  BY <1>1 DEF SInv, CondAsked
<1> QED  BY <1>8, <1>9 DEF SInv

-----------------------------------------------------------------------------
(* The client, and add_clause().                                           *)
LEMMA SetConditionalLiteralsSettles ==
  ASSUME IInv, SInv, SetConditionalLiterals
  PROVE  SInv'
<1>1. todo = <<>> /\ UNCHANGED <<clauses, thrown, todo, asked>>
  BY DEF SetConditionalLiterals, ClientMayCall
<1>2. \A P : ObeysAll(P, todo) /\ SettlesAll(P, todo)  BY <1>1, ListSettles
<1>3. Settled'  BY <1>1, <1>2 DEF SInv, Settled, Finished
<1>4. CondAsked'  BY <1>1 DEF CondAsked
<1> QED  BY <1>3, <1>4 DEF SInv

(* A new call names literals, which a finished P has decided.              *)
LEMMA AskSettles ==
  ASSUME IInv, SInv, Ask
  PROVE  SInv'
<1> DEFINE c == Head(script)
           r == [cond |-> cond, call |-> c]
           R(n) == [cond : Seq(LitsUpTo(n)), call : CallsUpTo(n)]
<1>1. /\ todo' = <<c>> /\ asked' = Append(asked, r)
      /\ UNCHANGED <<cond, clauses, thrown>> /\ ClientMayCall
  BY DEF Ask
<1>2. todo = <<>> /\ ~thrown /\ c \in CallsUpTo(nvar)  BY <1>1, NextCall
<1>3. cond \in Seq(LitsUpTo(nvar)) /\ asked \in Seq(R(nvar))  BY DEF IInv, CountTypeOK
<1>4. r \in R(nvar) /\ r.cond = cond /\ r.call = c  BY <1>2, <1>3
<1> HIDE DEF c, r, R
<1>5. /\ Len(asked) \in Nat /\ Len(asked') = Len(asked) + 1 /\ asked' # <<>>
      /\ asked'[Len(asked) + 1] = r
      /\ \A i \in 1 .. Len(asked) : asked'[i] = asked[i]
  BY <1>1, <1>3, <1>4
<1>6. /\ \A i \in 1 .. Len(asked) : i \in 1 .. Len(asked')
      /\ Len(asked) + 1 \in 1 .. Len(asked')
  BY <1>5
<1>7. \A P : ObeysAll(P, todo) /\ SettlesAll(P, todo)  BY <1>2, ListSettles
<1>8. \A P : SettlesAll(P, todo') <=> Settles(P, c)  BY <1>1, ListSettles
<1>9. Settled'
  <2> SUFFICES ASSUME NEW P \in Partial, Finished(P)'
               PROVE  /\ \A C \in clauses : Met(P, C)
                      /\ SettlesAll(P, todo')
    BY <1>1 DEF Settled
  <2>1. /\ \A C \in clauses : Obeyed(P, C)
        /\ \A i \in 1 .. Len(asked') :
             asked'[i].cond \in Seq(Decided(P)) /\ Settles(P, asked'[i].call)
    BY <1>1 DEF Finished
  <2>2. Settles(P, c)  BY <1>4, <1>5, <1>6, <2>1
  <2>3. Finished(P)  BY <1>5, <1>6, <2>1 DEF Finished
  <2> QED  BY <1>2, <1>7, <1>8, <2>2, <2>3 DEF SInv, Settled
<1>10. CondAsked'  BY <1>1, <1>4, <1>5 DEF CondAsked
<1> QED  BY <1>9, <1>10 DEF SInv

(* A clause that has been obeyed and is decided is met.                    *)
LEMMA ObeyedMet ==
  ASSUME NEW P \in Partial, NEW C \in Seq(Decided(P)), Obeyed(P, C)
  PROVE  Met(P, C)
<1> SUFFICES ASSUME \A i \in DOMAIN C : C[i] \notin P PROVE FALSE  BY DEF Met
<1>1. /\ \A l \in Literal : l \in Decided(P) <=> l \in P \/ -l \in P
      /\ Decided(P) \in SUBSET Literal
  BY DecidedFacts
<1>2. \A i \in DOMAIN C : C[i] \in Decided(P)  OBVIOUS
<1>3. \A i \in DOMAIN C : -C[i] \in P  BY <1>1, <1>2
<1>4. C # <<>>  BY DEF Obeyed
<1>5. 1 \in DOMAIN C
  <2>1. C \in Seq(Decided(P)) /\ DOMAIN C = 1 .. Len(C) /\ Len(C) \in Nat  OBVIOUS
  <2>2. Len(C) # 0  BY <1>4, <2>1
  <2> QED  BY <2>1, <2>2
<1> QED  BY <1>3, <1>5 DEF Obeyed

(* The positions of a guarded clause.                                      *)
Guarded(s, C) == Negated(s) \o C

(* A guarded clause is the negated conditions, then the clause itself.     *)
LEMMA GuardedPositions ==
  ASSUME NEW s \in Clause, NEW C \in Clause
  PROVE  /\ DOMAIN Guarded(s, C) = 1 .. Len(s) + Len(C) /\ Len(s) \in Nat /\ Len(C) \in Nat
         /\ DOMAIN s = 1 .. Len(s) /\ DOMAIN C = 1 .. Len(C)
         /\ \A i \in 1 .. Len(s) :
              /\ Guarded(s, C)[i] = -s[i] /\ -Guarded(s, C)[i] = s[i]
              /\ i \in DOMAIN Guarded(s, C)
         /\ \A i \in 1 .. Len(C) :
              Guarded(s, C)[Len(s) + i] = C[i] /\ Len(s) + i \in DOMAIN Guarded(s, C)
         /\ \A k \in DOMAIN Guarded(s, C) : k \in 1 .. Len(s) \/
                \E i \in 1 .. Len(C) : k = Len(s) + i
<1> DEFINE G == Guarded(s, C)
<1>1. s \in Seq(Literal) /\ C \in Seq(Literal)  BY DEF Clause
<1>2. Mirrored(Literal)  BY DEF Mirrored, Literal
<1>3. 1 \in Literal  BY DEF Literal
<1>4. /\ Negated(s) \in Seq(Literal) /\ Len(Negated(s)) = Len(s)
      /\ \A i \in DOMAIN s : Negated(s)[i] = -s[i]
  BY <1>1, <1>2, <1>3, WideGatesFrom DEF Negated
<1>5. \A i \in DOMAIN s : -(-s[i]) = s[i]
  <2>1. \A i \in DOMAIN s : s[i] \in Literal  BY <1>1
  <2> QED  BY <2>1 DEF Literal
<1>6. /\ Len(s) \in Nat /\ Len(C) \in Nat /\ DOMAIN s = 1 .. Len(s) /\ DOMAIN C = 1 .. Len(C)
      /\ Len(G) = Len(s) + Len(C) /\ DOMAIN G = 1 .. Len(s) + Len(C)
      /\ \A i \in 1 .. Len(s) : G[i] = Negated(s)[i]
      /\ \A i \in 1 .. Len(C) : G[Len(s) + i] = C[i]
  BY <1>1, <1>4 DEF Guarded
<1> HIDE DEF G
<1>7. \A k \in 1 .. Len(s) + Len(C) :
        k \in 1 .. Len(s) \/ (k - Len(s) \in 1 .. Len(C) /\ k = Len(s) + (k - Len(s)))
  BY <1>6
<1>8. /\ \A i \in 1 .. Len(s) : i \in 1 .. Len(s) + Len(C)
      /\ \A i \in 1 .. Len(C) : Len(s) + i \in 1 .. Len(s) + Len(C)
  BY <1>6
<1>9. \A k \in DOMAIN G : k \in 1 .. Len(s) \/ \E i \in 1 .. Len(C) : k = Len(s) + i
  BY <1>6, <1>7
<1>10. \A i \in 1 .. Len(s) : G[i] = -s[i] /\ -G[i] = s[i]  BY <1>4, <1>5, <1>6
<1> QED  BY <1>6, <1>8, <1>9, <1>10 DEF G

(* When the conditions are known to hold a guarded clause says what the    *)
(* caller wrote; when one is known not to hold the clause is met.          *)
LEMMA GuardedObeyed ==
  ASSUME NEW P \in Partial, NEW s \in Clause, NEW C \in Clause
  PROVE  /\ Obeyed(P, Guarded(s, C)) /\ Holds(P, s) => Obeyed(P, C)
         /\ Met(P, C) => Met(P, Guarded(s, C))
         /\ s \in Seq(Decided(P)) /\ ~Holds(P, s) => Met(P, Guarded(s, C))
<1> DEFINE G == Guarded(s, C)
<1>1. /\ DOMAIN G = 1 .. Len(s) + Len(C) /\ Len(s) \in Nat /\ Len(C) \in Nat
      /\ DOMAIN s = 1 .. Len(s) /\ DOMAIN C = 1 .. Len(C)
      /\ \A i \in 1 .. Len(s) : G[i] = -s[i] /\ -G[i] = s[i] /\ i \in DOMAIN G
      /\ \A i \in 1 .. Len(C) : G[Len(s) + i] = C[i] /\ Len(s) + i \in DOMAIN G
      /\ \A k \in DOMAIN G : k \in 1 .. Len(s) \/
             \E i \in 1 .. Len(C) : k = Len(s) + i
  BY GuardedPositions
<1> HIDE DEF G
<1>2. Met(P, C) => Met(P, G)
  BY <1>1 DEF Met
<1>3. ASSUME s \in Seq(Decided(P)), ~Holds(P, s) PROVE Met(P, G)
  <2>1. PICK i \in DOMAIN s : s[i] \notin P  BY <1>3 DEF Holds
  <2>2. s[i] \in Decided(P)  BY <1>3
  <2>3. -s[i] \in P  BY <2>1, <2>2, DecidedFacts
  <2> QED  BY <1>1, <2>1, <2>3 DEF Met
<1>4. ASSUME Obeyed(P, G), Holds(P, s) PROVE C # <<>>
  <2> SUFFICES ASSUME C = <<>> PROVE FALSE  OBVIOUS
  <2>1. DOMAIN G = 1 .. Len(s)  BY <1>1
  <2>2. G # <<>> /\ \A i \in DOMAIN G : -G[i] \in P  BY <1>1, <1>4, <2>1 DEF Obeyed, Holds
  <2>3. 1 \in DOMAIN G
    <3>1. Len(s) # 0  BY <1>1, <1>4 DEF Obeyed, Clause
    <3> QED  BY <1>1, <2>1, <3>1
  <2>4. G[1] \in P  BY <1>4, <2>2, <2>3 DEF Obeyed
  <2> QED  BY <2>2, <2>3, <2>4, DecidedFacts
<1>5. ASSUME Obeyed(P, G), Holds(P, s) PROVE Obeyed(P, C)
  <2> SUFFICES ASSUME NEW i \in DOMAIN C, \A k \in DOMAIN C \ {i} : -C[k] \in P
               PROVE  C[i] \in P
    BY <1>4, <1>5 DEF Obeyed
  <2>1. ASSUME NEW k \in DOMAIN G \ {Len(s) + i} PROVE -G[k] \in P
    <3>1. CASE k \in 1 .. Len(s)  BY <1>1, <1>5, <3>1 DEF Holds
    <3>2. CASE \E j \in 1 .. Len(C) : k = Len(s) + j
      <4>1. PICK j \in 1 .. Len(C) : k = Len(s) + j  BY <3>2
      <4>2. j \in DOMAIN C \ {i} /\ G[k] = C[j]  BY <1>1, <2>1, <4>1
      <4> QED  BY <4>2
    <3> QED  BY <1>1, <3>1, <3>2
  <2>2. Len(s) + i \in DOMAIN G /\ G[Len(s) + i] = C[i]  BY <1>1
  <2> QED  BY <1>5, <2>1, <2>2 DEF Obeyed
<1> QED  BY <1>2, <1>3, <1>5 DEF G

(* A clause that reaches the engine leaves the calls to come as settled as *)
(* they were.                                                              *)
LEMMA AddClauseSettles ==
  ASSUME IInv, SInv, AddClause
  PROVE  SInv'
<1> DEFINE batch == Head(todo).cls
           C == CHOOSE D \in batch : TRUE
           rest == Batch(batch \ {C})
           G == Guarded(cond, C)
<1>1. /\ todo # <<>> /\ Head(todo).op = "clauses"
      /\ clauses' = clauses \cup {G} /\ thrown' = ~sane
      /\ todo' = IF sane THEN rest \o Tail(todo) ELSE <<>>
      /\ UNCHANGED <<cond, asked>>
  BY DEF AddClause, On, Guarded
<1>2. /\ nvar \in Nat /\ Head(todo) \in CallsUpTo(nvar) /\ Shape(Head(todo))
      /\ Good(Tail(todo), nvar) /\ todo \in Seq(CallsUpTo(nvar))
  BY <1>1, Running DEF IInv, CountTypeOK
<1>3. batch \in SUBSET Seq(LitsUpTo(nvar)) /\ batch # {}
  <2>1. batch \in SUBSET Seq(LitsUpTo(nvar))  BY <1>2 DEF CallsUpTo
  <2>2. batch # {}  BY <1>1, <1>2 DEF Shape
  <2> QED  BY <2>1, <2>2
<1>4. /\ \A P : Obeys(P, Head(todo)) <=> \A D \in batch : Obeyed(P, D)
      /\ \A P : Settles(P, Head(todo)) => batch \subseteq Seq(Decided(P))
  BY <1>1 DEF Obeys, Settles, GateNames
<1> HIDE DEF batch
<1>5. C \in batch  BY <1>3
<1> HIDE DEF C
<1>6. cond \in Clause /\ C \in Clause
  <2>1. cond \in Seq(LitsUpTo(nvar))  BY DEF IInv, CountTypeOK
  <2> QED  BY <1>2, <1>3, <1>5, <2>1, LitsGrow
<1>7. /\ ASeq(rest)
      /\ \A P : /\ ObeysAll(P, rest) <=> \A D \in batch \ {C} : Obeyed(P, D)
                /\ SettlesAll(P, rest) <=> batch \ {C} \subseteq Seq(Decided(P))
  BY BatchSettles
<1> HIDE DEF rest
<1> DEFINE H == <<Head(todo)>>
           T == Tail(todo)
<1>8. todo = H \o T /\ ASeq(T)  BY <1>1, <1>2 DEF Good, ASeq
<1>9. /\ ASeq(H)
      /\ \A P : /\ ObeysAll(P, H) <=> Obeys(P, Head(todo))
                /\ SettlesAll(P, H) <=> Settles(P, Head(todo))
  BY ListSettles
<1> HIDE DEF H
<1>10. \A P : /\ ObeysAll(P, todo) <=> Obeys(P, Head(todo)) /\ ObeysAll(P, T)
              /\ SettlesAll(P, todo) <=> Settles(P, Head(todo)) /\ SettlesAll(P, T)
  <2>1. \A P : /\ ObeysAll(P, H \o T) <=> ObeysAll(P, H) /\ ObeysAll(P, T)
               /\ SettlesAll(P, H \o T) <=> SettlesAll(P, H) /\ SettlesAll(P, T)
    BY <1>8, <1>9, ConcatSettles
  <2> QED  BY <1>8, <1>9, <2>1
<1>11. \A P : /\ ObeysAll(P, rest \o T) <=> ObeysAll(P, rest) /\ ObeysAll(P, T)
              /\ SettlesAll(P, rest \o T) <=> SettlesAll(P, rest) /\ SettlesAll(P, T)
  BY <1>7, <1>8, ConcatSettles
<1>12. ~thrown  BY <1>1 DEF IInv, Quiet
<1>13. asked # <<>> /\ asked[Len(asked)].cond = cond /\ Len(asked) \in 1 .. Len(asked)
  <2>1. asked # <<>> /\ asked[Len(asked)].cond = cond  BY <1>1 DEF SInv, CondAsked
  <2>2. Len(asked) \in Nat /\ (asked # <<>> => Len(asked) # 0)  BY DEF IInv, CountTypeOK
  <2> QED  BY <2>1, <2>2
<1> HIDE DEF T
<1>14. Settled'
  <2> SUFFICES ASSUME sane, NEW P \in Partial, Finished(P)',
                      Holds(P, cond) => ObeysAll(P, rest \o T)
               PROVE  /\ \A D \in clauses \cup {G} : Met(P, D)
                      /\ Holds(P, cond) => SettlesAll(P, rest \o T)
    BY <1>1 DEF Settled, T
  <2>1. /\ \A D \in clauses \cup {G} : Obeyed(P, D)
        /\ Finished(P) /\ cond \in Seq(Decided(P))
    BY <1>1, <1>13 DEF Finished
  <2>2. CASE Holds(P, cond)
    <3>1. Obeyed(P, C)  BY <1>6, <2>1, <2>2, GuardedObeyed
    <3>2. Obeys(P, Head(todo)) /\ ObeysAll(P, T)  BY <1>4, <1>7, <1>11, <2>2, <3>1
    <3>3. (\A D \in clauses : Met(P, D)) /\ SettlesAll(P, todo)
      BY <1>10, <1>12, <2>1, <2>2, <3>2 DEF SInv, Settled
    <3>4. batch \subseteq Seq(Decided(P)) /\ SettlesAll(P, T)  BY <1>4, <1>10, <3>3
    <3>5. Met(P, C)  BY <1>5, <3>1, <3>4, ObeyedMet
    <3>6. Met(P, G)  BY <1>6, <3>5, GuardedObeyed
    <3>7. SettlesAll(P, rest \o T)  BY <1>7, <1>11, <3>4
    <3> QED  BY <3>3, <3>6, <3>7
  <2>3. CASE ~Holds(P, cond)
    <3>1. \A D \in clauses : Met(P, D)  BY <1>12, <2>1, <2>3 DEF SInv, Settled
    <3>2. Met(P, G)  BY <1>6, <2>1, <2>3, GuardedObeyed
    <3> QED  BY <2>3, <3>1, <3>2
  <2> QED  BY <2>2, <2>3
<1>15. CondAsked'  BY <1>1, <1>13 DEF CondAsked
<1> QED  BY <1>14, <1>15 DEF SInv

-----------------------------------------------------------------------------
(* Unit propagation through one gate decides its output from its inputs.   *)

LEMMA ObeyedShort ==
  ASSUME NEW P \in Partial
  PROVE  /\ \A a : Obeyed(P, <<a>>) => a \in P
         /\ \A a, b : Obeyed(P, <<a, b>>) => (-a \in P => b \in P) /\ (-b \in P => a \in P)
         /\ \A a, b, c : Obeyed(P, <<a, b, c>>) =>
              /\ -a \in P /\ -b \in P => c \in P
              /\ -b \in P /\ -c \in P => a \in P
         /\ \A a, b, c, d : Obeyed(P, <<a, b, c, d>>) =>
              /\ -a \in P /\ -b \in P /\ -c \in P => d \in P
              /\ -b \in P /\ -c \in P /\ -d \in P => a \in P
<1>1. ASSUME NEW a, Obeyed(P, <<a>>) PROVE a \in P
  <2>1. DOMAIN <<a>> = {1} /\ <<a>>[1] = a  OBVIOUS
  <2> QED  BY <1>1, <2>1 DEF Obeyed
<1>2. ASSUME NEW a, NEW b, Obeyed(P, <<a, b>>)
      PROVE  (-a \in P => b \in P) /\ (-b \in P => a \in P)
  <2>1. DOMAIN <<a, b>> = {1, 2} /\ <<a, b>>[1] = a /\ <<a, b>>[2] = b  OBVIOUS
  <2> QED  BY <1>2, <2>1 DEF Obeyed
<1>3. ASSUME NEW a, NEW b, NEW c, Obeyed(P, <<a, b, c>>)
      PROVE  /\ -a \in P /\ -b \in P => c \in P
             /\ -b \in P /\ -c \in P => a \in P
  <2>1. /\ DOMAIN <<a, b, c>> = {1, 2, 3}
        /\ <<a, b, c>>[1] = a /\ <<a, b, c>>[2] = b /\ <<a, b, c>>[3] = c
    OBVIOUS
  <2> QED  BY <1>3, <2>1 DEF Obeyed
<1>4. ASSUME NEW a, NEW b, NEW c, NEW d, Obeyed(P, <<a, b, c, d>>)
      PROVE  /\ -a \in P /\ -b \in P /\ -c \in P => d \in P
             /\ -b \in P /\ -c \in P /\ -d \in P => a \in P
  <2>1. /\ DOMAIN <<a, b, c, d>> = {1, 2, 3, 4}
        /\ <<a, b, c, d>>[1] = a /\ <<a, b, c, d>>[2] = b /\ <<a, b, c, d>>[3] = c
        /\ <<a, b, c, d>>[4] = d
    OBVIOUS
  <2> QED  BY <1>4, <2>1 DEF Obeyed
<1> QED  BY <1>1, <1>2, <1>3, <1>4

ObeysClauses(P, S) == \A C \in S : Obeyed(P, C)

(* From the clauses of a gate propagation decides its outputs as soon as   *)
(* the inputs are decided.                                                 *)
LEMMA GatesDecide ==
  ASSUME NEW P \in Partial, NEW a \in Decided(P), NEW b \in Decided(P), NEW c \in Decided(P),
         NEW o \in Literal, NEW s \in Literal
  PROVE  /\ ObeysClauses(P, BuffGate(o, a)) => o \in Decided(P)
         /\ ObeysClauses(P, XorGate2(s, a, b)) => s \in Decided(P)
         /\ ObeysClauses(P, XorGate3(s, a, b, c)) => s \in Decided(P)
         /\ ObeysClauses(P, HalfAdder(a, b, s, o)) => s \in Decided(P) /\ o \in Decided(P)
         /\ ObeysClauses(P, FullAdder(a, b, c, s, o)) => s \in Decided(P) /\ o \in Decided(P)
<1>1. /\ a \in P \/ -a \in P
      /\ b \in P \/ -b \in P
      /\ c \in P \/ -c \in P
      /\ -(-a) = a /\ -(-b) = b /\ -(-c) = c
  BY DecidedFacts
<1>2. \A l \in Literal : l \in P \/ -l \in P => l \in Decided(P)  BY DecidedFacts
<1>3. ASSUME ObeysClauses(P, BuffGate(o, a)) PROVE o \in Decided(P)
  <2>1. Obeyed(P, <<-o, a>>) /\ Obeyed(P, <<o, -a>>)  BY <1>3 DEF ObeysClauses, BuffGate
  <2> QED  BY <1>1, <1>2, <2>1, ObeyedShort
<1>4. ASSUME ObeysClauses(P, XorGate2(s, a, b)) PROVE s \in Decided(P)
  <2>1. /\ Obeyed(P, <<a, b, -s>>) /\ Obeyed(P, <<a, -b, s>>)
        /\ Obeyed(P, <<-a, b, s>>) /\ Obeyed(P, <<-a, -b, -s>>)
    BY <1>4 DEF ObeysClauses, XorGate2
  <2> QED  BY <1>1, <1>2, <2>1, ObeyedShort
<1>5. ASSUME ObeysClauses(P, XorGate3(s, a, b, c)) PROVE s \in Decided(P)
  <2>1. /\ Obeyed(P, <<a, b, c, -s>>) /\ Obeyed(P, <<a, b, -c, s>>)
        /\ Obeyed(P, <<a, -b, c, s>>) /\ Obeyed(P, <<a, -b, -c, -s>>)
        /\ Obeyed(P, <<-a, b, c, s>>) /\ Obeyed(P, <<-a, b, -c, -s>>)
        /\ Obeyed(P, <<-a, -b, c, -s>>) /\ Obeyed(P, <<-a, -b, -c, s>>)
    BY <1>5 DEF ObeysClauses, XorGate3
  <2> QED  BY <1>1, <1>2, <2>1, ObeyedShort
<1>6. ASSUME ObeysClauses(P, HalfAdder(a, b, s, o)) PROVE s \in Decided(P) /\ o \in Decided(P)
  <2>1. ObeysClauses(P, XorGate2(s, a, b))  BY <1>6 DEF ObeysClauses, HalfAdder
  <2>2. Obeyed(P, <<-o, a>>) /\ Obeyed(P, <<-o, b>>) /\ Obeyed(P, <<o, -a, -b>>)
    BY <1>6 DEF ObeysClauses, HalfAdder
  <2>3. o \in P \/ -o \in P  BY <1>1, <2>2, ObeyedShort
  <2> QED  BY <1>2, <1>4, <2>1, <2>3
<1>7. ASSUME ObeysClauses(P, FullAdder(a, b, c, s, o))
      PROVE  s \in Decided(P) /\ o \in Decided(P)
  <2>1. ObeysClauses(P, XorGate3(s, a, b, c))  BY <1>7 DEF ObeysClauses, FullAdder
  <2>2. /\ Obeyed(P, <<-o, a, b>>) /\ Obeyed(P, <<-o, a, c>>) /\ Obeyed(P, <<-o, b, c>>)
        /\ Obeyed(P, <<o, -a, -b>>) /\ Obeyed(P, <<o, -a, -c>>) /\ Obeyed(P, <<o, -b, -c>>)
    BY <1>7 DEF ObeysClauses, FullAdder
  <2>3. o \in P \/ -o \in P  BY <1>1, <2>2, ObeyedShort
  <2> QED  BY <1>2, <1>5, <2>1, <2>3
<1> QED  BY <1>3, <1>4, <1>5, <1>6, <1>7

(* AND and OR gates of any width.                                          *)
LEMMA WideGatesDecide ==
  ASSUME NEW P \in Partial, NEW s \in Seq(Decided(P)), NEW o \in Literal
  PROVE  /\ ObeysClauses(P, AndGate(o, s)) => o \in Decided(P)
         /\ ObeysClauses(P, OrGate(o, s)) => o \in Decided(P)
<1>1. /\ Decided(P) \in SUBSET Literal /\ Mirrored(Decided(P))
      /\ \A l \in Literal : l \in Decided(P) <=> l \in P \/ -l \in P
      /\ \A l \in Literal : -(-l) = l /\ -l \in Literal
  BY DecidedFacts DEF Literal
<1>2. /\ Len(s) \in Nat /\ DOMAIN s = 1 .. Len(s) /\ \A i \in DOMAIN s : s[i] \in Literal
      /\ \A i \in DOMAIN s : s[i] \in P \/ -s[i] \in P
  BY <1>1
<1>3. ASSUME NEW C, NEW l, C = Append(l, o), l \in Seq(Literal), Obeyed(P, C),
             \A i \in DOMAIN l : -l[i] \in P
      PROVE  o \in P
  <2>1. /\ Len(l) \in Nat /\ DOMAIN l = 1 .. Len(l)
        /\ DOMAIN C = 1 .. Len(l) + 1 /\ C[Len(l) + 1] = o
        /\ \A i \in 1 .. Len(l) : C[i] = l[i]
    BY <1>3
  <2>2. \A k \in DOMAIN C \ {Len(l) + 1} : k \in 1 .. Len(l)  BY <2>1
  <2>3. Len(l) + 1 \in DOMAIN C  BY <2>1
  <2> QED  BY <1>3, <2>1, <2>2, <2>3 DEF Obeyed
<1>4. ASSUME ObeysClauses(P, AndGate(o, s)) PROVE o \in Decided(P)
  <2>1. CASE \A i \in DOMAIN s : s[i] \in P
    <3>1. Negated(s) \in Seq(Literal) /\ \A i \in DOMAIN Negated(s) : -Negated(s)[i] \in P
      BY <1>1, <1>2, <2>1 DEF Negated
    <3>2. Obeyed(P, Append(Negated(s), o))  BY <1>4 DEF ObeysClauses, AndGate
    <3> QED  BY <1>1, <1>3, <3>1, <3>2
  <2>2. CASE \E i \in DOMAIN s : s[i] \notin P
    <3>1. PICK i \in DOMAIN s : -s[i] \in P  BY <1>2, <2>2
    <3>2. Obeyed(P, <<s[i], -o>>)  BY <1>4 DEF ObeysClauses, AndGate
    <3> QED  BY <1>1, <3>1, <3>2, ObeyedShort
  <2> QED  BY <2>1, <2>2
<1>5. ASSUME ObeysClauses(P, OrGate(o, s)) PROVE o \in Decided(P)
  <2>1. CASE \A i \in DOMAIN s : -s[i] \in P
    <3>1. Obeyed(P, Append(s, -o))  BY <1>5 DEF ObeysClauses, OrGate
    <3>2. /\ Len(s) \in Nat /\ DOMAIN s = 1 .. Len(s)
          /\ DOMAIN Append(s, -o) = 1 .. Len(s) + 1 /\ Append(s, -o)[Len(s) + 1] = -o
          /\ \A i \in 1 .. Len(s) : Append(s, -o)[i] = s[i]
      BY <1>2
    <3>3. \A k \in DOMAIN Append(s, -o) \ {Len(s) + 1} : k \in 1 .. Len(s)  BY <3>2
    <3>4. -o \in P  BY <2>1, <3>1, <3>2, <3>3 DEF Obeyed
    <3> QED  BY <1>1, <3>4
  <2>2. CASE \E i \in DOMAIN s : -s[i] \notin P
    <3>1. PICK i \in DOMAIN s : s[i] \in P  BY <1>2, <2>2
    <3>2. Obeyed(P, <<-s[i], o>>)  BY <1>5 DEF ObeysClauses, OrGate
    <3> QED  BY <1>1, <1>2, <3>1, <3>2, ObeyedShort
  <2> QED  BY <2>1, <2>2
<1> QED  BY <1>4, <1>5

-----------------------------------------------------------------------------
(* The functions, in the order of CountEncoder.                            *)

(* A function that only adds clauses.                                      *)
LEMMA BatchDetermines ==
  ASSUME IInv, SInv, todo # <<>>, Head(todo).op # "clauses", NEW S, Become(0, Batch(S)),
         \A P \in Partial : In \in Seq(Decided(P)) /\ ObeysClauses(P, S) =>
           /\ Head(todo).op \in GateNames => Out \in Seq(Decided(P))
           /\ S \in SUBSET Seq(Decided(P))
  PROVE  SInv'
<1>1. Determines(Batch(S)) /\ ASeq(Batch(S))
  BY BatchSettles DEF Determines, ObeysClauses
<1> QED  BY <1>1, BecomeSettles

(* Sequences of one and of two decided literals.                           *)
LEMMA OneOut ==
  ASSUME IInv, todo # <<>>, Len(Out) = 1
  PROVE  /\ Out[1] \in Literal
         /\ \A P \in Partial : Out \in Seq(Decided(P)) <=> Out[1] \in Decided(P)
         /\ \A P \in Partial : Negated(Out) \in Seq(Decided(P)) <=> Out[1] \in Decided(P)
<1>1. Out = <<Out[1]>> /\ Negated(Out) = <<-Out[1]>> /\ Out[1] \in Literal
  <2>1. 0 \in Nat  OBVIOUS
  <2> QED  BY <2>1, OneOutput
<1>2. ASSUME NEW P \in Partial
      PROVE  <<Out[1]>> \in Seq(Decided(P)) <=> Out[1] \in Decided(P)
  OBVIOUS
<1>3. ASSUME NEW P \in Partial
      PROVE  <<-Out[1]>> \in Seq(Decided(P)) <=> Out[1] \in Decided(P)
  <2>1. -Out[1] \in Decided(P) <=> Out[1] \in Decided(P)
    <3>1. -(-Out[1]) = Out[1]  BY <1>1 DEF Literal
    <3> QED  BY <3>1, DecidedFacts DEF Mirrored
  <2>2. <<-Out[1]>> \in Seq(Decided(P)) <=> -Out[1] \in Decided(P)  OBVIOUS
  <2> QED  BY <2>1, <2>2
<1> QED  BY <1>1, <1>2, <1>3

LEMMA TwoOut ==
  ASSUME IInv, todo # <<>>, Len(Out) = 2
  PROVE  /\ Out = <<Out[1], Out[2]>> /\ Out[1] \in Literal /\ Out[2] \in Literal
         /\ \A P : Out \in Seq(Decided(P)) <=> Out[1] \in Decided(P) /\ Out[2] \in Decided(P)
<1>1. Out = <<Out[1], Out[2]>> /\ Out[1] \in Literal /\ Out[2] \in Literal
  <2>1. 0 \in Nat  OBVIOUS
  <2> QED  BY <2>1, TwoOutputs
<1>2. ASSUME NEW P
      PROVE  <<Out[1], Out[2]>> \in Seq(Decided(P)) <=>
               Out[1] \in Decided(P) /\ Out[2] \in Decided(P)
  OBVIOUS
<1> QED  BY <1>1, <1>2

(* The functions that add clauses themselves.                              *)
LEMMA AddClauseCallSettles ==
  ASSUME IInv, SInv, AddClauseCall
  PROVE  SInv'
<1>1. todo # <<>> /\ Head(todo).op = "add_clause" /\ Become(0, Batch({In}))
  BY DEF AddClauseCall, On
<1> QED  BY <1>1, BatchDetermines DEF GateNames

LEMMA AtLeastOneSettles ==
  ASSUME IInv, SInv, AtLeastOne
  PROVE  SInv'
<1>1. todo # <<>> /\ Head(todo).op = "at_least_one" /\ Become(0, Batch({In}))
  BY DEF AtLeastOne, On
<1> QED  BY <1>1, BatchDetermines DEF GateNames

LEMMA AddBuffgateSettles ==
  ASSUME IInv, SInv, AddBuffgate
  PROVE  SInv'
<1> DEFINE S == BuffGate(Out[1], In[1])
<1>1. todo # <<>> /\ Head(todo).op = "buff" /\ Become(0, Batch(S))
  BY DEF AddBuffgate, On
<1>2. Len(Out) = 1 /\ Len(In) = 1  BY <1>1, Running DEF Shape, In, Out
<1>3. ASSUME NEW P \in Partial, In \in Seq(Decided(P)), ObeysClauses(P, S)
      PROVE  Out \in Seq(Decided(P)) /\ S \in SUBSET Seq(Decided(P))
  <2>1. In[1] \in Decided(P)  BY <1>2, <1>3
  <2>2. Out[1] \in Decided(P)  BY <1>1, <1>2, <1>3, <2>1, OneOut, GatesDecide
  <2> QED  BY <1>1, <1>2, <2>1, <2>2, OneOut, DecidedFacts, GatesFrom
<1> HIDE DEF S
<1> QED  BY <1>1, <1>3, BatchDetermines

LEMMA AddAndgateSettles ==
  ASSUME IInv, SInv, AddAndgate
  PROVE  SInv'
<1> DEFINE S == AndGate(Out[1], In)
<1>1. todo # <<>> /\ Head(todo).op = "and" /\ Become(0, Batch(S))
  BY DEF AddAndgate, On
<1>2. Len(Out) = 1  BY <1>1, Running DEF Shape, Out
<1>3. ASSUME NEW P \in Partial, In \in Seq(Decided(P)), ObeysClauses(P, S)
      PROVE  Out \in Seq(Decided(P)) /\ S \in SUBSET Seq(Decided(P))
  <2>1. Out[1] \in Decided(P)  BY <1>1, <1>2, <1>3, OneOut, WideGatesDecide
  <2> QED  BY <1>1, <1>2, <1>3, <2>1, OneOut, DecidedFacts, WideGatesFrom
<1> HIDE DEF S
<1> QED  BY <1>1, <1>3, BatchDetermines

LEMMA AddOrgateSettles ==
  ASSUME IInv, SInv, AddOrgate
  PROVE  SInv'
<1> DEFINE S == OrGate(Out[1], In)
<1>1. todo # <<>> /\ Head(todo).op = "or" /\ Become(0, Batch(S))
  BY DEF AddOrgate, On
<1>2. Len(Out) = 1  BY <1>1, Running DEF Shape, Out
<1>3. ASSUME NEW P \in Partial, In \in Seq(Decided(P)), ObeysClauses(P, S)
      PROVE  Out \in Seq(Decided(P)) /\ S \in SUBSET Seq(Decided(P))
  <2>1. Out[1] \in Decided(P)  BY <1>1, <1>2, <1>3, OneOut, WideGatesDecide
  <2> QED  BY <1>1, <1>2, <1>3, <2>1, OneOut, DecidedFacts, WideGatesFrom
<1> HIDE DEF S
<1> QED  BY <1>1, <1>3, BatchDetermines

(* The gates that are others with their output negated.                    *)
LEMMA NegatedGateSettles ==
  ASSUME IInv, SInv, todo # <<>>, Head(todo).op \in {"not", "nand", "nor", "xnor"},
         NEW op \in {"buff", "and", "or", "xor"},
         Become(0, <<GateCall(op, In, Negated(Out))>>)
  PROVE  SInv'
<1> DEFINE c == GateCall(op, In, Negated(Out))
<1>1. Len(Out) = 1  BY Running DEF Shape, Out
<1>2. \A P : /\ Obeys(P, c) <=> (In \in Seq(Decided(P)) => Negated(Out) \in Seq(Decided(P)))
             /\ Settles(P, c) <=> In \in Seq(Decided(P)) /\ Negated(Out) \in Seq(Decided(P))
  BY GateSettles DEF GateNames
<1> HIDE DEF c
<1>3. Determines(<<c>>) /\ ASeq(<<c>>)
  BY <1>1, <1>2, ListSettles, OneOut DEF Determines
<1>4. Head(todo).op # "clauses" /\ Become(0, <<c>>)  BY DEF c
<1> QED  BY <1>3, <1>4, BecomeSettles

LEMMA AddNotgateSettles == ASSUME IInv, SInv, AddNotgate PROVE SInv'
  BY NegatedGateSettles DEF AddNotgate, On
LEMMA AddNandgateSettles == ASSUME IInv, SInv, AddNandgate PROVE SInv'
  BY NegatedGateSettles DEF AddNandgate, On
LEMMA AddNorgateSettles == ASSUME IInv, SInv, AddNorgate PROVE SInv'
  BY NegatedGateSettles DEF AddNorgate, On
LEMMA AddXnorgateSettles == ASSUME IInv, SInv, AddXnorgate PROVE SInv'
  BY NegatedGateSettles DEF AddXnorgate, On

LEMMA AddHalfAdderSettles ==
  ASSUME IInv, SInv, AddHalfAdder
  PROVE  SInv'
<1> DEFINE S == HalfAdder(In[1], In[2], Out[2], Out[1])
<1>1. todo # <<>> /\ Head(todo).op = "half_adder" /\ Become(0, Batch(S))
  BY DEF AddHalfAdder, On
<1>2. Len(Out) = 2 /\ Len(In) = 2  BY <1>1, Running DEF Shape, In, Out
<1>3. ASSUME NEW P \in Partial, In \in Seq(Decided(P)), ObeysClauses(P, S)
      PROVE  Out \in Seq(Decided(P)) /\ S \in SUBSET Seq(Decided(P))
  <2>1. In[1] \in Decided(P) /\ In[2] \in Decided(P)  BY <1>2, <1>3
  <2>2. Out[1] \in Decided(P) /\ Out[2] \in Decided(P)
    BY <1>1, <1>2, <1>3, <2>1, TwoOut, GatesDecide
  <2>3. S \in SUBSET Seq(Decided(P))  BY <2>1, <2>2, DecidedFacts, GatesFrom
  <2> QED  BY <1>1, <1>2, <2>2, <2>3, TwoOut
<1> HIDE DEF S
<1> QED  BY <1>1, <1>3, BatchDetermines

LEMMA AddFullAdderSettles ==
  ASSUME IInv, SInv, AddFullAdder
  PROVE  SInv'
<1> DEFINE S == FullAdder(In[1], In[2], In[3], Out[2], Out[1])
<1>1. todo # <<>> /\ Head(todo).op = "full_adder" /\ Become(0, Batch(S))
  BY DEF AddFullAdder, On
<1>2. Len(Out) = 2 /\ Len(In) = 3  BY <1>1, Running DEF Shape, In, Out
<1>3. ASSUME NEW P \in Partial, In \in Seq(Decided(P)), ObeysClauses(P, S)
      PROVE  Out \in Seq(Decided(P)) /\ S \in SUBSET Seq(Decided(P))
  <2>1. In[1] \in Decided(P) /\ In[2] \in Decided(P) /\ In[3] \in Decided(P)
    BY <1>2, <1>3, ShortSequences
  <2>2. Out[1] \in Decided(P) /\ Out[2] \in Decided(P)
    BY <1>1, <1>2, <1>3, <2>1, TwoOut, GatesDecide
  <2>3. S \in SUBSET Seq(Decided(P))  BY <2>1, <2>2, DecidedFacts, GatesFrom
  <2> QED  BY <1>1, <1>2, <2>2, <2>3, TwoOut
<1> HIDE DEF S
<1> QED  BY <1>1, <1>3, BatchDetermines

(* Constraints that list the forbidden patterns.                           *)
LEMMA PatternSettles ==
  ASSUME IInv, SInv, todo # <<>>, Head(todo).op \notin GateNames \cup {"clauses"},
         NEW S \in {AtMostOneOf(In), AtMostTwoOf(In), AtLeastTwoOf(In), NotOneOf(In)},
         Become(0, Batch(S))
  PROVE  SInv'
<1>1. ASSUME NEW P \in Partial, In \in Seq(Decided(P)) PROVE S \in SUBSET Seq(Decided(P))
  BY <1>1, DecidedFacts, PatternsFrom
<1> QED  BY <1>1, BatchDetermines

LEMMA AtMostOneArgsSettles == ASSUME IInv, SInv, AtMostOneArgs PROVE SInv'
  BY PatternSettles DEF AtMostOneArgs, On, GateNames
LEMMA AtMostTwoArgsSettles == ASSUME IInv, SInv, AtMostTwoArgs PROVE SInv'
  BY PatternSettles DEF AtMostTwoArgs, On, GateNames
LEMMA AtLeastTwoArgsSettles == ASSUME IInv, SInv, AtLeastTwoArgs PROVE SInv'
  BY PatternSettles DEF AtLeastTwoArgs, On, GateNames
LEMMA NotOneSettles == ASSUME IInv, SInv, NotOne PROVE SInv'
  BY PatternSettles DEF NotOne, On, GateNames

(* Functions that call others with their own literals.                     *)
LEMMA PlainCallsDetermine ==
  ASSUME IInv, SInv, todo # <<>>, Head(todo).op \notin GateNames \cup {"clauses"},
         NEW a, NEW b, a # "clauses", b # "clauses"
  PROVE  /\ Become(0, <<>>) => SInv'
         /\ Become(0, <<Call(a, In)>>) => SInv'
         /\ Become(0, <<Call(a, In), Call(b, In)>>) => SInv'
<1>1. Determines(<<>>) /\ ASeq(<<>>)  BY ListSettles DEF Determines
<1>2. Determines(<<Call(a, In)>>) /\ ASeq(<<Call(a, In)>>)
  BY ListSettles, PlainSettles DEF Determines
<1>3. Determines(<<Call(a, In), Call(b, In)>>) /\ ASeq(<<Call(a, In), Call(b, In)>>)
  BY ListSettles, PlainSettles DEF Determines
<1> QED  BY <1>1, <1>2, <1>3, BecomeSettles

LEMMA ExactOneArgsSettles == ASSUME IInv, SInv, ExactOneArgs PROVE SInv'
  BY PlainCallsDetermine DEF ExactOneArgs, On, GateNames
LEMMA ExactTwoArgsSettles == ASSUME IInv, SInv, ExactTwoArgs PROVE SInv'
  BY PlainCallsDetermine DEF ExactTwoArgs, On, GateNames

(* Lists of three and four calls.                                          *)
LEMMA LongerLists ==
  /\ \A a, b, c :
       /\ ASeq(<<a, b, c>>)
       /\ \A P : /\ ObeysAll(P, <<a, b, c>>) <=> Obeys(P, a) /\ Obeys(P, b) /\ Obeys(P, c)
                 /\ SettlesAll(P, <<a, b, c>>) <=>
                      Settles(P, a) /\ Settles(P, b) /\ Settles(P, c)
  /\ \A a, b, c, d :
       /\ ASeq(<<a, b, c, d>>)
       /\ \A P : /\ ObeysAll(P, <<a, b, c, d>>) <=>
                      Obeys(P, a) /\ Obeys(P, b) /\ Obeys(P, c) /\ Obeys(P, d)
                 /\ SettlesAll(P, <<a, b, c, d>>) <=>
                      Settles(P, a) /\ Settles(P, b) /\ Settles(P, c) /\ Settles(P, d)
<1>1. ASSUME NEW a, NEW b, NEW c
      PROVE  /\ ASeq(<<a, b, c>>)
             /\ \A P : /\ ObeysAll(P, <<a, b, c>>) <=> Obeys(P, a) /\ Obeys(P, b) /\ Obeys(P, c)
                       /\ SettlesAll(P, <<a, b, c>>) <=>
                            Settles(P, a) /\ Settles(P, b) /\ Settles(P, c)
  <2>1. <<a, b, c>> \in Seq({a, b, c})  OBVIOUS
  <2>2. /\ Len(<<a, b, c>>) = 3
        /\ <<a, b, c>>[1] = a /\ <<a, b, c>>[2] = b /\ <<a, b, c>>[3] = c
        /\ \A i \in 1 .. 3 : i = 1 \/ i = 2 \/ i = 3
        /\ 1 \in 1 .. 3 /\ 2 \in 1 .. 3 /\ 3 \in 1 .. 3
    OBVIOUS
  <2>3. ASeq(<<a, b, c>>)  BY <2>1 DEF ASeq
  <2>4. \A P : ObeysAll(P, <<a, b, c>>) <=> Obeys(P, a) /\ Obeys(P, b) /\ Obeys(P, c)
    BY <2>2 DEF ObeysAll
  <2>5. \A P : SettlesAll(P, <<a, b, c>>) <=> Settles(P, a) /\ Settles(P, b) /\ Settles(P, c)
    BY <2>2 DEF SettlesAll
  <2> QED  BY <2>3, <2>4, <2>5
<1>2. ASSUME NEW a, NEW b, NEW c, NEW d
      PROVE  /\ ASeq(<<a, b, c, d>>)
             /\ \A P : /\ ObeysAll(P, <<a, b, c, d>>) <=>
                            Obeys(P, a) /\ Obeys(P, b) /\ Obeys(P, c) /\ Obeys(P, d)
                       /\ SettlesAll(P, <<a, b, c, d>>) <=>
                            Settles(P, a) /\ Settles(P, b) /\ Settles(P, c) /\ Settles(P, d)
  <2>1. <<a, b, c, d>> \in Seq({a, b, c, d})  OBVIOUS
  <2>2. /\ Len(<<a, b, c, d>>) = 4
        /\ <<a, b, c, d>>[1] = a /\ <<a, b, c, d>>[2] = b
        /\ <<a, b, c, d>>[3] = c /\ <<a, b, c, d>>[4] = d
        /\ \A i \in 1 .. 4 : i = 1 \/ i = 2 \/ i = 3 \/ i = 4
        /\ 1 \in 1 .. 4 /\ 2 \in 1 .. 4 /\ 3 \in 1 .. 4 /\ 4 \in 1 .. 4
    OBVIOUS
  <2>3. ASeq(<<a, b, c, d>>)  BY <2>1 DEF ASeq
  <2>4. \A P : ObeysAll(P, <<a, b, c, d>>) <=>
               Obeys(P, a) /\ Obeys(P, b) /\ Obeys(P, c) /\ Obeys(P, d)
    BY <2>2 DEF ObeysAll
  <2>5. \A P : SettlesAll(P, <<a, b, c, d>>) <=>
               Settles(P, a) /\ Settles(P, b) /\ Settles(P, c) /\ Settles(P, d)
    BY <2>2 DEF SettlesAll
  <2> QED  BY <2>3, <2>4, <2>5
<1> QED  BY <1>1, <1>2

(* Lists of literals are decided when their members are.                   *)
LEMMA DecidedTuples ==
  ASSUME NEW L
  PROVE  /\ \A a : <<a>> \in Seq(L) <=> a \in L
         /\ \A a, b : <<a, b>> \in Seq(L) <=> a \in L /\ b \in L
         /\ \A a, b, c : <<a, b, c>> \in Seq(L) <=> a \in L /\ b \in L /\ c \in L
  OBVIOUS

(* The parts of a decided list are decided.                                *)
LEMMA PartsDecided ==
  ASSUME IInv, todo # <<>>, NEW h \in 0 .. Len(In), NEW L, In \in Seq(L)
  PROVE  First(h) \in Seq(L) /\ Rest(h) \in Seq(L)
  BY DEF First, Rest

(* The XOR of many: halves, then the gate of their outputs.                *)
LEMMA AddXorgateSettles ==
  ASSUME IInv, SInv, AddXorgate
  PROVE  SInv'
<1>1. todo # <<>> /\ Head(todo).op = "xor"  BY DEF AddXorgate, On
<1>2. Len(Out) = 1 /\ Len(In) >= 2 /\ Len(In) \in Nat
  BY <1>1, Running DEF Shape, In, Out, Clause
<1>3. CASE Len(In) = 2
  <2> DEFINE S == XorGate2(Out[1], In[1], In[2])
  <2>1. Become(0, Batch(S))  BY <1>3 DEF AddXorgate
  <2>2. ASSUME NEW P \in Partial, In \in Seq(Decided(P)), ObeysClauses(P, S)
        PROVE  Out \in Seq(Decided(P)) /\ S \in SUBSET Seq(Decided(P))
    <3>1. In[1] \in Decided(P) /\ In[2] \in Decided(P)  BY <1>3, <2>2, ShortSequences
    <3>2. Out[1] \in Decided(P)  BY <1>1, <1>2, <2>2, <3>1, OneOut, GatesDecide
    <3> QED  BY <1>1, <1>2, <3>1, <3>2, OneOut, DecidedFacts, GatesFrom
  <2> HIDE DEF S
  <2> QED  BY <1>1, <2>1, <2>2, BatchDetermines
<1>4. CASE Len(In) = 3
  <2> DEFINE S == XorGate3(Out[1], In[1], In[2], In[3])
  <2>1. Become(0, Batch(S))  BY <1>4 DEF AddXorgate
  <2>2. ASSUME NEW P \in Partial, In \in Seq(Decided(P)), ObeysClauses(P, S)
        PROVE  Out \in Seq(Decided(P)) /\ S \in SUBSET Seq(Decided(P))
    <3>1. In[1] \in Decided(P) /\ In[2] \in Decided(P) /\ In[3] \in Decided(P)
      BY <1>4, <2>2, ShortSequences
    <3>2. Out[1] \in Decided(P)  BY <1>1, <1>2, <2>2, <3>1, OneOut, GatesDecide
    <3> QED  BY <1>1, <1>2, <3>1, <3>2, OneOut, DecidedFacts, GatesFrom
  <2> HIDE DEF S
  <2> QED  BY <1>1, <2>1, <2>2, BatchDetermines
<1>5. CASE Len(In) > 3
  <2> DEFINE h == Len(In) \div 2
             l == nvar + 1
             r == nvar + 2
             a == GateCall("xor", First(h), <<l>>)
             b == GateCall("xor", Rest(h), <<r>>)
             c == GateCall("xor", <<l, r>>, Out)
  <2>1. Become(2, <<a, b, c>>)
    <3>1. \A n \in Nat : n > 3 => n # 2 /\ n # 3  OBVIOUS
    <3>2. Len(In) # 2 /\ Len(In) # 3  BY <1>2, <1>5, <3>1
    <3> QED  BY <1>5, <3>2 DEF AddXorgate
  <2>2. h \in 0 .. Len(In)  BY <1>2
  <2>3. "xor" \in GateNames  BY DEF GateNames
  <2>4. \A P : /\ Obeys(P, a) <=> (First(h) \in Seq(Decided(P)) => <<l>> \in Seq(Decided(P)))
               /\ Settles(P, a) <=> First(h) \in Seq(Decided(P)) /\ <<l>> \in Seq(Decided(P))
    BY <2>3, GateSettles
  <2>5. \A P : /\ Obeys(P, b) <=> (Rest(h) \in Seq(Decided(P)) => <<r>> \in Seq(Decided(P)))
               /\ Settles(P, b) <=> Rest(h) \in Seq(Decided(P)) /\ <<r>> \in Seq(Decided(P))
    BY <2>3, GateSettles
  <2>6. \A P : /\ Obeys(P, c) <=> (<<l, r>> \in Seq(Decided(P)) => Out \in Seq(Decided(P)))
               /\ Settles(P, c) <=> <<l, r>> \in Seq(Decided(P)) /\ Out \in Seq(Decided(P))
    BY <2>3, GateSettles
  <2> HIDE DEF a, b, c, l, r, h
  <2>7. ASeq(<<a, b, c>>)  BY LongerLists
  <2>8. Determines(<<a, b, c>>)
    <3> SUFFICES ASSUME NEW P \in Partial, In \in Seq(Decided(P)),
                        Obeys(P, a), Obeys(P, b), Obeys(P, c)
                 PROVE  /\ Out \in Seq(Decided(P))
                        /\ Settles(P, a) /\ Settles(P, b) /\ Settles(P, c)
      BY LongerLists DEF Determines
    <3>1. First(h) \in Seq(Decided(P)) /\ Rest(h) \in Seq(Decided(P))
      BY <1>1, <2>2, PartsDecided
    <3>2. <<l, r>> \in Seq(Decided(P))  BY <2>4, <2>5, <3>1, DecidedTuples
    <3> QED  BY <2>4, <2>5, <2>6, <3>1, <3>2
  <2> QED  BY <1>1, <2>1, <2>7, <2>8, BecomeSettles
<1>6. \A n \in Nat : n >= 2 => n = 2 \/ n = 3 \/ n > 3  OBVIOUS
<1> QED  BY <1>2, <1>3, <1>4, <1>5, <1>6

-----------------------------------------------------------------------------
(* The halves of a long list.                                              *)
LEMMA HalvesSettle ==
  ASSUME IInv, todo # <<>>, Len(In) > 4, NEW P \in Partial, In \in Seq(Decided(P))
  PROVE  /\ ObeysAll(P, HalvesToOne) =>
              /\ SettlesAll(P, HalvesToOne)
              /\ Fresh(1) \in Decided(P) /\ Fresh(2) \in Decided(P)
         /\ \A op \in {"count_two", "count_up_to_two"} :
              ObeysAll(P, HalvesToTwo(op)) =>
                /\ SettlesAll(P, HalvesToTwo(op))
                /\ Fresh(1) \in Decided(P) /\ Fresh(2) \in Decided(P)
                /\ Fresh(3) \in Decided(P) /\ Fresh(4) \in Decided(P)
<1> DEFINE D == Decided(P)
<1>1. First(Half) \in Seq(D) /\ Rest(Half) \in Seq(D)  BY HalfRange, PartsDecided
<1>2. ASSUME ObeysAll(P, HalvesToOne)
      PROVE  /\ SettlesAll(P, HalvesToOne)
             /\ Fresh(1) \in D /\ Fresh(2) \in D
  <2> DEFINE a == GateCall("count_one", First(Half), <<Fresh(1)>>)
             b == GateCall("count_one", Rest(Half), <<Fresh(2)>>)
  <2>1. HalvesToOne = <<a, b>>  BY DEF HalvesToOne
  <2>2. "count_one" \in GateNames  BY DEF GateNames
  <2>3. /\ Obeys(P, a) <=> (First(Half) \in Seq(D) => <<Fresh(1)>> \in Seq(D))
        /\ Settles(P, a) <=> First(Half) \in Seq(D) /\ <<Fresh(1)>> \in Seq(D)
    BY <2>2, GateSettles
  <2>4. /\ Obeys(P, b) <=> (Rest(Half) \in Seq(D) => <<Fresh(2)>> \in Seq(D))
        /\ Settles(P, b) <=> Rest(Half) \in Seq(D) /\ <<Fresh(2)>> \in Seq(D)
    BY <2>2, GateSettles
  <2> HIDE DEF a, b, D
  <2> QED  BY <1>1, <1>2, <2>1, <2>3, <2>4, ListSettles, DecidedTuples
<1>3. ASSUME NEW op \in {"count_two", "count_up_to_two"}, ObeysAll(P, HalvesToTwo(op))
      PROVE  /\ SettlesAll(P, HalvesToTwo(op))
             /\ Fresh(1) \in D /\ Fresh(2) \in D /\ Fresh(3) \in D /\ Fresh(4) \in D
  <2> DEFINE a == GateCall(op, First(Half), <<Fresh(1), Fresh(2)>>)
             b == GateCall(op, Rest(Half), <<Fresh(3), Fresh(4)>>)
  <2>1. HalvesToTwo(op) = <<a, b>>  BY DEF HalvesToTwo
  <2>2. op \in GateNames  BY DEF GateNames
  <2>3. /\ Obeys(P, a) <=> (First(Half) \in Seq(D) => <<Fresh(1), Fresh(2)>> \in Seq(D))
        /\ Settles(P, a) <=> First(Half) \in Seq(D) /\ <<Fresh(1), Fresh(2)>> \in Seq(D)
    BY <2>2, GateSettles
  <2>4. /\ Obeys(P, b) <=> (Rest(Half) \in Seq(D) => <<Fresh(3), Fresh(4)>> \in Seq(D))
        /\ Settles(P, b) <=> Rest(Half) \in Seq(D) /\ <<Fresh(3), Fresh(4)>> \in Seq(D)
    BY <2>2, GateSettles
  <2> HIDE DEF a, b, D
  <2> QED  BY <1>1, <1>3, <2>1, <2>3, <2>4, ListSettles, DecidedTuples
<1> QED  BY <1>2, <1>3

LEMMA HalvesAreSeqs ==
  ASeq(HalvesToOne) /\ \A op : ASeq(HalvesToTwo(op))
  BY ListSettles DEF HalvesToOne, HalvesToTwo

LEMMA SumsFrom ==
  ASSUME NEW L, Mirrored(L), NEW a \in L, NEW b \in L, NEW c \in L, NEW d \in L
  PROVE  /\ {<<-a, -b>>} \in SUBSET Seq(L) /\ {<<a, b>>, <<-a, -b>>} \in SUBSET Seq(L)
         /\ SumAtMostTwo(a, b, c, d) \in SUBSET Seq(L)
         /\ SumIsTwo(a, b, c, d) \in SUBSET Seq(L)
         /\ {<<a, b, c>>, <<a, c, d>>} \in SUBSET Seq(L)
<1>1. -a \in L /\ -b \in L /\ -c \in L /\ -d \in L  BY DEF Mirrored
<1>2. SumAtMostTwo(a, b, c, d) \in SUBSET Seq(L)  BY <1>1, TupleLits DEF SumAtMostTwo
<1>3. SumIsTwo(a, b, c, d) \in SUBSET Seq(L)
  <2>1. \A p, q, r, t \in L : <<p, q, r, t>> \in Seq(L)  BY TupleLits
  <2> QED  BY <1>1, <2>1 DEF SumIsTwo
<1>4. (\A p, q \in L : <<p, q>> \in Seq(L)) /\ \A p, q, r \in L : <<p, q, r>> \in Seq(L)
  BY TupleLits
<1>5. {<<-a, -b>>} \in SUBSET Seq(L) /\ {<<a, b>>, <<-a, -b>>} \in SUBSET Seq(L)
  BY <1>1, <1>4
<1>6. {<<a, b, c>>, <<a, c, d>>} \in SUBSET Seq(L)  BY <1>4
<1> QED  BY <1>2, <1>3, <1>5, <1>6

(* Constraints that end with clauses over the halves.                      *)
LEMMA HalvesThenClauses ==
  ASSUME IInv, SInv, todo # <<>>, Len(In) > 4, Head(todo).op \notin GateNames \cup {"clauses"},
         NEW n, NEW H \in {HalvesToOne, HalvesToTwo("count_two"), HalvesToTwo("count_up_to_two")},
         NEW S, Become(n, H \o Batch(S)),
         H = HalvesToOne =>
           S \in {{<<-Fresh(1), -Fresh(2)>>},
                 {<<Fresh(1), Fresh(2)>>, <<-Fresh(1), -Fresh(2)>>}},
         H # HalvesToOne =>
           S \in {SumAtMostTwo(Fresh(1), Fresh(2), Fresh(3), Fresh(4)),
                 SumIsTwo(Fresh(1), Fresh(2), Fresh(3), Fresh(4)),
                 {<<Fresh(1), Fresh(2), Fresh(3)>>, <<Fresh(1), Fresh(3), Fresh(4)>>}}
  PROVE  SInv'
<1>1. ASeq(H) /\ ASeq(Batch(S))  BY HalvesAreSeqs, BatchSettles
<1>2. /\ ASeq(H \o Batch(S))
      /\ \A P : /\ ObeysAll(P, H \o Batch(S)) <=> ObeysAll(P, H) /\ ObeysAll(P, Batch(S))
                /\ SettlesAll(P, H \o Batch(S)) <=> SettlesAll(P, H) /\ SettlesAll(P, Batch(S))
  BY <1>1, ConcatSettles
<1>3. ASSUME NEW P \in Partial, In \in Seq(Decided(P)), ObeysAll(P, H)
      PROVE  SettlesAll(P, H) /\ S \in SUBSET Seq(Decided(P))
  <2>1. Mirrored(Decided(P))  BY DecidedFacts
  <2>2. CASE H = HalvesToOne
    <3>1. SettlesAll(P, H) /\ Fresh(1) \in Decided(P) /\ Fresh(2) \in Decided(P)
      BY <1>3, <2>2, HalvesSettle
    <3> DEFINE D == Decided(P)
               f1 == Fresh(1)
               f2 == Fresh(2)
    <3>2. S \in {{<<-f1, -f2>>}, {<<f1, f2>>, <<-f1, -f2>>}}  BY <2>2
    <3>3. Mirrored(D) /\ f1 \in D /\ f2 \in D  BY <2>1, <3>1
    <3> HIDE DEF D, f1, f2
    <3>4. S \in SUBSET Seq(D)
      <4>1. /\ {<<-f1, -f2>>} \in SUBSET Seq(D)
            /\ {<<f1, f2>>, <<-f1, -f2>>} \in SUBSET Seq(D)
        BY <3>3, SumsFrom
      <4> QED  BY <3>2, <4>1
    <3> QED  BY <3>1, <3>4 DEF D
  <2>3. CASE H # HalvesToOne
    <3>1. /\ SettlesAll(P, H)
          /\ Fresh(1) \in Decided(P) /\ Fresh(2) \in Decided(P)
          /\ Fresh(3) \in Decided(P) /\ Fresh(4) \in Decided(P)
      BY <1>3, <2>3, HalvesSettle
    <3> DEFINE D == Decided(P)
               f1 == Fresh(1)
               f2 == Fresh(2)
               f3 == Fresh(3)
               f4 == Fresh(4)
    <3>2. S \in {SumAtMostTwo(f1, f2, f3, f4), SumIsTwo(f1, f2, f3, f4),
                 {<<f1, f2, f3>>, <<f1, f3, f4>>}}
      BY <2>3
    <3>3. Mirrored(D) /\ f1 \in D /\ f2 \in D /\ f3 \in D /\ f4 \in D  BY <2>1, <3>1
    <3> HIDE DEF D, f1, f2, f3, f4
    <3>4. S \in SUBSET Seq(D)
      <4>1. SumAtMostTwo(f1, f2, f3, f4) \in SUBSET Seq(D)  BY <3>3, SumsFrom
      <4>2. SumIsTwo(f1, f2, f3, f4) \in SUBSET Seq(D)  BY <3>3, SumsFrom
      <4>3. {<<f1, f2, f3>>, <<f1, f3, f4>>} \in SUBSET Seq(D)  BY <3>3, SumsFrom
      <4> QED  BY <3>2, <4>1, <4>2, <4>3
    <3> QED  BY <3>1, <3>4 DEF D
  <2> QED  BY <2>2, <2>3
<1>4. Determines(H \o Batch(S))
  BY <1>2, <1>3, BatchSettles DEF Determines
<1> QED  BY <1>2, <1>4, BecomeSettles

LEMMA HalvesDiffer ==
  /\ HalvesToTwo("count_two") # HalvesToOne
  /\ HalvesToTwo("count_up_to_two") # HalvesToOne
<1>1. HalvesToOne[1].op = "count_one" /\ \A op : HalvesToTwo(op)[1].op = op
  BY DEF HalvesToOne, HalvesToTwo, GateCall, CallOf
<1> QED  BY <1>1

(* The functions that count by halves, and those that say what the sum is. *)
LEMMA AtMostOneSettles ==
  ASSUME IInv, SInv, AtMostOne
  PROVE  SInv'
<1>1. todo # <<>> /\ Head(todo).op = "at_most_one"  BY DEF AtMostOne, On
<1>2. Head(todo).op \notin GateNames \cup {"clauses"}  BY <1>1 DEF GateNames
<1>3. Len(In) \in Nat  BY <1>1, Setting
<1>4. CASE Len(In) > 4
  <2>1. Become(2, HalvesToOne \o Batch({<<-Fresh(1), -Fresh(2)>>}))
    <3>1. ~(Len(In) <= 1) /\ ~(Len(In) \in 2 .. 4)  BY <1>3, <1>4, Sizes
    <3> QED  BY <1>4, <3>1 DEF AtMostOne
  <2> QED  BY <1>1, <1>2, <1>4, <2>1, HalvesThenClauses
<1>5. CASE Len(In) <= 1
  <2>1. ~(Len(In) \in 2 .. 4) /\ ~(Len(In) > 4)  BY <1>3, <1>5, Sizes
  <2>2. Become(0, <<>>)  BY <1>5, <2>1 DEF AtMostOne
  <2> QED  BY <1>1, <1>2, <2>2, PlainCallsDetermine
<1>6. CASE Len(In) \in 2 .. 4
  <2>1. ~(Len(In) <= 1) /\ ~(Len(In) > 4)  BY <1>3, <1>6, Sizes
  <2>2. Become(0, <<Call("at_most_one_args", In)>>)  BY <1>6, <2>1 DEF AtMostOne
  <2> QED  BY <1>1, <1>2, <2>2, PlainCallsDetermine
<1>7. \A n \in Nat : n <= 1 \/ n \in 2 .. 4 \/ n > 4  OBVIOUS
<1> QED  BY <1>3, <1>4, <1>5, <1>6, <1>7

LEMMA ExactOneSettles ==
  ASSUME IInv, SInv, ExactOne
  PROVE  SInv'
<1>1. todo # <<>> /\ Head(todo).op = "exact_one"  BY DEF ExactOne, On
<1>2. Head(todo).op \notin GateNames \cup {"clauses"}  BY <1>1 DEF GateNames
<1>3. Len(In) \in Nat  BY <1>1, Setting
<1>4. CASE Len(In) > 4
  <2>1. Become(2, HalvesToOne \o
                    Batch({<<Fresh(1), Fresh(2)>>, <<-Fresh(1), -Fresh(2)>>}))
    <3>1. ~(Len(In) <= 1) /\ ~(Len(In) \in 2 .. 4)  BY <1>3, <1>4, Sizes
    <3> QED  BY <1>4, <3>1 DEF ExactOne
  <2> QED  BY <1>1, <1>2, <1>4, <2>1, HalvesThenClauses
<1>5. CASE Len(In) <= 1
  <2>1. Become(0, Batch({In}))
    <3>1. ~(Len(In) \in 2 .. 4) /\ ~(Len(In) > 4)  BY <1>3, <1>5, Sizes
    <3> QED  BY <1>5, <3>1 DEF ExactOne
  <2> QED  BY <1>1, <1>2, <2>1, BatchDetermines
<1>6. CASE Len(In) \in 2 .. 4
  <2>1. ~(Len(In) <= 1) /\ ~(Len(In) > 4)  BY <1>3, <1>6, Sizes
  <2>2. Become(0, <<Call("exact_one_args", In)>>)  BY <1>6, <2>1 DEF ExactOne
  <2> QED  BY <1>1, <1>2, <2>2, PlainCallsDetermine
<1>7. \A n \in Nat : n <= 1 \/ n \in 2 .. 4 \/ n > 4  OBVIOUS
<1> QED  BY <1>3, <1>4, <1>5, <1>6, <1>7

LEMMA AtMostTwoSettles ==
  ASSUME IInv, SInv, AtMostTwo
  PROVE  SInv'
<1>1. todo # <<>> /\ Head(todo).op = "at_most_two"  BY DEF AtMostTwo, On
<1>2. Head(todo).op \notin GateNames \cup {"clauses"}  BY <1>1 DEF GateNames
<1>3. Len(In) \in Nat  BY <1>1, Setting
<1>4. CASE Len(In) > 4
  <2>1. Become(4, HalvesToTwo("count_two") \o
                    Batch(SumAtMostTwo(Fresh(1), Fresh(2), Fresh(3), Fresh(4))))
    <3>1. ~(Len(In) <= 2) /\ ~(Len(In) \in 3 .. 4)  BY <1>3, <1>4, Sizes
    <3> QED  BY <1>4, <3>1 DEF AtMostTwo
  <2> QED  BY <1>1, <1>2, <1>4, <2>1, HalvesThenClauses, HalvesDiffer
<1>5. CASE Len(In) <= 2
  <2>1. ~(Len(In) \in 3 .. 4) /\ ~(Len(In) > 4)  BY <1>3, <1>5, Sizes
  <2>2. Become(0, <<>>)  BY <1>5, <2>1 DEF AtMostTwo
  <2> QED  BY <1>1, <1>2, <2>2, PlainCallsDetermine
<1>6. CASE Len(In) \in 3 .. 4
  <2>1. ~(Len(In) <= 2) /\ ~(Len(In) > 4)  BY <1>3, <1>6, Sizes
  <2>2. Become(0, <<Call("at_most_two_args", In)>>)  BY <1>6, <2>1 DEF AtMostTwo
  <2> QED  BY <1>1, <1>2, <2>2, PlainCallsDetermine
<1>7. \A n \in Nat : n <= 2 \/ n \in 3 .. 4 \/ n > 4  OBVIOUS
<1> QED  BY <1>3, <1>4, <1>5, <1>6, <1>7

LEMMA EmptySettles ==
  ASSUME IInv, SInv, todo # <<>>, Head(todo).op \notin GateNames \cup {"clauses"},
         Become(0, Batch({<<>>}))
  PROVE  SInv'
<1>1. \A P \in Partial : {<<>>} \in SUBSET Seq(Decided(P))  OBVIOUS
<1> QED  BY <1>1, BatchDetermines

LEMMA ExactTwoSettles ==
  ASSUME IInv, SInv, ExactTwo
  PROVE  SInv'
<1>1. todo # <<>> /\ Head(todo).op = "exact_two"  BY DEF ExactTwo, On
<1>2. Head(todo).op \notin GateNames \cup {"clauses"}  BY <1>1 DEF GateNames
<1>3. Len(In) \in Nat  BY <1>1, Setting
<1>4. CASE Len(In) > 4
  <2>1. Become(4, HalvesToTwo("count_two") \o
                    Batch(SumIsTwo(Fresh(1), Fresh(2), Fresh(3), Fresh(4))))
    <3>1. ~(Len(In) < 2) /\ Len(In) # 2 /\ ~(Len(In) \in 3 .. 4)  BY <1>3, <1>4, Sizes
    <3> QED  BY <1>4, <3>1 DEF ExactTwo
  <2> QED  BY <1>1, <1>2, <1>4, <2>1, HalvesThenClauses, HalvesDiffer
<1>5. CASE Len(In) < 2
  <2>1. Len(In) # 2 /\ ~(Len(In) \in 3 .. 4) /\ ~(Len(In) > 4)  BY <1>3, <1>5, Sizes
  <2>2. Become(0, Batch({<<>>}))  BY <1>5, <2>1 DEF ExactTwo
  <2> QED  BY <1>1, <1>2, <2>2, EmptySettles
<1>6. CASE Len(In) = 2
  <2>1. Become(0, Batch({<<In[1]>>, <<In[2]>>}))
    <3>1. ~(Len(In) < 2) /\ ~(Len(In) \in 3 .. 4) /\ ~(Len(In) > 4)  BY <1>3, <1>6, Sizes
    <3> QED  BY <1>6, <3>1 DEF ExactTwo
  <2>2. \A P \in Partial : In \in Seq(Decided(P)) =>
          {<<In[1]>>, <<In[2]>>} \in SUBSET Seq(Decided(P))
    BY <1>6, ShortSequences, TupleLits
  <2> QED  BY <1>1, <1>2, <2>1, <2>2, BatchDetermines
<1>7. CASE Len(In) \in 3 .. 4
  <2>1. ~(Len(In) < 2) /\ Len(In) # 2 /\ ~(Len(In) > 4)  BY <1>3, <1>7, Sizes
  <2>2. Become(0, <<Call("exact_two_args", In)>>)  BY <1>7, <2>1 DEF ExactTwo
  <2> QED  BY <1>1, <1>2, <2>2, PlainCallsDetermine
<1>8. \A n \in Nat : n < 2 \/ n = 2 \/ n \in 3 .. 4 \/ n > 4  OBVIOUS
<1> QED  BY <1>3, <1>4, <1>5, <1>6, <1>7, <1>8

LEMMA AtLeastTwoSettles ==
  ASSUME IInv, SInv, AtLeastTwo
  PROVE  SInv'
<1>1. todo # <<>> /\ Head(todo).op = "at_least_two"  BY DEF AtLeastTwo, On
<1>2. Head(todo).op \notin GateNames \cup {"clauses"}  BY <1>1 DEF GateNames
<1>3. Len(In) \in Nat  BY <1>1, Setting
<1>4. CASE Len(In) > 4
  <2>1. Become(4, HalvesToTwo("count_up_to_two") \o
                    Batch({<<Fresh(1), Fresh(2), Fresh(3)>>, <<Fresh(1), Fresh(3), Fresh(4)>>}))
    <3>1. ~(Len(In) < 2) /\ ~(Len(In) \in 2 .. 4)  BY <1>3, <1>4, Sizes
    <3> QED  BY <1>4, <3>1 DEF AtLeastTwo
  <2> QED  BY <1>1, <1>2, <1>4, <2>1, HalvesThenClauses, HalvesDiffer
<1>5. CASE Len(In) < 2
  <2>1. ~(Len(In) \in 2 .. 4) /\ ~(Len(In) > 4)  BY <1>3, <1>5, Sizes
  <2>2. Become(0, Batch({<<>>}))  BY <1>5, <2>1 DEF AtLeastTwo
  <2> QED  BY <1>1, <1>2, <2>2, EmptySettles
<1>6. CASE Len(In) \in 2 .. 4
  <2>1. ~(Len(In) < 2) /\ ~(Len(In) > 4)  BY <1>3, <1>6, Sizes
  <2>2. Become(0, <<Call("at_least_two_args", In)>>)  BY <1>6, <2>1 DEF AtLeastTwo
  <2> QED  BY <1>1, <1>2, <2>2, PlainCallsDetermine
<1>7. \A n \in Nat : n < 2 \/ n \in 2 .. 4 \/ n > 4  OBVIOUS
<1> QED  BY <1>3, <1>4, <1>5, <1>6, <1>7

(* A gate among calls.                                                     *)
LEMMA CalledGateSettles ==
  ASSUME NEW P, NEW op \in GateNames, NEW in, NEW out
  PROVE  /\ Obeys(P, GateCall(op, in, out)) /\ in \in Seq(Decided(P)) =>
              out \in Seq(Decided(P)) /\ Settles(P, GateCall(op, in, out))
         /\ ASeq(<<GateCall(op, in, out)>>)
  BY GateSettles, ListSettles

LEMMA CountOneSettles ==
  ASSUME IInv, SInv, CountOne
  PROVE  SInv'
<1>1. todo # <<>> /\ Head(todo).op = "count_one"  BY DEF CountOne, On
<1>2. Head(todo).op # "clauses"  BY <1>1
<1>3. Len(In) \in Nat /\ Len(In) >= 2 /\ Len(Out) = 1
  BY <1>1, Setting, Running DEF Shape, In, Out
<1>4. "or" \in GateNames  BY DEF GateNames
<1>5. CASE Len(In) \in 2 .. 4
  <2> DEFINE c == Call("at_most_one_args", In)
             d == GateCall("or", In, Out)
  <2>1. ~(Len(In) > 4)  BY <1>3, <1>5, Sizes
  <2>2. Become(0, <<c, d>>)  BY <1>5, <2>1 DEF CountOne
  <2>3. \A P : Settles(P, c) <=> In \in Seq(Decided(P))  BY PlainSettles
  <2>4. \A P : Obeys(P, d) /\ In \in Seq(Decided(P)) => Out \in Seq(Decided(P)) /\ Settles(P, d)
    BY <1>4, CalledGateSettles
  <2> HIDE DEF c, d
  <2>5. Determines(<<c, d>>) /\ ASeq(<<c, d>>)  BY <2>3, <2>4, ListSettles DEF Determines
  <2> QED  BY <1>1, <1>2, <2>2, <2>5, BecomeSettles
<1>6. CASE Len(In) > 4
  <2> DEFINE S == {<<-Fresh(1), -Fresh(2)>>}
             H == HalvesToOne
             B == Batch(S)
             d == GateCall("or", <<Fresh(1), Fresh(2)>>, Out)
             E == <<d>>
  <2>1. Become(2, (H \o B) \o E)
    <3>1. ~(Len(In) \in 2 .. 4)  BY <1>3, <1>6, Sizes
    <3> QED  BY <1>6, <3>1 DEF CountOne
  <2>2. ASeq(H)  BY HalvesAreSeqs
  <2>3. /\ ASeq(B)
        /\ \A P : SettlesAll(P, B) <=> S \subseteq Seq(Decided(P))
    BY BatchSettles
  <2>4. /\ ASeq(E)
        /\ \A P : /\ ObeysAll(P, E) <=> Obeys(P, d)
                  /\ SettlesAll(P, E) <=> Settles(P, d)
    BY ListSettles
  <2>5. ASSUME NEW P \in Partial, In \in Seq(Decided(P)), ObeysAll(P, H), Obeys(P, d)
        PROVE  /\ SettlesAll(P, H) /\ S \subseteq Seq(Decided(P)) /\ Settles(P, d)
               /\ Out \in Seq(Decided(P))
    <3>1. /\ SettlesAll(P, H) /\ Fresh(1) \in Decided(P) /\ Fresh(2) \in Decided(P)
      BY <1>1, <1>6, <2>5, HalvesSettle
    <3>2. S \subseteq Seq(Decided(P))  BY <3>1, DecidedFacts, SumsFrom
    <3>3. <<Fresh(1), Fresh(2)>> \in Seq(Decided(P))  BY <3>1, DecidedTuples
    <3>4. Settles(P, d) /\ Out \in Seq(Decided(P))  BY <1>4, <2>5, <3>3, CalledGateSettles
    <3> QED  BY <3>1, <3>2, <3>4
  <2> HIDE DEF S, H, B, d, E
  <2>6. /\ ASeq(H \o B)
        /\ \A P : /\ ObeysAll(P, H \o B) <=> ObeysAll(P, H) /\ ObeysAll(P, B)
                  /\ SettlesAll(P, H \o B) <=> SettlesAll(P, H) /\ SettlesAll(P, B)
    BY <2>2, <2>3, ConcatSettles
  <2>7. /\ ASeq((H \o B) \o E)
        /\ \A P : /\ ObeysAll(P, (H \o B) \o E) <=> ObeysAll(P, H \o B) /\ ObeysAll(P, E)
                  /\ SettlesAll(P, (H \o B) \o E) <=> SettlesAll(P, H \o B) /\ SettlesAll(P, E)
    BY <2>4, <2>6, ConcatSettles
  <2>8. Determines((H \o B) \o E)
    BY <2>3, <2>4, <2>5, <2>6, <2>7 DEF Determines
  <2> QED  BY <1>1, <1>2, <2>1, <2>7, <2>8, BecomeSettles
<1>7. \A n \in Nat : n >= 2 => n \in 2 .. 4 \/ n > 4  OBVIOUS
<1> QED  BY <1>3, <1>5, <1>6, <1>7

(* Four literals: two half adders, and the gates that add their outputs.   *)
LEMMA SumOfFourSettles ==
  ASSUME IInv, todo # <<>>, Len(In) = 4, Len(Out) = 2
  PROVE  /\ ASeq(SumOfFour)
         /\ \A P \in Partial : In \in Seq(Decided(P)) /\ ObeysAll(P, SumOfFour) =>
              SettlesAll(P, SumOfFour) /\ Out \in Seq(Decided(P))
<1> DEFINE f1 == Fresh(1)
           f2 == Fresh(2)
           f3 == Fresh(3)
           f4 == Fresh(4)
           f5 == Fresh(5)
           c == GateCall("half_adder", First(2), <<f2, f1>>)
           d == GateCall("half_adder", Rest(2), <<f4, f3>>)
           e == GateCall("half_adder", <<f1, f3>>, <<f5, Out[2]>>)
           f == GateCall("or", <<f2, f4, f5>>, <<Out[1]>>)
<1>1. SumOfFour = <<c, d, e, f>>  BY DEF SumOfFour
<1>2. ASSUME NEW P \in Partial, In \in Seq(Decided(P)),
             Obeys(P, c), Obeys(P, d), Obeys(P, e), Obeys(P, f)
      PROVE  /\ Settles(P, c) /\ Settles(P, d) /\ Settles(P, e) /\ Settles(P, f)
             /\ Out \in Seq(Decided(P))
  <2> DEFINE D == Decided(P)
  <2>1. "half_adder" \in GateNames /\ "or" \in GateNames  BY DEF GateNames
  <2>2. First(2) \in Seq(D) /\ Rest(2) \in Seq(D)
    <3>1. 2 \in 0 .. Len(In)  OBVIOUS
    <3> QED  BY <1>2, <3>1, PartsDecided
  <2>3. <<f2, f1>> \in Seq(D) /\ Settles(P, c)  BY <1>2, <2>1, <2>2, CalledGateSettles
  <2>4. <<f4, f3>> \in Seq(D) /\ Settles(P, d)  BY <1>2, <2>1, <2>2, CalledGateSettles
  <2>5. <<f1, f3>> \in Seq(D) /\ f2 \in D /\ f4 \in D
    <3> HIDE DEF D, f1, f2, f3, f4
    <3> QED  BY <2>3, <2>4, DecidedTuples
  <2>6. <<f5, Out[2]>> \in Seq(D) /\ Settles(P, e)  BY <1>2, <2>1, <2>5, CalledGateSettles
  <2>7. <<f2, f4, f5>> \in Seq(D) /\ Out[2] \in D
    <3> HIDE DEF D, f1, f2, f3, f4, f5
    <3> QED  BY <2>5, <2>6, DecidedTuples
  <2>8. <<Out[1]>> \in Seq(D) /\ Settles(P, f)  BY <1>2, <2>1, <2>7, CalledGateSettles
  <2>9. Out[1] \in D  BY <2>8, DecidedTuples
  <2> QED  BY <2>3, <2>4, <2>6, <2>7, <2>8, <2>9, TwoOut
<1> HIDE DEF c, d, e, f
<1>3. ASeq(<<c, d, e, f>>)  BY LongerLists
<1>4. ASSUME NEW P \in Partial, In \in Seq(Decided(P)), ObeysAll(P, SumOfFour)
      PROVE  SettlesAll(P, SumOfFour) /\ Out \in Seq(Decided(P))
  <2>1. Obeys(P, c) /\ Obeys(P, d) /\ Obeys(P, e) /\ Obeys(P, f)
    BY <1>1, <1>4, LongerLists
  <2>2. /\ Settles(P, c) /\ Settles(P, d) /\ Settles(P, e) /\ Settles(P, f)
        /\ Out \in Seq(Decided(P))
    BY <1>2, <1>4, <2>1
  <2> QED  BY <1>1, <2>2, LongerLists
<1> QED  BY <1>1, <1>3, <1>4

(* The last two gates of a sum of two halves.                              *)
LastGates(op) ==
  <<GateCall("half_adder", <<Fresh(2), Fresh(4)>>, <<Fresh(5), Out[2]>>),
    GateCall(op, <<Fresh(1), Fresh(3), Fresh(5)>>, <<Out[1]>>)>>

(* The gates that join the counts of the two halves.                       *)
LEMMA LastGatesSettle ==
  ASSUME IInv, todo # <<>>, Len(Out) = 2, NEW op \in {"or", "xor"}
  PROVE  /\ ASeq(LastGates(op))
         /\ \A P \in Partial :
              /\ Fresh(1) \in Decided(P) /\ Fresh(2) \in Decided(P)
              /\ Fresh(3) \in Decided(P) /\ Fresh(4) \in Decided(P)
              /\ ObeysAll(P, LastGates(op))
              => SettlesAll(P, LastGates(op)) /\ Out \in Seq(Decided(P))
<1> DEFINE f1 == Fresh(1)
           f2 == Fresh(2)
           f3 == Fresh(3)
           f4 == Fresh(4)
           f5 == Fresh(5)
           c == GateCall("half_adder", <<f2, f4>>, <<f5, Out[2]>>)
           d == GateCall(op, <<f1, f3, f5>>, <<Out[1]>>)
<1>1. LastGates(op) = <<c, d>>  BY DEF LastGates
<1>2. ASSUME NEW P \in Partial, f1 \in Decided(P), f2 \in Decided(P), f3 \in Decided(P),
             f4 \in Decided(P), Obeys(P, c), Obeys(P, d)
      PROVE  Settles(P, c) /\ Settles(P, d) /\ Out \in Seq(Decided(P))
  <2> DEFINE D == Decided(P)
  <2>1. "half_adder" \in GateNames /\ op \in GateNames  BY DEF GateNames
  <2>2. <<f2, f4>> \in Seq(D)  BY <1>2, DecidedTuples
  <2>3. <<f5, Out[2]>> \in Seq(D) /\ Settles(P, c)  BY <1>2, <2>1, <2>2, CalledGateSettles
  <2>4. <<f1, f3, f5>> \in Seq(D) /\ Out[2] \in D
    <3>1. f1 \in D /\ f3 \in D  BY <1>2
    <3> HIDE DEF D, f1, f2, f3, f4, f5
    <3> QED  BY <2>3, <3>1, DecidedTuples
  <2>5. <<Out[1]>> \in Seq(D) /\ Settles(P, d)  BY <1>2, <2>1, <2>4, CalledGateSettles
  <2>6. Out[1] \in D  BY <2>5, DecidedTuples
  <2> QED  BY <2>3, <2>4, <2>5, <2>6, TwoOut
<1> HIDE DEF c, d
<1>3. ASeq(<<c, d>>)  BY ListSettles
<1>4. ASSUME NEW P \in Partial, f1 \in Decided(P), f2 \in Decided(P), f3 \in Decided(P),
             f4 \in Decided(P), ObeysAll(P, LastGates(op))
      PROVE  SettlesAll(P, LastGates(op)) /\ Out \in Seq(Decided(P))
  <2>1. Obeys(P, c) /\ Obeys(P, d)  BY <1>1, <1>4, ListSettles
  <2>2. Settles(P, c) /\ Settles(P, d) /\ Out \in Seq(Decided(P))  BY <1>2, <1>4, <2>1
  <2> QED  BY <1>1, <2>2, ListSettles
<1> QED  BY <1>1, <1>3, <1>4

(* A first call with the function's own inputs, then a gate.               *)
LEMMA PlainThenGate ==
  ASSUME IInv, SInv, todo # <<>>, Head(todo).op # "clauses",
         NEW op \in GateNames, NEW a, a # "clauses"
  PROVE  /\ Become(0, <<GateCall(op, In, Out)>>) => SInv'
         /\ Become(0, <<Call(a, In), GateCall(op, In, Out)>>) => SInv'
<1> DEFINE c == Call(a, In)
           d == GateCall(op, In, Out)
<1>1. \A P : Settles(P, c) <=> In \in Seq(Decided(P))  BY PlainSettles
<1>2. \A P : Obeys(P, d) /\ In \in Seq(Decided(P)) => Out \in Seq(Decided(P)) /\ Settles(P, d)
  BY CalledGateSettles
<1> HIDE DEF c, d
<1>3. Determines(<<c, d>>) /\ ASeq(<<c, d>>)  BY <1>1, <1>2, ListSettles DEF Determines
<1>4. Determines(<<d>>) /\ ASeq(<<d>>)  BY <1>2, ListSettles DEF Determines
<1>5. Become(0, <<d>>) => SInv'  BY <1>4, BecomeSettles
<1>6. Become(0, <<c, d>>) => SInv'  BY <1>3, BecomeSettles
<1> QED  BY <1>5, <1>6 DEF c, d

(* Two long halves, clauses over them or none, and the gates that add      *)
(* them up.                                                                *)
LEMMA HalvesThenGates ==
  ASSUME IInv, SInv, todo # <<>>, Len(In) > 4, Len(Out) = 2, Head(todo).op # "clauses",
         NEW op \in {"count_two", "count_up_to_two"}, NEW g \in {"or", "xor"}
  PROVE  /\ Become(5, HalvesToTwo(op) \o LastGates(g)) => SInv'
         /\ Become(5, (HalvesToTwo(op) \o
                Batch(SumAtMostTwo(Fresh(1), Fresh(2), Fresh(3), Fresh(4)))) \o LastGates(g))
            => SInv'
<1> DEFINE f1 == Fresh(1)
           f2 == Fresh(2)
           f3 == Fresh(3)
           f4 == Fresh(4)
           S == SumAtMostTwo(f1, f2, f3, f4)
           H == HalvesToTwo(op)
           B == Batch(S)
           E == LastGates(g)
<1>1. ASeq(H) /\ ASeq(E)  BY HalvesAreSeqs, LastGatesSettle
<1>2. ASeq(B) /\ \A P : SettlesAll(P, B) <=> S \subseteq Seq(Decided(P))  BY BatchSettles
<1>3. ASSUME NEW P \in Partial, In \in Seq(Decided(P)), ObeysAll(P, H), ObeysAll(P, E)
      PROVE  /\ SettlesAll(P, H) /\ S \subseteq Seq(Decided(P)) /\ SettlesAll(P, E)
             /\ Out \in Seq(Decided(P))
  <2>1. /\ SettlesAll(P, H)
        /\ f1 \in Decided(P) /\ f2 \in Decided(P) /\ f3 \in Decided(P) /\ f4 \in Decided(P)
    BY <1>3, HalvesSettle
  <2>2. S \subseteq Seq(Decided(P))
    <3> DEFINE D == Decided(P)
    <3>1. Mirrored(D)  BY DecidedFacts
    <3>2. f1 \in D /\ f2 \in D /\ f3 \in D /\ f4 \in D  BY <2>1
    <3> HIDE DEF D, f1, f2, f3, f4
    <3>3. S \subseteq Seq(D)  BY <3>1, <3>2, SumsFrom
    <3> QED  BY <3>3 DEF D
  <2>3. SettlesAll(P, E) /\ Out \in Seq(Decided(P))  BY <1>3, <2>1, LastGatesSettle
  <2> QED  BY <2>1, <2>2, <2>3
<1> HIDE DEF S, H, B, E
<1>5. /\ ASeq(H \o E)
      /\ \A P : /\ ObeysAll(P, H \o E) <=> ObeysAll(P, H) /\ ObeysAll(P, E)
                /\ SettlesAll(P, H \o E) <=> SettlesAll(P, H) /\ SettlesAll(P, E)
  BY <1>1, ConcatSettles
<1>6. /\ ASeq(H \o B)
      /\ \A P : /\ ObeysAll(P, H \o B) <=> ObeysAll(P, H) /\ ObeysAll(P, B)
                /\ SettlesAll(P, H \o B) <=> SettlesAll(P, H) /\ SettlesAll(P, B)
  BY <1>1, <1>2, ConcatSettles
<1>7. /\ ASeq((H \o B) \o E)
      /\ \A P : /\ ObeysAll(P, (H \o B) \o E) <=> ObeysAll(P, H \o B) /\ ObeysAll(P, E)
                /\ SettlesAll(P, (H \o B) \o E) <=> SettlesAll(P, H \o B) /\ SettlesAll(P, E)
  BY <1>1, <1>6, ConcatSettles
<1>8. Determines(H \o E)  BY <1>3, <1>5 DEF Determines
<1>9. Determines((H \o B) \o E)  BY <1>2, <1>3, <1>6, <1>7 DEF Determines
<1>10. Become(5, H \o E) => SInv'  BY <1>5, <1>8, BecomeSettles
<1>11. Become(5, (H \o B) \o E) => SInv'  BY <1>7, <1>9, BecomeSettles
<1> QED  BY <1>10, <1>11 DEF S, H, B, E

LEMMA CountTwoSettles ==
  ASSUME IInv, SInv, CountTwo
  PROVE  SInv'
<1>1. todo # <<>> /\ Head(todo).op = "count_two"  BY DEF CountTwo, On
<1>2. Head(todo).op # "clauses"  BY <1>1
<1>3. Len(In) \in Nat /\ Len(In) >= 2 /\ Len(Out) = 2
  BY <1>1, Setting, Running DEF Shape, In, Out
<1>4. "half_adder" \in GateNames /\ "full_adder" \in GateNames  BY DEF GateNames
<1>5. CASE Len(In) = 2
  <2>1. Become(0, <<Call("at_most_two_args", In), GateCall("half_adder", In, Out)>>)
    <3>1. Len(In) # 3 /\ Len(In) # 4 /\ ~(Len(In) > 4)  BY <1>3, <1>5, Sizes
    <3> QED  BY <1>5, <3>1 DEF CountTwo
  <2> QED  BY <1>1, <1>2, <1>4, <2>1, PlainThenGate
<1>6. CASE Len(In) = 3
  <2>1. Become(0, <<Call("at_most_two_args", In), GateCall("full_adder", In, Out)>>)
    <3>1. Len(In) # 2 /\ Len(In) # 4 /\ ~(Len(In) > 4)  BY <1>6
    <3> QED  BY <1>6, <3>1 DEF CountTwo
  <2> QED  BY <1>1, <1>2, <1>4, <2>1, PlainThenGate
<1>7. CASE Len(In) = 4
  <2> DEFINE c == Call("at_most_two_args", In)
             C == <<c>>
             E == SumOfFour
  <2>1. Become(5, C \o E)
    <3>1. Len(In) # 2 /\ Len(In) # 3 /\ ~(Len(In) > 4)  BY <1>7
    <3> QED  BY <1>7, <3>1 DEF CountTwo
  <2>2. \A P : Settles(P, c) <=> In \in Seq(Decided(P))  BY PlainSettles
  <2>3. ASeq(C) /\ \A P : SettlesAll(P, C) <=> Settles(P, c)  BY ListSettles
  <2>4. /\ ASeq(E)
        /\ \A P \in Partial : In \in Seq(Decided(P)) /\ ObeysAll(P, E) =>
             SettlesAll(P, E) /\ Out \in Seq(Decided(P))
    BY <1>1, <1>3, <1>7, SumOfFourSettles
  <2> HIDE DEF c, C, E
  <2>5. /\ ASeq(C \o E)
        /\ \A P : /\ ObeysAll(P, C \o E) <=> ObeysAll(P, C) /\ ObeysAll(P, E)
                  /\ SettlesAll(P, C \o E) <=> SettlesAll(P, C) /\ SettlesAll(P, E)
    BY <2>3, <2>4, ConcatSettles
  <2>6. Determines(C \o E)  BY <2>2, <2>3, <2>4, <2>5 DEF Determines
  <2> QED  BY <1>1, <1>2, <2>1, <2>5, <2>6, BecomeSettles
<1>8. CASE Len(In) > 4
  <2>1. Become(5, (HalvesToTwo("count_two") \o
          Batch(SumAtMostTwo(Fresh(1), Fresh(2), Fresh(3), Fresh(4)))) \o LastGates("xor"))
    <3>1. Len(In) # 2 /\ Len(In) # 3 /\ Len(In) # 4  BY <1>3, <1>8, Sizes
    <3> QED  BY <1>8, <3>1 DEF CountTwo, LastGates
  <2> QED  BY <1>1, <1>2, <1>3, <1>8, <2>1, HalvesThenGates
<1>9. \A n \in Nat : n >= 2 => n = 2 \/ n = 3 \/ n = 4 \/ n > 4  OBVIOUS
<1> QED  BY <1>3, <1>5, <1>6, <1>7, <1>8, <1>9

LEMMA CountUpToTwoSettles ==
  ASSUME IInv, SInv, CountUpToTwo
  PROVE  SInv'
<1>1. todo # <<>> /\ Head(todo).op = "count_up_to_two"  BY DEF CountUpToTwo, On
<1>2. Head(todo).op # "clauses"  BY <1>1
<1>3. Len(In) \in Nat /\ Len(In) >= 2 /\ Len(Out) = 2
  BY <1>1, Setting, Running DEF Shape, In, Out
<1>4. /\ "half_adder" \in GateNames /\ "full_adder" \in GateNames
      /\ "at_most_two_args" # "clauses"
  BY DEF GateNames
<1>5. CASE Len(In) = 2
  <2>1. Become(0, <<GateCall("half_adder", In, Out)>>)
    <3>1. Len(In) # 3 /\ Len(In) # 4 /\ ~(Len(In) > 4)  BY <1>3, <1>5, Sizes
    <3> QED  BY <1>5, <3>1 DEF CountUpToTwo
  <2> QED  BY <1>1, <1>2, <1>4, <2>1, PlainThenGate
<1>6. CASE Len(In) = 3
  <2>1. Become(0, <<GateCall("full_adder", In, Out)>>)
    <3>1. Len(In) # 2 /\ Len(In) # 4 /\ ~(Len(In) > 4)  BY <1>6
    <3> QED  BY <1>6, <3>1 DEF CountUpToTwo
  <2> QED  BY <1>1, <1>2, <1>4, <2>1, PlainThenGate
<1>7. CASE Len(In) = 4
  <2>1. Become(5, SumOfFour)
    <3>1. Len(In) # 2 /\ Len(In) # 3 /\ ~(Len(In) > 4)  BY <1>7
    <3> QED  BY <1>7, <3>1 DEF CountUpToTwo
  <2>2. Determines(SumOfFour) /\ ASeq(SumOfFour)
    BY <1>1, <1>3, <1>7, SumOfFourSettles DEF Determines
  <2> QED  BY <1>1, <1>2, <2>1, <2>2, BecomeSettles
<1>8. CASE Len(In) > 4
  <2>1. Become(5, HalvesToTwo("count_up_to_two") \o LastGates("or"))
    <3>1. Len(In) # 2 /\ Len(In) # 3 /\ Len(In) # 4  BY <1>3, <1>8, Sizes
    <3> QED  BY <1>8, <3>1 DEF CountUpToTwo, LastGates
  <2> QED  BY <1>1, <1>2, <1>3, <1>8, <2>1, HalvesThenGates
<1>9. \A n \in Nat : n >= 2 => n = 2 \/ n = 3 \/ n = 4 \/ n > 4  OBVIOUS
<1> QED  BY <1>3, <1>5, <1>6, <1>7, <1>8, <1>9

-----------------------------------------------------------------------------
(* The comparisons of vectors.                                             *)

(* The vectors of a decided list of literals are decided.                  *)
LEMMA OperandsDecided ==
  ASSUME IInv, todo # <<>>, Head(todo).op \in VectorNames, NEW P, In \in Seq(Decided(P))
  PROVE  VecA \in Seq(Decided(P)) /\ VecB \in Seq(Decided(P))
<1>1. Shape(Head(todo)) /\ Head(todo).in \in Seq(Decided(P))  BY Running DEF In
<1>2. VecA = Lhs(Head(todo)) /\ VecB = Rhs(Head(todo))  BY Comparing
<1> QED  BY <1>1, <1>2, Operands

(* A function that adds clauses about variables it has made.               *)
LEMMA FreshDetermines ==
  ASSUME IInv, SInv, todo # <<>>, Head(todo).op \in VectorNames, NEW n, NEW S,
         Become(n, Batch(S)),
         \A P \in Partial :
           /\ VecA \in Seq(Decided(P)) /\ VecB \in Seq(Decided(P)) /\ ObeysClauses(P, S)
           => S \in SUBSET Seq(Decided(P))
  PROVE  SInv'
<1>1. \A P : In \in Seq(Decided(P)) => VecA \in Seq(Decided(P)) /\ VecB \in Seq(Decided(P))
  BY OperandsDecided
<1>2. Head(todo).op # "clauses" /\ Head(todo).op \notin GateNames  BY DEF VectorNames, GateNames
<1>3. Determines(Batch(S)) /\ ASeq(Batch(S))
  BY <1>1, <1>2, BatchSettles DEF Determines, ObeysClauses
<1> QED  BY <1>2, <1>3, BecomeSettles

LEMMA AddEqSettles ==
  ASSUME IInv, SInv, AddEq
  PROVE  SInv'
<1>1. /\ todo # <<>> /\ Head(todo).op \in VectorNames
      /\ Become(0, Batch(EqualBits(VecA, VecB)))
  BY DEF AddEq, On, VectorNames
<1>2. ASSUME NEW P \in Partial, VecA \in Seq(Decided(P)), VecB \in Seq(Decided(P))
      PROVE  EqualBits(VecA, VecB) \in SUBSET Seq(Decided(P))
  BY <1>2, DecidedFacts, EqualBitsFrom
<1> QED  BY <1>1, <1>2, FreshDetermines

LEMMA AddNeSettles ==
  ASSUME IInv, SInv, AddNe
  PROVE  SInv'
<1> DEFINE c == Common(VecA, VecB)
           S == DifferentBits(VecA, VecB, nvar)
<1>1. /\ todo # <<>> /\ Head(todo).op \in VectorNames /\ Become(c, Batch(S))
  BY DEF AddNe, On, VectorNames
<1>2. nvar \in Nat  BY <1>1, Comparing
<1>3. ASSUME NEW P \in Partial, VecA \in Seq(Decided(P)), VecB \in Seq(Decided(P)),
             ObeysClauses(P, S)
      PROVE  S \in SUBSET Seq(Decided(P))
  <2>1. \A i \in 1 .. c : VecA[i] \in Decided(P) /\ VecB[i] \in Decided(P)
    BY <1>3, CommonBits
  <2>2. ASSUME NEW i \in 1 .. c PROVE nvar + i \in Decided(P)
    <3>1. ObeysClauses(P, XorGate2(nvar + i, VecA[i], VecB[i]))
      BY <1>3 DEF ObeysClauses, DifferentBits
    <3>2. nvar + i \in Literal  BY <1>2, <1>3, CommonBits DEF Literal
    <3> QED  BY <2>1, <3>1, <3>2, GatesDecide
  <2> QED  BY <1>2, <1>3, <2>2, DecidedFacts, DifferentBitsFrom
<1> HIDE DEF c, S
<1> QED  BY <1>1, <1>3, FreshDetermines

(* One bit of a comparison.                                                *)
LEMMA BitsDecide ==
  ASSUME NEW P \in Partial, NEW f \in Decided(P), NEW a \in Decided(P), NEW b \in Decided(P),
         NEW e \in Literal, NEW l \in Literal
  PROVE  /\ ObeysClauses(P, EqualHere(e, f, a, b)) => e \in Decided(P)
         /\ ObeysClauses(P, LessHere(l, f, a, b)) => l \in Decided(P)
         /\ ObeysClauses(P, AtMostHere(l, f, a, b)) => l \in Decided(P)
<1>1. /\ f \in P \/ -f \in P
      /\ a \in P \/ -a \in P
      /\ b \in P \/ -b \in P
      /\ -(-a) = a /\ -(-b) = b /\ -(-f) = f
  BY DecidedFacts
<1>2. \A m \in Literal : m \in P \/ -m \in P => m \in Decided(P)  BY DecidedFacts
<1>3. ASSUME ObeysClauses(P, EqualHere(e, f, a, b)) PROVE e \in Decided(P)
  <2>1. /\ Obeyed(P, <<-e, f>>) /\ Obeyed(P, <<-e, -a, b>>) /\ Obeyed(P, <<-e, a, -b>>)
        /\ Obeyed(P, <<e, -f, -a, -b>>) /\ Obeyed(P, <<e, -f, a, b>>)
    BY <1>3 DEF ObeysClauses, EqualHere
  <2> QED  BY <1>1, <1>2, <2>1, ObeyedShort
<1>4. ASSUME ObeysClauses(P, LessHere(l, f, a, b)) PROVE l \in Decided(P)
  <2>1. <<f, -a, b>> \in Seq(Decided(P))
    <3>1. -a \in Decided(P)  BY DecidedFacts DEF Mirrored
    <3> QED  BY <3>1, TupleLits
  <2> QED  BY <1>4, <2>1, WideGatesDecide DEF LessHere
<1>5. ASSUME ObeysClauses(P, AtMostHere(l, f, a, b)) PROVE l \in Decided(P)
  <2>1. /\ Obeyed(P, <<-l, f>>) /\ Obeyed(P, <<-l, -a, b>>)
        /\ Obeyed(P, <<l, -f, a>>) /\ Obeyed(P, <<l, -f, -b>>)
    BY <1>5 DEF ObeysClauses, AtMostHere
  <2> QED  BY <1>1, <1>2, <2>1, ObeyedShort
<1> QED  BY <1>3, <1>4, <1>5

(* The bits before the ones that are compared one by one.                  *)
LEMMA TopDecides ==
  ASSUME NEW P \in Partial, NEW a \in Seq(Decided(P)), NEW b \in Seq(Decided(P)),
         Len(a) >= 1, Len(b) >= 1, NEW x \in Nat, ObeysClauses(P, CompareTop(a, b, x))
  PROVE  x + 1 \in Decided(P) /\ (Len(a) = Len(b) => x + 2 \in Decided(P))
<1>1. /\ Mirrored(Decided(P)) /\ x + 1 \in Literal /\ x + 2 \in Literal
      /\ -(x + 1) \in Literal /\ -(-(x + 1)) = x + 1
  <2>1. /\ x + 1 \in Literal /\ x + 2 \in Literal
        /\ -(x + 1) \in Literal /\ -(-(x + 1)) = x + 1
    BY DEF Literal
  <2> QED  BY <2>1, DecidedFacts
<1>2. CASE Len(a) = Len(b)
  <2> DEFINE c == Common(a, b)
  <2>1. a[c] \in Decided(P) /\ b[c] \in Decided(P) /\ -a[c] \in Decided(P)
    <3>1. c \in 1 .. c /\ \A i \in 1 .. c : a[i] \in Decided(P) /\ b[i] \in Decided(P)
      <4>1. /\ c \in Nat /\ c = Len(a)
            /\ \A i \in 1 .. c : a[i] \in Decided(P) /\ b[i] \in Decided(P)
        BY <1>2, CommonBits
      <4> QED  BY <4>1
    <3> QED  BY <1>1, <3>1 DEF Mirrored
  <2>2. /\ ObeysClauses(P, XorGate2(-(x + 1), a[c], b[c]))
        /\ ObeysClauses(P, AndGate(x + 2, <<-a[c], b[c]>>))
    BY <1>2 DEF ObeysClauses, CompareTop
  <2> HIDE DEF c
  <2>3. -(x + 1) \in Decided(P)  BY <1>1, <2>1, <2>2, GatesDecide
  <2>4. x + 2 \in Decided(P)
    <3>1. <<-a[c], b[c]>> \in Seq(Decided(P))  BY <2>1, TupleLits
    <3> QED  BY <1>1, <2>2, <3>1, WideGatesDecide
  <2>5. x + 1 \in Decided(P)  BY <1>1, <2>3 DEF Mirrored
  <2> QED  BY <2>4, <2>5
<1>3. CASE Len(a) # Len(b)
  <2>1. Extra(a, b) \in Seq(Decided(P))  BY CommonBits
  <2>2. Negated(Extra(a, b)) \in Seq(Decided(P))
    <3>1. a[1] \in Decided(P)  OBVIOUS
    <3> QED  BY <1>1, <2>1, <3>1, WideGatesFrom
  <2>3. ObeysClauses(P, AndGate(x + 1, Negated(Extra(a, b))))  BY <1>3 DEF CompareTop
  <2> QED  BY <1>1, <1>3, <2>2, <2>3, WideGatesDecide
<1> QED  BY <1>2, <1>3

(* From the high bits down, "equal so far" and "less here" are decided.    *)
LEMMA CompareDecides ==
  ASSUME NEW P \in Partial, NEW a \in Seq(Decided(P)), NEW b \in Seq(Decided(P)),
         Len(a) >= 1, Len(b) >= 1, ~(Len(a) = 1 /\ Len(b) = 1), NEW x \in Nat,
         NEW strict \in BOOLEAN, ObeysClauses(P, CompareBits(strict, a, b, x))
  PROVE  \A i \in 1 .. CompareVars(strict, a, b) : x + i \in Decided(P)
<1> DEFINE n == OneByOne(a, b)
           t == TopVars(a, b)
           y == x + t
           m == CompareVars(strict, a, b)
           e(j) == EqualAbove(x + 1, y, n, j)
           l(j) == LessAt(strict, y, n, j)
<1>1. a \in Clause /\ b \in Clause
  <2>1. Decided(P) \in SUBSET Literal  BY DecidedFacts
  <2>2. Seq(Decided(P)) \subseteq Seq(Literal)  BY <2>1, SeqGrows
  <2> QED  BY <2>2 DEF Clause
<1>2. /\ n \in Nat /\ n >= 1 /\ t \in 1 .. 2
      /\ Len(a) = Len(b) => t = 2
      /\ Len(a) # Len(b) => t = 1
      /\ \A j \in 1 .. n : a[j] \in Decided(P) /\ b[j] \in Decided(P)
  <2>1. /\ n \in Nat /\ n >= 1 /\ n <= Common(a, b) /\ Common(a, b) \in Nat /\ t \in 1 .. 2
        /\ Len(a) = Len(b) => t = 2
        /\ Len(a) # Len(b) => t = 1
    BY <1>1, Ladder
  <2>2. \A j \in 1 .. Common(a, b) : a[j] \in Decided(P) /\ b[j] \in Decided(P)  BY CommonBits
  <2> HIDE DEF n, t
  <2>3. \A j \in 1 .. n : j \in 1 .. Common(a, b)  BY <2>1
  <2> QED  BY <2>1, <2>2, <2>3
<1>3. /\ ObeysClauses(P, CompareTop(a, b, x))
      /\ \A j \in 1 .. n : ObeysClauses(P, CompareBit(strict, a, b, x + 1, y, n, j))
  BY DEF ObeysClauses, CompareBits
<1>4. m = t + 2 * n - (IF strict THEN 0 ELSE 1)  BY DEF CompareVars
<1>5. x + 1 \in Decided(P) /\ (Len(a) = Len(b) => x + 2 \in Decided(P))
  BY <1>3, TopDecides
<1> HIDE DEF n, t, m
<1>6. /\ \A j \in 0 .. n : e(j) \in Literal
      /\ \A j \in 1 .. n : l(j) \in Literal
      /\ e(n) = x + 1
      /\ \A j \in 0 .. n - 1 : e(j) = y + 2 * (n - j) - 1
      /\ \A j \in 1 .. n : l(j) = y + 2 * (n - j) + (IF strict \/ j > 1 THEN 2 ELSE 1)
  <2>1. y \in Nat  BY <1>2
  <2> DEFINE f == x + 1
  <2>2. f \in Literal  BY DEF Literal
  <2> HIDE DEF f, y
  <2>3. /\ \A j \in 0 .. n : EqualAbove(f, y, n, j) \in Literal
        /\ \A j \in 1 .. n : LessAt(strict, y, n, j) \in Literal
        /\ EqualAbove(f, y, n, n) = f
        /\ \A j \in 0 .. n - 1 : EqualAbove(f, y, n, j) = y + 2 * (n - j) - 1
    BY <1>2, <2>1, <2>2, BitLits
  <2>4. \A j \in 1 .. n :
          LessAt(strict, y, n, j) = y + 2 * (n - j) + (IF strict \/ j > 1 THEN 2 ELSE 1)
    BY DEF LessAt
  <2> QED  BY <2>3, <2>4 DEF f
<1>7. ASSUME NEW j \in 1 .. n, e(j) \in Decided(P)
      PROVE  /\ strict \/ j > 1 => e(j - 1) \in Decided(P)
             /\ l(j) \in Decided(P)
  <2>1. j - 1 \in 0 .. n /\ l(j) \in Literal /\ a[j] \in Decided(P) /\ b[j] \in Decided(P)
    BY <1>2, <1>6
  <2>2. e(j - 1) \in Literal  BY <1>6, <2>1
  <2>3. ObeysClauses(P, CompareBit(strict, a, b, x + 1, y, n, j))  BY <1>3
  <2>4. CASE strict \/ j > 1
    <3>1. /\ ObeysClauses(P, EqualHere(e(j - 1), e(j), a[j], b[j]))
          /\ ObeysClauses(P, LessHere(l(j), e(j), a[j], b[j]))
      BY <2>3, <2>4 DEF ObeysClauses, CompareBit
    <3> HIDE DEF e, l
    <3> QED  BY <1>7, <2>1, <2>2, <3>1, BitsDecide
  <2>5. CASE ~(strict \/ j > 1)
    <3>1. ObeysClauses(P, AtMostHere(l(j), e(j), a[j], b[j]))
      BY <2>3, <2>5 DEF CompareBit
    <3> HIDE DEF e, l
    <3> QED  BY <1>7, <2>1, <2>5, <3>1, BitsDecide
  <2> QED  BY <2>4, <2>5
<1> HIDE DEF e, l
<1>8. \A j \in 1 .. n : e(j) \in Decided(P)
  <2> DEFINE S == {k \in Nat : k <= n - 1 => e(n - k) \in Decided(P)}
  <2>1. 0 \in S
    <3>1. n - 0 = n  BY <1>2
    <3> QED  BY <1>5, <1>6, <3>1
  <2>2. ASSUME NEW k \in Nat, k \in S PROVE k + 1 \in S
    <3> SUFFICES ASSUME k + 1 <= n - 1 PROVE e(n - (k + 1)) \in Decided(P)  OBVIOUS
    <3>1. k <= n - 1 /\ n - k \in 1 .. n /\ n - k > 1 /\ (n - k) - 1 = n - (k + 1)  BY <1>2
    <3>2. e(n - k) \in Decided(P)  BY <2>2, <3>1
    <3>3. e((n - k) - 1) \in Decided(P)  BY <1>7, <3>1, <3>2
    <3> QED  BY <3>1, <3>3
  <2>3. \A k \in Nat : k \in S
    <3> HIDE DEF S
    <3> QED  BY <2>1, <2>2, Numbers
  <2> TAKE j \in 1 .. n
  <2>4. n - j \in Nat /\ n - j <= n - 1 /\ n - (n - j) = j  BY <1>2
  <2>5. e(n - (n - j)) \in Decided(P)  BY <2>3, <2>4
  <2> QED  BY <2>4, <2>5
<1>9. /\ \A j \in 1 .. n : l(j) \in Decided(P)
      /\ \A j \in 1 .. n : strict \/ j > 1 => e(j - 1) \in Decided(P)
  BY <1>7, <1>8
<1>10. (strict => m = t + 2 * n) /\ (~strict => m = t + 2 * n - 1)  BY <1>2, <1>4
<1>11. ASSUME NEW i \in 1 .. m PROVE x + i \in Decided(P)
  <2>1. CASE i <= t
    <3>1. i = 1 \/ (t = 2 /\ i = 2)  BY <1>2, <2>1
    <3>2. t = 2 => Len(a) = Len(b)  BY <1>2
    <3> QED  BY <1>5, <3>1, <3>2
  <2>2. CASE i > t
    <3> DEFINE r == i - t - 1
               q == r \div 2
               j == n - q
    <3>1. /\ r \in Nat /\ i = t + 1 + r /\ x + i = y + r + 1
          /\ (strict => r <= 2 * n - 1) /\ (~strict => r <= 2 * n - 2)
      BY <1>2, <1>10, <2>2
    <3>2. q \in Nat /\ (r = 2 * q \/ r = 2 * q + 1)
      <4> HIDE DEF r
      <4> QED  BY <3>1
    <3> HIDE DEF r, q
    <3>3. j \in 1 .. n /\ n - j = q  BY <1>2, <3>1, <3>2
    <3>4. CASE r = 2 * q /\ (strict \/ j > 1)
      <4>1. e(j - 1) \in Decided(P)  BY <1>9, <3>3, <3>4
      <4>2. j - 1 \in 0 .. n - 1  BY <1>2, <3>3
      <4>3. e(j - 1) = y + 2 * (n - (j - 1)) - 1  BY <1>6, <4>2
      <4>4. y + 2 * (n - (j - 1)) - 1 = x + i  BY <1>2, <3>1, <3>2, <3>3, <3>4
      <4> QED  BY <4>1, <4>3, <4>4
    <3>5. CASE r = 2 * q /\ ~(strict \/ j > 1)
      <4>1. l(j) = y + 2 * (n - j) + 1  BY <1>6, <3>3, <3>5
      <4>2. y + 2 * (n - j) + 1 = x + i  BY <1>2, <3>1, <3>2, <3>3, <3>5
      <4> QED  BY <1>9, <3>3, <4>1, <4>2
    <3>6. CASE r = 2 * q + 1
      <4>1. strict \/ j > 1
        <5>1. ~strict => j > 1  BY <1>2, <3>1, <3>2, <3>3, <3>6
        <5> QED  BY <5>1
      <4>2. l(j) = y + 2 * (n - j) + 2  BY <1>6, <3>3, <4>1
      <4>3. y + 2 * (n - j) + 2 = x + i  BY <1>2, <3>1, <3>2, <3>3, <3>6
      <4> QED  BY <1>9, <3>3, <4>2, <4>3
    <3> QED  BY <3>2, <3>4, <3>5, <3>6
  <2>3. i \in Int /\ t \in Int  BY <1>2, <1>10
  <2> QED  BY <2>1, <2>2, <2>3
<1> QED  BY <1>11 DEF m

LEMMA CompareSettles ==
  ASSUME IInv, SInv, todo # <<>>, Head(todo).op \in VectorNames, ~OneBitEach,
         NEW strict \in BOOLEAN, Compare(strict)
  PROVE  SInv'
<1> DEFINE m == CompareVars(strict, VecA, VecB)
           S == CompareBits(strict, VecA, VecB, nvar)
<1>1. Become(m, Batch(S))  BY DEF Compare
<1>2. /\ nvar \in Nat /\ VecA \in Clause /\ VecB \in Clause
      /\ Len(VecA) >= 1 /\ Len(VecB) >= 1 /\ ~(Len(VecA) = 1 /\ Len(VecB) = 1)
  BY Comparing DEF OneBitEach
<1>3. ASSUME NEW P \in Partial, VecA \in Seq(Decided(P)), VecB \in Seq(Decided(P)),
             ObeysClauses(P, S)
      PROVE  S \in SUBSET Seq(Decided(P))
  <2>1. \A i \in 1 .. m : nvar + i \in Decided(P)  BY <1>2, <1>3, CompareDecides
  <2>2. Mirrored(Decided(P))  BY DecidedFacts
  <2> QED  BY <1>2, <1>3, <2>1, <2>2, CompareBitsFrom
<1> HIDE DEF m, S
<1> QED  BY <1>1, <1>3, FreshDetermines

LEMMA OneBitSettles ==
  ASSUME IInv, SInv, todo # <<>>, Head(todo).op \in VectorNames, OneBitEach,
         \/ Become(0, Batch({<<-VecA[1]>>, <<VecB[1]>>}))
         \/ Become(0, Batch({<<-VecA[1], VecB[1]>>}))
  PROVE  SInv'
<1> DEFINE S == {<<-VecA[1]>>, <<VecB[1]>>}
           T == {<<-VecA[1], VecB[1]>>}
<1>1. ASSUME NEW P \in Partial, VecA \in Seq(Decided(P)), VecB \in Seq(Decided(P))
      PROVE  S \in SUBSET Seq(Decided(P)) /\ T \in SUBSET Seq(Decided(P))
  <2>1. VecA[1] \in Decided(P) /\ VecB[1] \in Decided(P)
    BY <1>1, ShortSequences DEF OneBitEach
  <2>2. -VecA[1] \in Decided(P)  BY <2>1, DecidedFacts DEF Mirrored
  <2> QED  BY <2>1, <2>2, TupleLits
<1> HIDE DEF S, T
<1>2. CASE Become(0, Batch(S))  BY <1>1, <1>2, FreshDetermines
<1>3. CASE Become(0, Batch(T))  BY <1>1, <1>3, FreshDetermines
<1> QED  BY <1>2, <1>3 DEF S, T

LEMMA AddLtSettles ==
  ASSUME IInv, SInv, AddLt
  PROVE  SInv'
<1>1. /\ todo # <<>> /\ Head(todo).op \in VectorNames
      /\ IF OneBitEach THEN Become(0, Batch({<<-VecA[1]>>, <<VecB[1]>>})) ELSE Compare(TRUE)
  BY DEF AddLt, On, VectorNames
<1> QED  BY <1>1, OneBitSettles, CompareSettles

LEMMA AddLeSettles ==
  ASSUME IInv, SInv, AddLe
  PROVE  SInv'
<1>1. /\ todo # <<>> /\ Head(todo).op \in VectorNames
      /\ IF OneBitEach THEN Become(0, Batch({<<-VecA[1], VecB[1]>>})) ELSE Compare(FALSE)
  BY DEF AddLe, On, VectorNames
<1> QED  BY <1>1, OneBitSettles, CompareSettles

LEMMA SwappedSettles ==
  ASSUME IInv, SInv, todo # <<>>, Head(todo).op \in VectorNames, NEW op \in VectorNames,
         Become(0, Swapped(op))
  PROVE  SInv'
<1> DEFINE c == CallOf(op, VecB \o VecA, <<>>, <<Len(VecB)>>)
<1>1. Become(0, <<c>>)  BY DEF Swapped
<1>2. \A P : Settles(P, c) <=> VecB \o VecA \in Seq(Decided(P))
  <2>1. op # "clauses"  BY DEF VectorNames
  <2> QED  BY <2>1, CallSettles
<1>3. \A P : In \in Seq(Decided(P)) => VecB \o VecA \in Seq(Decided(P))
  <2> TAKE P
  <2> HAVE In \in Seq(Decided(P))
  <2>1. VecA \in Seq(Decided(P)) /\ VecB \in Seq(Decided(P))  BY OperandsDecided
  <2> QED  BY <2>1
<1> HIDE DEF c
<1>4. Head(todo).op # "clauses" /\ Head(todo).op \notin GateNames  BY DEF VectorNames, GateNames
<1>5. Determines(<<c>>) /\ ASeq(<<c>>)  BY <1>2, <1>3, <1>4, ListSettles DEF Determines
<1> QED  BY <1>1, <1>4, <1>5, BecomeSettles

LEMMA AddGtSettles == ASSUME IInv, SInv, AddGt PROVE SInv'
  BY SwappedSettles DEF AddGt, On, VectorNames
LEMMA AddGeSettles == ASSUME IInv, SInv, AddGe PROVE SInv'
  BY SwappedSettles DEF AddGe, On, VectorNames

-----------------------------------------------------------------------------
(* Every step keeps the invariant.                                         *)
LEMMA CountInitSettles ==
  ASSUME CountInit
  PROVE  SInv
<1>1. clauses = {} /\ todo = <<>>  BY DEF CountInit
<1>2. Settled  BY <1>1, ListSettles DEF Settled
<1> QED  BY <1>1, <1>2 DEF SInv, CondAsked

(* One lemma for each action.                                              *)
LEMMA CountStepSettles ==
  ASSUME IInv, SInv, [CountNext]_countVars
  PROVE  SInv'
<1>1. ASSUME UNCHANGED countVars PROVE SInv'
  BY <1>1 DEF SInv, Settled, CondAsked, Finished, countVars
<1>2. ASSUME ClientDone PROVE SInv'
  BY <1>1, <1>2 DEF ClientDone
<1>3. ASSUME CountStep PROVE SInv'
  BY <1>3, SetConditionalLiteralsSettles, AskSettles, AddClauseSettles, AddClauseCallSettles,
     AddBuffgateSettles, AddNotgateSettles, AddAndgateSettles, AddNandgateSettles,
     AddOrgateSettles, AddNorgateSettles, AddXorgateSettles, AddXnorgateSettles,
     AddHalfAdderSettles, AddFullAdderSettles, AtLeastOneSettles, AtMostOneArgsSettles,
     AtMostTwoArgsSettles, AtLeastTwoArgsSettles, ExactOneArgsSettles, ExactTwoArgsSettles,
     NotOneSettles, AtMostOneSettles, ExactOneSettles, CountOneSettles, AtMostTwoSettles,
     ExactTwoSettles, CountTwoSettles, AtLeastTwoSettles, CountUpToTwoSettles,
     AddEqSettles, AddNeSettles, AddLtSettles, AddLeSettles, AddGtSettles, AddGeSettles
  DEF CountStep
<1> QED  BY <1>1, <1>2, <1>3 DEF CountNext

LEMMA CountSettled == CountSpec => [](IInv /\ SInv)
<1>1. CountInit => IInv /\ SInv  BY CountInitOK, CountInitSettles
<1>2. IInv /\ SInv /\ [CountNext]_countVars => (IInv /\ SInv)'
  BY CountStepOK, CountStepSettles
<1> QED  BY <1>1, <1>2, PTL DEF CountSpec

-----------------------------------------------------------------------------
(* What unit propagation arrives at.                                       *)

LEMMA PropagatedFrom ==
  ASSUME NEW S \in SUBSET Clause, NEW L0
  PROVE  \E f : Fixes(S, f) /\ Propagated(S, L0) = f[Implied(S, L0) \cup L0]
<1> DEFINE f == CHOOSE f : Fixes(S, f)
<1>1. Fixes(S, f)  BY FixExists
<1>2. Propagated(S, L0) = f[Implied(S, L0) \cup L0]
  BY DEF Propagated, Fixes
<1> QED  BY <1>1, <1>2

(* f[L] is the least closed set that contains L.                           *)
Least(S, A, L, M) ==
  /\ M \in SUBSET A /\ L \subseteq M /\ Closed(S, M)
  /\ \A T \in SUBSET A : L \subseteq T /\ Closed(S, T) => M \subseteq T

(* By the number of literals still missing: a smallest counterexample has  *)
(* a larger set that is none.                                              *)
LEMMA FixIsLeast ==
  ASSUME NEW n \in Nat, NEW S \in SUBSET Seq(LitsUpTo(n)), NEW f, Fixes(S, f)
  PROVE  \A L \in SUBSET LitsUpTo(n) : Least(S, LitsUpTo(n), L, f[L])
<1> DEFINE A == LitsUpTo(n)
<1>1. IsFiniteSet(A)
  <2>1. IsFiniteSet((-n) .. n)  BY FS_Interval
  <2> QED  BY <2>1, FS_Subset DEF LitsUpTo
<1>2. A \in SUBSET Literal  BY LitsGrow
<1>3. \A L : Implied(S, L) \in SUBSET A  BY ImpliedLits
<1>4. \A L, M : L \subseteq M => Implied(S, L) \subseteq Implied(S, M)  BY ImpliedGrows
<1> HIDE DEF A
<1> DEFINE Bad == {L \in SUBSET A : ~Least(S, A, L, f[L])}
           Left == {Cardinality(A \ L) : L \in Bad}
<1> SUFFICES ASSUME Bad # {} PROVE FALSE  BY DEF A
<1>5. \A L \in SUBSET A : IsFiniteSet(A \ L) /\ Cardinality(A \ L) \in Nat
  BY <1>1, FS_Subset, FS_CardinalityType
<1>6. Left \in SUBSET Nat /\ Left # {}  BY <1>5
<1>7. PICK L \in Bad : \A K \in Bad : Cardinality(A \ L) <= Cardinality(A \ K)
  <2>1. PICK k \in Left : \A m \in Left : k <= m
    <3> HIDE DEF Left
    <3> QED  BY <1>6, LeastNumber
  <2>2. PICK L \in Bad : k = Cardinality(A \ L)  OBVIOUS
  <2>3. \A K \in Bad : Cardinality(A \ K) \in Left  OBVIOUS
  <2> HIDE DEF Left, Bad
  <2> QED  BY <2>1, <2>2, <2>3
<1> DEFINE M == L \cup Implied(S, L)
<1>8. L \in SUBSET A /\ ~Least(S, A, L, f[L])  OBVIOUS
<1>9. M \in SUBSET A /\ L \subseteq M  BY <1>3, <1>8
<1>10. f[L] = IF M = L THEN L ELSE f[M]
  <2>1. L \in SUBSET Literal  BY <1>2, <1>8
  <2> QED  BY <2>1 DEF Fixes
<1>11. \A T : L \subseteq T /\ Closed(S, T) => M \subseteq T  BY <1>4 DEF Closed
<1>12. M = L => Closed(S, L)  BY DEF Closed
<1> HIDE DEF M, Bad
<1>13. M # L  BY <1>8, <1>10, <1>12 DEF Least
<1>14. ~Least(S, A, M, f[M])  BY <1>8, <1>9, <1>10, <1>11, <1>13 DEF Least
<1>15. M \in Bad  BY <1>9, <1>14 DEF Bad
<1>16. PICK x \in M : x \notin L  BY <1>9, <1>13
<1>17. (A \ M) \subseteq (A \ L) /\ (A \ M) # (A \ L)  BY <1>9, <1>16
<1>18. /\ IsFiniteSet(A \ L) /\ Cardinality(A \ L) \in Nat /\ Cardinality(A \ M) \in Nat
  BY <1>5, <1>8, <1>9
<1>19. /\ Cardinality(A \ M) <= Cardinality(A \ L)
       /\ Cardinality(A \ L) = Cardinality(A \ M) => (A \ L) = (A \ M)
  BY <1>17, <1>18, FS_Subset
<1>20. Cardinality(A \ L) <= Cardinality(A \ M)  BY <1>7, <1>15
<1> QED  BY <1>17, <1>18, <1>19, <1>20

(* What propagation arrives at is the least set closed under it.           *)
LEMMA PropagatedLeast ==
  ASSUME NEW n \in Nat, NEW S \in SUBSET Seq(LitsUpTo(n)), NEW L0 \in SUBSET LitsUpTo(n)
  PROVE  Least(S, LitsUpTo(n), L0, Propagated(S, L0))
<1> DEFINE A == LitsUpTo(n)
           all == Implied(S, L0) \cup L0
<1>1. S \in SUBSET Clause  BY LitsGrow
<1>2. PICK f : Fixes(S, f) /\ Propagated(S, L0) = f[all]  BY <1>1, PropagatedFrom
<1>3. all \in SUBSET A /\ L0 \subseteq all  BY ImpliedLits
<1>4. \A T : L0 \subseteq T /\ Closed(S, T) => all \subseteq T
  BY ImpliedGrows DEF Closed
<1>5. Least(S, A, all, f[all])  BY <1>2, <1>3, FixIsLeast
<1> HIDE DEF A, all
<1>6. Least(S, A, L0, f[all])  BY <1>3, <1>4, <1>5 DEF Least
<1> QED  BY <1>2, <1>6 DEF A

-----------------------------------------------------------------------------
(* What the client knows of an assignment.                                 *)

(* Assignments that agree on some literals say the same of a call that has *)
(* no others.                                                              *)
LEMMA SameOn ==
  ASSUME NEW L, NEW v, NEW w, \A l \in L : True(w, l) <=> True(v, l), NEW s \in Seq(L)
  PROVE  /\ AllTrue(w, s) <=> AllTrue(v, s)
         /\ Count(w, s) = Count(v, s)
         /\ ValueOf(w, s) = ValueOf(v, s)
         /\ Len(s) >= 1 => (True(w, s[1]) <=> True(v, s[1]))
         /\ Len(s) >= 2 => (True(w, s[2]) <=> True(v, s[2]))
<1>1. \A i \in DOMAIN s : s[i] \in L  OBVIOUS
<1>2. \A i \in DOMAIN s : True(w, s[i]) <=> True(v, s[i])  BY <1>1
<1>3. {i \in DOMAIN s : True(w, s[i])} = {i \in DOMAIN s : True(v, s[i])}  BY <1>2
<1>4. AllTrue(w, s) <=> AllTrue(v, s)  BY <1>2 DEF AllTrue
<1>5. Count(w, s) = Count(v, s)  BY <1>3 DEF Count
<1>6. (Len(s) >= 1 => 1 \in DOMAIN s) /\ (Len(s) >= 2 => 2 \in DOMAIN s)  OBVIOUS
<1>7. ValueOf(w, s) = ValueOf(v, s)
  <2>1. Len(s) \in Nat /\ DOMAIN s = 1 .. Len(s)  OBVIOUS
  <2> QED  BY <1>2, <2>1, ValueSame DEF Alike
<1> QED  BY <1>2, <1>4, <1>5, <1>6, <1>7

LEMMA SamePromiseOn ==
  ASSUME NEW L, NEW v, NEW w, \A l \in L : True(w, l) <=> True(v, l),
         NEW r, r.cond \in Seq(L), r.call.in \in Seq(L), r.call.out \in Seq(L),
         Shape(r.call), r.call.op \in CountOps
  PROVE  Promised(w, r) <=> Promised(v, r)
<1> DEFINE c == r.call
<1>1. Count(w, c.in) = Count(v, c.in)  BY SameOn
<1>2. Len(c.out) >= 1 => (True(w, c.out[1]) <=> True(v, c.out[1]))  BY SameOn
<1>3. Len(c.out) >= 2 => (True(w, c.out[2]) <=> True(v, c.out[2]))  BY SameOn
<1>4. c.op \in {"buff", "not", "and", "nand", "or", "nor", "xor", "xnor", "count_one"} =>
        (True(w, c.out[1]) <=> True(v, c.out[1]))
  BY <1>2 DEF Shape
<1>5. c.op \in {"half_adder", "full_adder", "count_two", "count_up_to_two"} =>
        (True(w, c.out[1]) <=> True(v, c.out[1])) /\ (True(w, c.out[2]) <=> True(v, c.out[2]))
  BY <1>2, <1>3 DEF Shape
<1>6. c.op # "clauses"  BY DEF CountOps, VectorNames
<1>7. Means(w, c) <=> Means(v, c)
  <2>1. c.op \in VectorNames =>
          ValueOf(w, Lhs(c)) = ValueOf(v, Lhs(c)) /\ ValueOf(w, Rhs(c)) = ValueOf(v, Rhs(c))
    BY Operands, SameOn
  <2> HIDE DEF c
  <2> QED  BY <1>1, <1>4, <1>5, <1>6, <2>1 DEF Means
<1>8. AllTrue(w, r.cond) <=> AllTrue(v, r.cond)  BY SameOn
<1> QED  BY <1>7, <1>8 DEF Promised

(* The literals of the variables the client has named.                     *)
NamedLits == {l \in Literal : Abs(l) \in Named}

(* The calls of the client mention named variables only, and no other.     *)
LEMMA AskedNamed ==
  ASSUME IInv, NEW i \in DOMAIN asked
  PROVE  /\ asked[i].cond \in Seq(NamedLits)
         /\ asked[i].call.in \in Seq(NamedLits) /\ asked[i].call.out \in Seq(NamedLits)
<1> DEFINE r == asked[i]
<1>1. /\ r.cond \in Seq(LitsUpTo(NClient)) /\ r.call.in \in Seq(LitsUpTo(NClient))
      /\ r.call.out \in Seq(LitsUpTo(NClient))
  BY AskedOK DEF CallsUpTo
<1>2. LitsUpTo(NClient) \subseteq Literal  BY NClientAssumption, LitsGrow
<1>3. Mentioned(r) \subseteq Named  BY DEF Named
<1> HIDE DEF r
<1>4. ASSUME NEW s \in Seq(LitsUpTo(NClient)), VarsOf(s) \subseteq Mentioned(r)
      PROVE  s \in Seq(NamedLits)
  <2>1. \A j \in DOMAIN s : s[j] \in LitsUpTo(NClient) /\ Abs(s[j]) \in VarsOf(s)
    BY DEF VarsOf
  <2>2. \A j \in DOMAIN s : s[j] \in NamedLits  BY <1>2, <1>3, <1>4, <2>1 DEF NamedLits
  <2>3. s \in [1 .. Len(s) -> NamedLits] /\ Len(s) \in Nat  BY <2>2
  <2> QED  BY <2>3
<1> QED  BY <1>1, <1>4 DEF Mentioned, r

LEMMA NamedRange ==
  ASSUME IInv
  PROVE  Named \subseteq 1 .. NClient /\ NClient \in Nat
<1> SUFFICES ASSUME NEW i \in DOMAIN asked PROVE Mentioned(asked[i]) \subseteq 1 .. NClient
  BY NClientAssumption DEF Named
<1>1. \A l \in LitsUpTo(NClient) : Abs(l) \in 1 .. NClient
  BY NClientAssumption DEF LitsUpTo, Abs
<1>2. \A s \in Seq(LitsUpTo(NClient)) : VarsOf(s) \subseteq 1 .. NClient
  <2> SUFFICES ASSUME NEW s \in Seq(LitsUpTo(NClient)), NEW j \in DOMAIN s
               PROVE  Abs(s[j]) \in 1 .. NClient
    BY DEF VarsOf
  <2>1. s[j] \in LitsUpTo(NClient)  OBVIOUS
  <2> QED  BY <1>1, <2>1
<1>3. /\ asked[i].cond \in Seq(LitsUpTo(NClient)) /\ asked[i].call.in \in Seq(LitsUpTo(NClient))
      /\ asked[i].call.out \in Seq(LitsUpTo(NClient))
  BY AskedOK DEF CallsUpTo
<1> QED  BY <1>2, <1>3 DEF Mentioned

(* Named literals are decided by any set that holds those of a reading.    *)
LEMMA ReadingLits ==
  ASSUME IInv, NEW v \in Readings
  PROVE  /\ LitsOf(v) \in SUBSET LitsUpTo(NClient)
         /\ \A l \in LitsOf(v) : True(v, l)
         /\ \A P : LitsOf(v) \subseteq P => NamedLits \subseteq Decided(P)
         /\ \A w : (\A l \in LitsOf(v) : True(w, l)) =>
                 \A l \in NamedLits : True(w, l) <=> True(v, l)
<1>1. Named \subseteq 1 .. NClient /\ NClient \in Nat  BY NamedRange
<1>2. DOMAIN v = Named /\ \A x \in Named : v[x] \in BOOLEAN  BY DEF Readings
<1>3. \A x \in Named : x \in Int /\ x > 0 /\ x <= NClient  BY <1>1
<1>4. ASSUME NEW l \in LitsOf(v) PROVE l \in LitsUpTo(NClient) /\ True(v, l)
  <2>1. PICK x \in Named : l = IF v[x] THEN x ELSE -x  BY <1>2 DEF LitsOf
  <2>2. x \in Int /\ x > 0 /\ x <= NClient /\ -(-x) = x  BY <1>3
  <2>3. CASE v[x]
    <3>1. l = x  BY <2>1, <2>3
    <3> QED  BY <1>1, <2>2, <2>3, <3>1 DEF LitsUpTo, True
  <2>4. CASE ~v[x]
    <3>1. l = -x /\ ~(l > 0) /\ -l = x  BY <2>1, <2>2, <2>4
    <3>2. l \in LitsUpTo(NClient)  BY <1>1, <2>2, <3>1 DEF LitsUpTo
    <3> QED  BY <2>4, <3>1, <3>2 DEF True
  <2> QED  BY <2>3, <2>4
<1>5. ASSUME NEW l \in NamedLits
      PROVE  \/ l \in LitsOf(v)
             \/ -l \in LitsOf(v) /\ -(-l) = l
  <2>1. l \in Int /\ l # 0 /\ Abs(l) \in Named  BY DEF NamedLits, Literal
  <2>2. (IF v[Abs(l)] THEN Abs(l) ELSE -Abs(l)) \in LitsOf(v)  BY <1>2, <2>1 DEF LitsOf
  <2>3. (IF v[Abs(l)] THEN Abs(l) ELSE -Abs(l)) \in {l, -l}  BY <2>1 DEF Abs
  <2>4. -(-l) = l  BY <2>1
  <2> QED  BY <2>2, <2>3, <2>4
<1>6. ASSUME NEW P, LitsOf(v) \subseteq P PROVE NamedLits \subseteq Decided(P)
  BY <1>5, <1>6 DEF Decided
<1>7. ASSUME NEW w, \A l \in LitsOf(v) : True(w, l), NEW l \in NamedLits
      PROVE  True(w, l) <=> True(v, l)
  <2>1. \A u : True(u, -l) => ~True(u, l)
    <3>1. l \in Int /\ l # 0  BY DEF NamedLits, Literal
    <3>2. -(-l) = l /\ (l > 0 <=> ~(-l > 0))  BY <3>1
    <3> QED  BY <3>2 DEF True
  <2> QED  BY <1>4, <1>5, <1>7, <2>1
<1> QED  BY <1>4, <1>6, <1>7

LEMMA SameKeeps ==
  ASSUME IInv, OnlyCounts, NEW v \in Readings, NEW w, \A l \in LitsOf(v) : True(w, l)
  PROVE  Keeps(v) <=> Answers(w)
<1>1. \A l \in NamedLits : True(w, l) <=> True(v, l)  BY ReadingLits
<1>2. ASSUME NEW i \in DOMAIN asked PROVE Promised(w, asked[i]) <=> Promised(v, asked[i])
  <2>1. Shape(asked[i].call) /\ asked[i].call.op \in CountOps  BY AskedOK DEF OnlyCounts
  <2> QED  BY <1>1, <2>1, AskedNamed, SamePromiseOn
<1>3. DOMAIN asked = 1 .. Len(asked)  BY DEF IInv, ScriptOK
<1> QED  BY <1>2, <1>3 DEF Keeps, Answers

(* What keeps every promise is accepted.                                   *)
LEMMA KeptAccepted ==
  ASSUME IInv, ~thrown, OnlyCounts, NEW v \in Readings, Keeps(v)
  PROVE  Accepts(LitsOf(v))
<1> DEFINE L == LitsOf(v)
<1>1. /\ nvar \in Nat /\ NClient \in Nat /\ NClient <= nvar
      /\ clauses \in SUBSET Seq(LitsUpTo(nvar))
  BY NClientAssumption DEF IInv, CountTypeOK
<1>2. L \in SUBSET LitsUpTo(NClient) /\ \A l \in L : True(v, l)  BY ReadingLits
<1>3. PICK u \in Total : \A x \in Named : u[x] = v[x]
  <2> DEFINE u == [k \in Nat |-> IF k \in Named THEN v[k] ELSE FALSE]
  <2>1. \A k \in Nat : (IF k \in Named THEN v[k] ELSE FALSE) \in BOOLEAN  BY DEF Readings
  <2>2. \A k \in Named : k \in Nat  BY NamedRange
  <2>3. u \in Total /\ \A x \in Named : u[x] = v[x]  BY <2>1, <2>2 DEF Total
  <2> QED  BY <2>3
<1>4. \A l \in L : True(u, l)
  <2> SUFFICES ASSUME NEW x \in Named PROVE True(u, IF v[x] THEN x ELSE -x)
    BY DEF LitsOf, Readings
  <2>1. x \in Int /\ x > 0 /\ -(-x) = x /\ ~(-x > 0)
    <3>1. x \in 1 .. NClient  BY NamedRange
    <3> QED  BY <1>1, <3>1
  <2>2. u[x] = v[x] /\ v[x] \in BOOLEAN  BY <1>3 DEF Readings
  <2>3. CASE v[x]  BY <2>1, <2>2, <2>3 DEF True
  <2>4. CASE ~v[x]  BY <2>1, <2>2, <2>4 DEF True
  <2> QED  BY <2>3, <2>4
<1>5. Answers(u)  BY <1>4, SameKeeps
<1>6. PICK w \in Total : Agree(u, w, NClient) /\ AllSatisfied(w, clauses)
  BY <1>5 DEF IInv, Complete, Fulfils
<1>7. \A l \in L : True(w, l)  BY <1>1, <1>2, <1>4, <1>6, SameLits
<1> DEFINE W == {l \in LitsUpTo(nvar) : True(w, l)}
<1>8. L \subseteq W /\ L \in SUBSET LitsUpTo(nvar)
  <2>1. LitsUpTo(NClient) \subseteq LitsUpTo(nvar)  BY <1>1, LitsGrow
  <2> QED  BY <1>2, <1>7, <2>1
<1>9. Closed(clauses, W)
  <2>1. \A l \in W : l \in LitsUpTo(nvar) /\ True(w, l)  OBVIOUS
  <2> HIDE DEF W
  <2>2. \A l \in Implied(clauses, W) : l \in LitsUpTo(nvar) /\ True(w, l)
    BY <1>1, <1>6, <2>1, ImpliedTrue
  <2> QED  BY <2>2 DEF Closed, W
<1>10. Propagated(clauses, L) \subseteq W
  <2>1. Least(clauses, LitsUpTo(nvar), L, Propagated(clauses, L))
    BY <1>1, <1>8, PropagatedLeast
  <2> QED  BY <1>8, <1>9, <2>1 DEF Least
<1>11. Consistent(Propagated(clauses, L))
  <2> SUFFICES ASSUME NEW l \in W, -l \in W PROVE FALSE  BY <1>10 DEF Consistent
  <2>1. l \in Literal  BY <1>1, LitsNegate
  <2> QED  BY <2>1, TrueNegation
<1>12. <<>> \notin clauses  BY <1>6, SatisfiedShort DEF AllSatisfied
<1> QED  BY <1>11, <1>12 DEF Accepts

(* What is accepted settles every clause,                                  *)
LEMMA AcceptedMet ==
  ASSUME IInv, SInv, Quiescent, OnlyCounts, NEW v \in Readings, Accepts(LitsOf(v))
  PROVE  LET P == Propagated(clauses, LitsOf(v))
         IN  P \in Partial /\ LitsOf(v) \subseteq P /\ \A C \in clauses : Met(P, C)
<1> DEFINE L == LitsOf(v)
           P == Propagated(clauses, L)
<1>1. /\ nvar \in Nat /\ NClient \in Nat /\ NClient <= nvar
      /\ clauses \in SUBSET Seq(LitsUpTo(nvar))
  BY NClientAssumption DEF IInv, CountTypeOK
<1>2. L \in SUBSET LitsUpTo(nvar)
  <2>1. LitsUpTo(NClient) \subseteq LitsUpTo(nvar)  BY <1>1, LitsGrow
  <2> QED  BY <2>1, ReadingLits
<1>3. Least(clauses, LitsUpTo(nvar), L, P)  BY <1>1, <1>2, PropagatedLeast
<1>4. Consistent(P) /\ <<>> \notin clauses  BY DEF Accepts
<1>5. NamedLits \subseteq Decided(P)  BY <1>3, ReadingLits DEF Least
<1> HIDE DEF P, L
<1>6. P \in Partial /\ L \subseteq P /\ Implied(clauses, P) \subseteq P
  <2>1. LitsUpTo(nvar) \subseteq Literal  BY <1>1, LitsGrow
  <2> QED  BY <1>3, <1>4, <2>1 DEF Partial, Least, Closed
<1>7. ASSUME NEW C \in clauses PROVE Obeyed(P, C)
  <2> SUFFICES ASSUME NEW i \in DOMAIN C, \A k \in DOMAIN C \ {i} : -C[k] \in P
               PROVE  C[i] \in P
    BY <1>4 DEF Obeyed
  <2>1. C[i] \in Implied(clauses, P)  BY DEF Implied
  <2> QED  BY <1>6, <2>1
<1>8. Finished(P)
  <2>1. ASSUME NEW i \in 1 .. Len(asked)
        PROVE  asked[i].cond \in Seq(Decided(P)) /\ Settles(P, asked[i].call)
    <3>1. i \in DOMAIN asked  BY DEF IInv, ScriptOK
    <3>2. asked[i].call.op # "clauses"  BY <3>1 DEF OnlyCounts, CountOps, VectorNames
    <3>3. Seq(NamedLits) \subseteq Seq(Decided(P))  BY <1>5, SeqGrows
    <3> QED  BY <3>1, <3>2, <3>3, AskedNamed DEF Settles
  <2> QED  BY <1>7, <2>1 DEF Finished
<1>9. \A C \in clauses : Met(P, C)
  <2>1. todo = <<>> /\ ~thrown  BY DEF Quiescent
  <2>2. ObeysAll(P, todo)  BY <2>1, ListSettles
  <2> QED  BY <1>6, <1>8, <2>1, <2>2 DEF SInv, Settled
<1> QED  BY <1>6, <1>9 DEF P, L

(* and so keeps every promise.                                             *)
LEMMA AcceptedKept ==
  ASSUME IInv, SInv, Quiescent, OnlyCounts, NEW v \in Readings, Accepts(LitsOf(v))
  PROVE  Keeps(v)
<1>1. PICK P \in Partial : LitsOf(v) \subseteq P /\ \A C \in clauses : Met(P, C)
  BY AcceptedMet
<1> DEFINE w == [k \in Nat |-> k \in P]
<1>2. w \in Total
  <2>1. \A k \in Nat : (k \in P) \in BOOLEAN  OBVIOUS
  <2> QED  BY <2>1 DEF Total
<1>3. \A l \in P : True(w, l)
  <2> SUFFICES ASSUME NEW l \in P PROVE True(w, l)  OBVIOUS
  <2>1. l \in Int /\ l # 0 /\ ~(-l \in P)  BY DecidedFacts DEF Literal
  <2>4. \A k \in Nat : w[k] <=> k \in P  OBVIOUS
  <2> HIDE DEF w
  <2>2. CASE l > 0
    <3>1. l \in Nat  BY <2>1, <2>2
    <3>2. w[l]  BY <2>4, <3>1
    <3> QED  BY <2>2, <3>2 DEF True
  <2>3. CASE ~(l > 0)
    <3>1. -l \in Nat  BY <2>1, <2>3
    <3>2. ~w[-l]  BY <2>1, <2>4, <3>1
    <3> QED  BY <2>3, <3>2 DEF True
  <2> QED  BY <2>2, <2>3
<1> HIDE DEF w
<1>4. AllSatisfied(w, clauses)  BY <1>1, <1>3 DEF AllSatisfied, Satisfied, Met
<1>5. todo = <<>> /\ ~thrown  BY DEF Quiescent
<1>6. AllMean(w, todo)  BY <1>5 DEF AllMean
<1>7. Answers(w)  BY <1>2, <1>4, <1>5, <1>6 DEF IInv, Faithful, Fulfils
<1> QED  BY <1>1, <1>3, <1>7, SameKeeps

(* The encodings are exact: with any conditions, lists of any length, and  *)
(* however encodings share and chain auxiliary variables, unit propagation *)
(* from values of the client's variables finds a conflict exactly when     *)
(* these values break a promise of SatSolver.h.  No search is needed to    *)
(* refute them, and none to accept them (SatSolver_count.cc,               *)
(* SatSolver_tseitin.cc, SatSolver_bv.cc).                                 *)
THEOREM CountExact == CountSpec => []Exact
<1>1. IInv /\ SInv => Exact
  BY KeptAccepted, AcceptedKept DEF Exact, Quiescent
<1> QED  BY <1>1, CountSettled, PTL

(* And propagation goes all the way: when the client's variables have such *)
(* values every clause has a true literal, so the engine that stops as     *)
(* soon as all decision variables have values, although the auxiliary      *)
(* variables are none, has not answered True too early.                    *)
THEOREM CountModelCompletes == CountSpec => []ModelCompletes
<1>1. IInv /\ SInv => ModelCompletes
  <2> SUFFICES ASSUME IInv, SInv, OnlyCounts, Quiescent, NEW v \in Readings, Keeps(v)
               PROVE  LET known == Propagated(clauses, LitsOf(v))
                      IN  Consistent(known) /\ Waiting(known) = {}
    BY DEF ModelCompletes
  <2> DEFINE known == Propagated(clauses, LitsOf(v))
  <2>1. Accepts(LitsOf(v))  BY KeptAccepted DEF Quiescent
  <2>2. \A C \in clauses : Met(known, C)  BY <2>1, AcceptedMet
  <2>3. Consistent(known)  BY <2>1 DEF Accepts
  <2> HIDE DEF known
  <2>4. Waiting(known) = {}  BY <2>2 DEF Waiting, Met
  <2> QED  BY <2>3, <2>4 DEF known
<1> QED  BY <1>1, CountSettled, PTL
=============================================================================
