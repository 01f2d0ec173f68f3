---------------------------- MODULE GatesProofs ----------------------------
(***************************************************************************)
(* Counting true literals, and what the clauses of the gates of Gates and  *)
(* of the comparisons of Vectors mean for an assignment of all variables.  *)
(***************************************************************************)
EXTENDS Vectors, FiniteSetTheorems, FunctionTheorems, SequenceTheorems,
        WellFoundedInduction, TLAPS

(* Assignments to all variables, present and future.                       *)
Total == [Nat -> BOOLEAN]

Value(v, l) == IF True(v, l) THEN 1 ELSE 0

(* The positions of the true literals, which Count counts.                 *)
Ones(v, s) == {i \in DOMAIN s : True(v, s[i])}

(* A literal is true or its negation is.                                   *)
LEMMA TrueNegation ==
  ASSUME NEW v \in Total, NEW l \in Literal
  PROVE  True(v, l) \in BOOLEAN /\ (True(v, -l) <=> ~True(v, l)) /\ -l \in Literal
<1>1. CASE l > 0
  <2>1. l \in Nat /\ -l \in Literal /\ ~(-l > 0) /\ -(-l) = l  BY <1>1 DEF Literal
  <2>2. v[l] \in BOOLEAN  BY <2>1 DEF Total
  <2>3. True(v, l) = v[l] /\ True(v, -l) = ~v[l]  BY <1>1, <2>1 DEF True
  <2> QED  BY <2>1, <2>2, <2>3
<1>2. CASE ~(l > 0)
  <2>1. -l \in Nat /\ -l \in Literal /\ -l > 0  BY <1>2 DEF Literal
  <2>2. v[-l] \in BOOLEAN  BY <2>1 DEF Total
  <2>3. True(v, l) = ~v[-l] /\ True(v, -l) = v[-l]  BY <1>2, <2>1 DEF True
  <2> QED  BY <2>1, <2>2, <2>3
<1> QED  BY <1>1, <1>2

(* Sets that a one-to-one map f pairs with each other.                     *)
LEMMA SameSize ==
  ASSUME NEW S, NEW T, NEW f \in [S -> T], IsFiniteSet(S),
         \A x, y \in S : f[x] = f[y] => x = y,
         \A y \in T : \E x \in S : f[x] = y
  PROVE  IsFiniteSet(T) /\ Cardinality(T) = Cardinality(S)
<1>1. f \in Bijection(S, T)  BY Fun_IsBij
<1>2. ExistsBijection(S, T)  BY <1>1 DEF ExistsBijection
<1> QED  BY <1>2, FS_Bijection

LEMMA OnesFinite ==
  ASSUME NEW v, NEW s \in Clause
  PROVE  /\ IsFiniteSet(Ones(v, s)) /\ Ones(v, s) \subseteq 1 .. Len(s)
         /\ Count(v, s) = Cardinality(Ones(v, s))
         /\ Count(v, s) \in 0 .. Len(s) /\ Count(v, s) \in Nat
<1>1. DOMAIN s = 1 .. Len(s) /\ Len(s) \in Nat  BY DEF Clause
<1>2. Ones(v, s) \subseteq 1 .. Len(s)  BY <1>1 DEF Ones
<1>3. IsFiniteSet(1 .. Len(s)) /\ Cardinality(1 .. Len(s)) = Len(s)
  <2>1. 1 \in Int /\ Len(s) \in Int /\ (1 > Len(s) => Len(s) = 0) /\ Len(s) - 1 + 1 = Len(s)
    BY <1>1
  <2> QED  BY <2>1, FS_Interval
<1>4. IsFiniteSet(Ones(v, s)) /\ Cardinality(Ones(v, s)) <= Len(s)
  BY <1>2, <1>3, FS_Subset
<1>5. Cardinality(Ones(v, s)) \in Nat  BY <1>4, FS_CardinalityType
<1>6. Count(v, s) = Cardinality(Ones(v, s))  BY DEF Count, Ones
<1> QED  BY <1>1, <1>2, <1>4, <1>5, <1>6

LEMMA CountEmpty ==
  ASSUME NEW v
  PROVE  Count(v, <<>>) = 0
<1>1. {i \in DOMAIN <<>> : True(v, <<>>[i])} = {}  OBVIOUS
<1> QED  BY <1>1, FS_EmptySet DEF Count

(* One literal more.                                                       *)
LEMMA CountAppend ==
  ASSUME NEW v, NEW s \in Clause, NEW l \in Literal
  PROVE  Count(v, Append(s, l)) = Count(v, s) + Value(v, l)
<1> DEFINE t == Append(s, l)
           n == Len(s) + 1
<1>1. /\ DOMAIN s = 1 .. Len(s) /\ Len(s) \in Nat
      /\ DOMAIN t = 1 .. n /\ t[n] = l /\ \A i \in 1 .. Len(s) : t[i] = s[i]
  BY DEF Clause
<1>2. IsFiniteSet(Ones(v, s)) /\ n \notin Ones(v, s) /\ Count(v, s) = Cardinality(Ones(v, s))
  BY <1>1, OnesFinite
<1>3. Count(v, t) = Cardinality(Ones(v, t))  BY DEF Count, Ones
<1>4. CASE True(v, l)
  <2>1. Ones(v, t) = Ones(v, s) \cup {n}  BY <1>1, <1>4 DEF Ones
  <2> QED  BY <2>1, <1>2, <1>3, <1>4, FS_AddElement DEF Value
<1>5. CASE ~True(v, l)
  <2>1. Ones(v, t) = Ones(v, s)  BY <1>1, <1>5 DEF Ones
  <2>2. Count(v, s) \in Nat  BY OnesFinite
  <2> QED  BY <2>1, <2>2, <1>2, <1>3, <1>5 DEF Value
<1> QED  BY <1>4, <1>5

(* A sequence cut in two.                                                  *)
LEMMA CountSplit ==
  ASSUME NEW v, NEW s \in Clause, NEW n \in 0 .. Len(s)
  PROVE  /\ SubSeq(s, 1, n) \in Clause /\ SubSeq(s, n + 1, Len(s)) \in Clause
         /\ Len(SubSeq(s, 1, n)) = n /\ Len(SubSeq(s, n + 1, Len(s))) = Len(s) - n
         /\ Count(v, s) = Count(v, SubSeq(s, 1, n)) + Count(v, SubSeq(s, n + 1, Len(s)))
<1> DEFINE a == SubSeq(s, 1, n)
           b == SubSeq(s, n + 1, Len(s))
           low == {i \in Ones(v, s) : i <= n}
           high == {i \in Ones(v, s) : i > n}
           f == [i \in Ones(v, b) |-> i + n]
<1>1. /\ DOMAIN s = 1 .. Len(s) /\ Len(s) \in Nat /\ n \in Nat
      /\ \A i \in 1 .. Len(s) : s[i] \in Literal
  BY DEF Clause
<1>2. /\ a \in Clause /\ DOMAIN a = 1 .. n /\ Len(a) = n
      /\ \A i \in 1 .. n : a[i] = s[i]
  <2>1. a = [i \in 1 .. n |-> s[i]]  BY <1>1 DEF Clause
  <2> HIDE DEF a
  <2> QED  BY <1>1, <2>1 DEF Clause
<1>3. /\ b \in Clause /\ DOMAIN b = 1 .. Len(s) - n /\ Len(b) = Len(s) - n
      /\ \A i \in 1 .. Len(s) - n : b[i] = s[i + n]
  <2>1. b = [i \in 1 .. Len(s) - n |-> s[i + n]]
    <3>1. Len(s) - (n + 1) + 1 = Len(s) - n  BY <1>1
    <3>2. \A i \in 1 .. Len(s) - n : i + (n + 1) - 1 = i + n  BY <1>1
    <3> QED  BY <1>1, <3>1, <3>2 DEF Clause
  <2>2. \A i \in 1 .. Len(s) - n : i + n \in 1 .. Len(s)  BY <1>1
  <2> HIDE DEF b
  <2> QED  BY <1>1, <2>1, <2>2 DEF Clause
<1>4. low = Ones(v, a)  BY <1>1, <1>2 DEF Ones
<1>5. IsFiniteSet(Ones(v, b))  BY <1>3, OnesFinite
<1>6. \A j \in high : j - n \in Ones(v, b) /\ (j - n) + n = j
  <2> SUFFICES ASSUME NEW j \in high PROVE j - n \in Ones(v, b) /\ (j - n) + n = j
    OBVIOUS
  <2>1. j \in 1 .. Len(s) /\ j > n /\ True(v, s[j])  BY <1>1 DEF Ones
  <2>2. j - n \in 1 .. Len(s) - n /\ (j - n) + n = j  BY <1>1, <2>1
  <2>3. b[j - n] = s[j]  BY <1>3, <2>2
  <2>4. j - n \in DOMAIN b /\ True(v, b[j - n])  BY <1>3, <2>1, <2>2, <2>3
  <2> QED  BY <2>2, <2>4 DEF Ones
<1>7. IsFiniteSet(high) /\ Cardinality(high) = Cardinality(Ones(v, b))
  <2>1. \A i \in Ones(v, b) : i \in Int /\ i + n \in high
    <3> SUFFICES ASSUME NEW i \in Ones(v, b) PROVE i \in Int /\ i + n \in high
      OBVIOUS
    <3>1. i \in 1 .. Len(s) - n /\ True(v, b[i])  BY <1>3 DEF Ones
    <3>2. i + n \in 1 .. Len(s) /\ i + n > n  BY <1>1, <3>1
    <3>3. True(v, s[i + n])  BY <1>3, <3>1
    <3> QED  BY <1>1, <3>1, <3>2, <3>3 DEF Ones
  <2>2. f \in [Ones(v, b) -> high] /\ \A i \in Ones(v, b) : f[i] = i + n  BY <2>1
  <2>3. \A i, j \in Ones(v, b) : f[i] = f[j] => i = j  BY <2>1, <2>2, <1>1
  <2>4. \A j \in high : \E i \in Ones(v, b) : f[i] = j  BY <2>2, <1>6
  <2> HIDE DEF f, high
  <2> QED  BY <2>2, <2>3, <2>4, <1>5, SameSize
<1>8. IsFiniteSet(low) /\ Cardinality(low) = Count(v, a)
  BY <1>2, <1>4, OnesFinite
<1>9. Cardinality(low \cup high) = Cardinality(low) + Cardinality(high)
  <2>1. low \cap high = {}  BY <1>1 DEF Ones
  <2>2. Cardinality(low) \in Nat /\ Cardinality(high) \in Nat
    BY <1>7, <1>8, FS_CardinalityType
  <2>3. Cardinality(low \cap high) = 0  BY <2>1, FS_EmptySet
  <2>4. Cardinality(low \cup high) =
          Cardinality(low) + Cardinality(high) - Cardinality(low \cap high)
    BY <1>7, <1>8, FS_Union
  <2> HIDE DEF low, high
  <2> QED  BY <2>2, <2>3, <2>4
<1>10. Ones(v, s) = low \cup high  BY <1>1 DEF Ones
<1> QED  BY <1>2, <1>3, <1>7, <1>8, <1>9, <1>10, OnesFinite

(* Short sequences.                                                        *)
LEMMA CountOneLiteral ==
  ASSUME NEW v, NEW a \in Literal
  PROVE  Count(v, <<a>>) = Value(v, a)
<1>1. <<a>> = Append(<<>>, a) /\ <<>> \in Clause  BY DEF Clause
<1>2. Count(v, Append(<<>>, a)) = 0 + Value(v, a)  BY <1>1, CountAppend, CountEmpty
<1>3. Value(v, a) \in Int  BY DEF Value
<1> QED  BY <1>1, <1>2, <1>3

LEMMA CountTwoLiterals ==
  ASSUME NEW v, NEW a \in Literal, NEW b \in Literal
  PROVE  Count(v, <<a, b>>) = Value(v, a) + Value(v, b)
<1>1. <<a, b>> = Append(<<a>>, b) /\ <<a>> \in Clause  BY DEF Clause
<1>2. Count(v, Append(<<a>>, b)) = Count(v, <<a>>) + Value(v, b)  BY <1>1, CountAppend
<1> QED  BY <1>1, <1>2, CountOneLiteral

LEMMA CountThreeLiterals ==
  ASSUME NEW v, NEW a \in Literal, NEW b \in Literal, NEW c \in Literal
  PROVE  Count(v, <<a, b, c>>) = Value(v, a) + Value(v, b) + Value(v, c)
<1>1. <<a, b, c>> = Append(<<a, b>>, c) /\ <<a, b>> \in Clause  BY DEF Clause
<1>2. Count(v, Append(<<a, b>>, c)) = Count(v, <<a, b>>) + Value(v, c)  BY <1>1, CountAppend
<1> QED  BY <1>1, <1>2, CountTwoLiterals

-----------------------------------------------------------------------------
(* How many are true, by naming some that are.                             *)

LEMMA CountIsZero ==
  ASSUME NEW v, NEW s \in Clause
  PROVE  Count(v, s) = 0 <=> \A i \in 1 .. Len(s) : ~True(v, s[i])
<1>1. DOMAIN s = 1 .. Len(s)  BY DEF Clause
<1>2. Ones(v, s) = {} <=> \A i \in 1 .. Len(s) : ~True(v, s[i])  BY <1>1 DEF Ones
<1>3. Cardinality(Ones(v, s)) = 0 <=> Ones(v, s) = {}  BY OnesFinite, FS_EmptySet
<1> QED  BY <1>2, <1>3, OnesFinite

LEMMA CountPositive ==
  ASSUME NEW v, NEW s \in Clause
  PROVE  Count(v, s) >= 1 <=> Satisfied(v, s)
<1>1. DOMAIN s = 1 .. Len(s)  BY DEF Clause
<1>2. Satisfied(v, s) <=> ~(\A i \in 1 .. Len(s) : ~True(v, s[i]))  BY <1>1 DEF Satisfied
<1>3. Count(v, s) \in Nat  BY OnesFinite
<1>4. Count(v, s) >= 1 <=> Count(v, s) # 0  BY <1>3
<1> QED  BY <1>2, <1>4, CountIsZero

LEMMA CountIsAll ==
  ASSUME NEW v, NEW s \in Clause
  PROVE  Count(v, s) = Len(s) <=> \A i \in 1 .. Len(s) : True(v, s[i])
<1>1. DOMAIN s = 1 .. Len(s) /\ Len(s) \in Nat  BY DEF Clause
<1>2. Ones(v, s) = 1 .. Len(s) <=> \A i \in 1 .. Len(s) : True(v, s[i])  BY <1>1 DEF Ones
<1>3. IsFiniteSet(1 .. Len(s)) /\ Cardinality(1 .. Len(s)) = Len(s)
  <2>1. 1 \in Int /\ Len(s) \in Int /\ (1 > Len(s) => Len(s) = 0) /\ Len(s) - 1 + 1 = Len(s)
    BY <1>1
  <2> QED  BY <2>1, FS_Interval
<1>4. Cardinality(Ones(v, s)) = Len(s) <=> Ones(v, s) = 1 .. Len(s)
  BY <1>3, OnesFinite, FS_Subset
<1> QED  BY <1>2, <1>4, OnesFinite

(* Taking one element away.                                                *)
LEMMA OneFewer ==
  ASSUME NEW S, IsFiniteSet(S), NEW x \in S
  PROVE  /\ IsFiniteSet(S \ {x}) /\ Cardinality(S) \in Nat /\ Cardinality(S \ {x}) \in Nat
         /\ Cardinality(S) = Cardinality(S \ {x}) + 1
         /\ Cardinality(S \ {x}) >= 1 <=> S \ {x} # {}
<1>1. IsFiniteSet(S \ {x}) /\ Cardinality(S \ {x}) = Cardinality(S) - 1
  BY FS_RemoveElement
<1>2. Cardinality(S) \in Nat /\ Cardinality(S \ {x}) \in Nat  BY <1>1, FS_CardinalityType
<1>3. Cardinality(S \ {x}) = 0 <=> S \ {x} = {}  BY <1>1, FS_EmptySet
<1> QED  BY <1>1, <1>2, <1>3

LEMMA OnesMembers ==
  ASSUME NEW v, NEW s \in Clause
  PROVE  /\ Len(s) \in Nat
         /\ \A i \in 1 .. Len(s) : i \in Ones(v, s) <=> True(v, s[i])
<1>1. DOMAIN s = 1 .. Len(s) /\ Len(s) \in Nat  BY DEF Clause
<1> QED  BY <1>1 DEF Ones

(* A set that is not empty has an element, and one fewer without it.       *)
LEMMA PickOne ==
  ASSUME NEW S, IsFiniteSet(S), Cardinality(S) >= 1
  PROVE  \E x \in S : /\ IsFiniteSet(S \ {x}) /\ Cardinality(S \ {x}) \in Nat
                      /\ Cardinality(S) = Cardinality(S \ {x}) + 1
<1>1. S # {}
  <2>1. ~(0 >= 1)  OBVIOUS
  <2> QED  BY <2>1, FS_EmptySet
<1>2. PICK x \in S : TRUE  BY <1>1
<1> QED  BY <1>2, OneFewer

LEMMA CountTwoOrMore ==
  ASSUME NEW v, NEW s \in Clause
  PROVE  Count(v, s) >= 2 <=>
           \E i, j \in 1 .. Len(s) : i < j /\ True(v, s[i]) /\ True(v, s[j])
<1> DEFINE S == Ones(v, s)
<1>1. /\ IsFiniteSet(S) /\ Count(v, s) = Cardinality(S) /\ Count(v, s) \in Nat
      /\ Len(s) \in Nat /\ S \subseteq 1 .. Len(s)
      /\ \A i \in 1 .. Len(s) : i \in S <=> True(v, s[i])
  BY OnesFinite, OnesMembers
<1> HIDE DEF S
<1>2. ASSUME Count(v, s) >= 2
      PROVE  \E i, j \in 1 .. Len(s) : i < j /\ True(v, s[i]) /\ True(v, s[j])
  <2>1. Cardinality(S) >= 1  BY <1>1, <1>2
  <2>2. PICK i \in S : /\ IsFiniteSet(S \ {i}) /\ Cardinality(S \ {i}) \in Nat
                      /\ Cardinality(S) = Cardinality(S \ {i}) + 1
    BY <1>1, <2>1, PickOne
  <2>5. Cardinality(S \ {i}) >= 1  BY <1>1, <1>2, <2>2
  <2>3. PICK j \in S \ {i} : TRUE  BY <2>2, <2>5, PickOne
  <2>4. (i < j \/ j < i) /\ i \in 1 .. Len(s) /\ j \in 1 .. Len(s)  BY <1>1, <2>2, <2>3
  <2> QED  BY <1>1, <2>2, <2>3, <2>4
<1>3. ASSUME NEW i \in 1 .. Len(s), NEW j \in 1 .. Len(s), i < j, True(v, s[i]), True(v, s[j])
      PROVE  Count(v, s) >= 2
  <2>1. i \in S /\ j \in S \ {i} /\ S \ {i} # {}  BY <1>1, <1>3
  <2>2. Cardinality(S) = Cardinality(S \ {i}) + 1 /\ Cardinality(S \ {i}) >= 1
        /\ Cardinality(S \ {i}) \in Nat
    BY <2>1, <1>1, OneFewer
  <2> QED  BY <2>2, <1>1
<1> QED  BY <1>2, <1>3

LEMMA CountThreeOrMore ==
  ASSUME NEW v, NEW s \in Clause, Count(v, s) >= 3
  PROVE  \E i, j, k \in 1 .. Len(s) :
           i < j /\ j < k /\ True(v, s[i]) /\ True(v, s[j]) /\ True(v, s[k])
<1> DEFINE S == Ones(v, s)
<1>1. /\ IsFiniteSet(S) /\ Count(v, s) = Cardinality(S) /\ Count(v, s) \in Nat
      /\ Len(s) \in Nat /\ S \subseteq 1 .. Len(s)
      /\ \A i \in 1 .. Len(s) : i \in S <=> True(v, s[i])
  BY OnesFinite, OnesMembers
<1> HIDE DEF S
<1>2. Cardinality(S) >= 1  BY <1>1
<1>3. PICK i \in S : /\ IsFiniteSet(S \ {i}) /\ Cardinality(S \ {i}) \in Nat
                     /\ Cardinality(S) = Cardinality(S \ {i}) + 1
  BY <1>1, <1>2, PickOne
<1>4. Cardinality(S \ {i}) >= 2  BY <1>1, <1>3
<1>5. PICK j \in S \ {i} : /\ IsFiniteSet((S \ {i}) \ {j})
                           /\ Cardinality((S \ {i}) \ {j}) \in Nat
                           /\ Cardinality(S \ {i}) = Cardinality((S \ {i}) \ {j}) + 1
  BY <1>3, <1>4, PickOne
<1>7. Cardinality((S \ {i}) \ {j}) >= 1  BY <1>3, <1>4, <1>5
<1>8. PICK k \in (S \ {i}) \ {j} : TRUE  BY <1>5, <1>7, PickOne
<1>6. /\ i \in 1 .. Len(s) /\ j \in 1 .. Len(s) /\ k \in 1 .. Len(s)
      /\ True(v, s[i]) /\ True(v, s[j]) /\ True(v, s[k])
      /\ i # j /\ j # k /\ i # k
  BY <1>1, <1>3, <1>5, <1>8
<1> QED
  <2>1. \/ (i < j /\ j < k) \/ (i < k /\ k < j) \/ (j < i /\ i < k)
        \/ (j < k /\ k < i) \/ (k < i /\ i < j) \/ (k < j /\ j < i)
    <3>1. i \in Int /\ j \in Int /\ k \in Int /\ i # j /\ j # k /\ i # k  BY <1>1, <1>6
    <3> QED  BY <3>1
  <2> QED  BY <1>6, <2>1

-----------------------------------------------------------------------------
(* Satisfied clauses.                                                      *)

LEMMA SatisfiedShort ==
  ASSUME NEW v
  PROVE  /\ ~Satisfied(v, <<>>)
         /\ \A a : Satisfied(v, <<a>>) <=> True(v, a)
         /\ \A a, b : Satisfied(v, <<a, b>>) <=> True(v, a) \/ True(v, b)
         /\ \A a, b, c :
              Satisfied(v, <<a, b, c>>) <=> True(v, a) \/ True(v, b) \/ True(v, c)
  BY DEF Satisfied

LEMMA SatisfiedFour ==
  ASSUME NEW v, NEW a, NEW b, NEW c, NEW d, Satisfied(v, <<a, b, c, d>>)
  PROVE  True(v, a) \/ True(v, b) \/ True(v, c) \/ True(v, d)
  BY DEF Satisfied

LEMMA SatisfiedConcat ==
  ASSUME NEW v, NEW s \in Clause, NEW t \in Clause
  PROVE  Satisfied(v, s \o t) <=> Satisfied(v, s) \/ Satisfied(v, t)
<1>1. /\ DOMAIN s = 1 .. Len(s) /\ DOMAIN t = 1 .. Len(t) /\ Len(s) \in Nat /\ Len(t) \in Nat
      /\ DOMAIN (s \o t) = 1 .. Len(s) + Len(t)
      /\ \A i \in 1 .. Len(s) : (s \o t)[i] = s[i]
      /\ \A i \in 1 .. Len(t) : (s \o t)[Len(s) + i] = t[i]
  BY DEF Clause
<1>2. \A k \in 1 .. Len(s) + Len(t) :
        k \in 1 .. Len(s) \/ (k - Len(s) \in 1 .. Len(t) /\ Len(s) + (k - Len(s)) = k)
  BY <1>1
<1>3. ASSUME Satisfied(v, s \o t) PROVE Satisfied(v, s) \/ Satisfied(v, t)
  <2>1. PICK k \in 1 .. Len(s) + Len(t) : True(v, (s \o t)[k])
    BY <1>1, <1>3 DEF Satisfied
  <2>2. CASE k \in 1 .. Len(s)  BY <1>1, <2>1, <2>2 DEF Satisfied
  <2>3. CASE k - Len(s) \in 1 .. Len(t) /\ Len(s) + (k - Len(s)) = k
    <3>1. (s \o t)[k] = t[k - Len(s)]  BY <1>1, <2>3
    <3> QED  BY <1>1, <2>1, <2>3, <3>1 DEF Satisfied
  <2> QED  BY <1>2, <2>1, <2>2, <2>3
<1>4. ASSUME Satisfied(v, s) PROVE Satisfied(v, s \o t)
  <2>1. PICK i \in 1 .. Len(s) : True(v, s[i])  BY <1>1, <1>4 DEF Satisfied
  <2>2. i \in 1 .. Len(s) + Len(t)  BY <1>1
  <2> QED  BY <1>1, <2>1, <2>2 DEF Satisfied
<1>5. ASSUME Satisfied(v, t) PROVE Satisfied(v, s \o t)
  <2>1. PICK i \in 1 .. Len(t) : True(v, t[i])  BY <1>1, <1>5 DEF Satisfied
  <2>2. Len(s) + i \in 1 .. Len(s) + Len(t)  BY <1>1
  <2> QED  BY <1>1, <2>1, <2>2 DEF Satisfied
<1> QED  BY <1>3, <1>4, <1>5

LEMMA SatisfiedNegated ==
  ASSUME NEW v \in Total, NEW s \in Clause
  PROVE  /\ Negated(s) \in Clause /\ Len(Negated(s)) = Len(s)
         /\ Satisfied(v, Negated(s)) <=> ~(\A i \in 1 .. Len(s) : True(v, s[i]))
<1>1. DOMAIN s = 1 .. Len(s) /\ Len(s) \in Nat /\ \A i \in 1 .. Len(s) : s[i] \in Literal
  BY DEF Clause
<1>2. \A i \in 1 .. Len(s) : -s[i] \in Literal /\ (True(v, -s[i]) <=> ~True(v, s[i]))
  BY <1>1, TrueNegation
<1>3. /\ Negated(s) \in Clause /\ Len(Negated(s)) = Len(s) /\ DOMAIN Negated(s) = 1 .. Len(s)
      /\ \A i \in 1 .. Len(s) : Negated(s)[i] = -s[i]
  BY <1>1, <1>2 DEF Clause, Negated
<1> QED  BY <1>2, <1>3 DEF Satisfied

LEMMA SatisfiedAppend ==
  ASSUME NEW v, NEW s \in Clause, NEW l \in Literal
  PROVE  Satisfied(v, Append(s, l)) <=> Satisfied(v, s) \/ True(v, l)
<1>1. Append(s, l) = s \o <<l>> /\ <<l>> \in Clause  BY DEF Clause
<1>2. Satisfied(v, s \o <<l>>) <=> Satisfied(v, s) \/ Satisfied(v, <<l>>)
  BY <1>1, SatisfiedConcat
<1>3. Satisfied(v, <<l>>) <=> True(v, l)  BY SatisfiedShort
<1> QED  BY <1>1, <1>2, <1>3

-----------------------------------------------------------------------------
(* Gates: the clauses force the output to the value of the gate.           *)

LEMMA BuffGateMeans ==
  ASSUME NEW v \in Total, NEW a \in Literal, NEW b \in Literal,
         AllSatisfied(v, BuffGate(a, b))
  PROVE  True(v, a) <=> True(v, b)
<1>1. Satisfied(v, <<-a, b>>) /\ Satisfied(v, <<a, -b>>)  BY DEF AllSatisfied, BuffGate
<1> QED  BY <1>1, SatisfiedShort, TrueNegation

LEMMA AndGateMeans ==
  ASSUME NEW v \in Total, NEW o \in Literal, NEW s \in Clause,
         AllSatisfied(v, AndGate(o, s))
  PROVE  True(v, o) <=> Count(v, s) = Len(s)
<1>1. DOMAIN s = 1 .. Len(s) /\ \A i \in 1 .. Len(s) : s[i] \in Literal  BY DEF Clause
<1>2. \A i \in 1 .. Len(s) : True(v, o) => True(v, s[i])
  <2> TAKE i \in 1 .. Len(s)
  <2>1. Satisfied(v, <<s[i], -o>>)  BY <1>1 DEF AllSatisfied, AndGate
  <2> QED  BY <2>1, SatisfiedShort, TrueNegation
<1>3. Satisfied(v, Append(Negated(s), o))  BY DEF AllSatisfied, AndGate
<1>4. (\A i \in 1 .. Len(s) : True(v, s[i])) => True(v, o)
  BY <1>3, SatisfiedNegated, SatisfiedAppend
<1> QED  BY <1>2, <1>4, CountIsAll

LEMMA OrGateMeans ==
  ASSUME NEW v \in Total, NEW o \in Literal, NEW s \in Clause,
         AllSatisfied(v, OrGate(o, s))
  PROVE  True(v, o) <=> Count(v, s) >= 1
<1>1. DOMAIN s = 1 .. Len(s) /\ \A i \in 1 .. Len(s) : s[i] \in Literal  BY DEF Clause
<1>2. \A i \in 1 .. Len(s) : True(v, s[i]) => True(v, o)
  <2> TAKE i \in 1 .. Len(s)
  <2>1. Satisfied(v, <<-s[i], o>>)  BY <1>1 DEF AllSatisfied, OrGate
  <2> QED  BY <1>1, <2>1, SatisfiedShort, TrueNegation
<1>3. -o \in Literal /\ Satisfied(v, Append(s, -o))  BY TrueNegation DEF AllSatisfied, OrGate
<1>4. True(v, o) => Satisfied(v, s)  BY <1>3, SatisfiedAppend, TrueNegation
<1>5. Satisfied(v, s) => True(v, o)  BY <1>1, <1>2 DEF Satisfied
<1> QED  BY <1>4, <1>5, CountPositive

LEMMA XorGate2Means ==
  ASSUME NEW v \in Total, NEW o \in Literal, NEW a \in Literal, NEW b \in Literal,
         AllSatisfied(v, XorGate2(o, a, b))
  PROVE  True(v, o) <=> (True(v, a) <=> ~True(v, b))
<1>1. /\ Satisfied(v, <<a, b, -o>>) /\ Satisfied(v, <<a, -b, o>>)
      /\ Satisfied(v, <<-a, b, o>>) /\ Satisfied(v, <<-a, -b, -o>>)
  BY DEF AllSatisfied, XorGate2
<1> QED  BY <1>1, SatisfiedShort, TrueNegation

LEMMA XorGate3Means ==
  ASSUME NEW v \in Total, NEW o \in Literal,
         NEW a \in Literal, NEW b \in Literal, NEW c \in Literal,
         AllSatisfied(v, XorGate3(o, a, b, c))
  PROVE  True(v, o) <=> (True(v, a) <=> (True(v, b) <=> True(v, c)))
<1>1. /\ Satisfied(v, <<a, b, c, -o>>) /\ Satisfied(v, <<a, b, -c, o>>)
      /\ Satisfied(v, <<a, -b, c, o>>) /\ Satisfied(v, <<a, -b, -c, -o>>)
      /\ Satisfied(v, <<-a, b, c, o>>) /\ Satisfied(v, <<-a, b, -c, -o>>)
      /\ Satisfied(v, <<-a, -b, c, -o>>) /\ Satisfied(v, <<-a, -b, -c, o>>)
  BY DEF AllSatisfied, XorGate3
<1>2. \A l \in {a, b, c, o} : True(v, l) \in BOOLEAN /\ (True(v, -l) <=> ~True(v, l))
  BY TrueNegation
<1>3. /\ True(v, a) \/ True(v, b) \/ True(v, c) \/ ~True(v, o)
      /\ True(v, a) \/ True(v, b) \/ ~True(v, c) \/ True(v, o)
      /\ True(v, a) \/ ~True(v, b) \/ True(v, c) \/ True(v, o)
      /\ True(v, a) \/ ~True(v, b) \/ ~True(v, c) \/ ~True(v, o)
      /\ ~True(v, a) \/ True(v, b) \/ True(v, c) \/ True(v, o)
      /\ ~True(v, a) \/ True(v, b) \/ ~True(v, c) \/ ~True(v, o)
      /\ ~True(v, a) \/ ~True(v, b) \/ True(v, c) \/ ~True(v, o)
      /\ ~True(v, a) \/ ~True(v, b) \/ ~True(v, c) \/ True(v, o)
  <2>1. True(v, a) \/ True(v, b) \/ True(v, c) \/ True(v, -o)  BY <1>1, SatisfiedFour
  <2>2. True(v, a) \/ True(v, b) \/ True(v, -c) \/ True(v, o)  BY <1>1, SatisfiedFour
  <2>3. True(v, a) \/ True(v, -b) \/ True(v, c) \/ True(v, o)  BY <1>1, SatisfiedFour
  <2>4. True(v, a) \/ True(v, -b) \/ True(v, -c) \/ True(v, -o)  BY <1>1, SatisfiedFour
  <2>5. True(v, -a) \/ True(v, b) \/ True(v, c) \/ True(v, o)  BY <1>1, SatisfiedFour
  <2>6. True(v, -a) \/ True(v, b) \/ True(v, -c) \/ True(v, -o)  BY <1>1, SatisfiedFour
  <2>7. True(v, -a) \/ True(v, -b) \/ True(v, c) \/ True(v, -o)  BY <1>1, SatisfiedFour
  <2>8. True(v, -a) \/ True(v, -b) \/ True(v, -c) \/ True(v, o)  BY <1>1, SatisfiedFour
  <2> QED  BY <1>2, <2>1, <2>2, <2>3, <2>4, <2>5, <2>6, <2>7, <2>8
<1> QED  BY <1>2, <1>3

LEMMA HalfAdderMeans ==
  ASSUME NEW v \in Total, NEW a \in Literal, NEW b \in Literal,
         NEW s \in Literal, NEW o \in Literal, AllSatisfied(v, HalfAdder(a, b, s, o))
  PROVE  Value(v, a) + Value(v, b) = 2 * Value(v, o) + Value(v, s)
<1>1. True(v, s) <=> (True(v, a) <=> ~True(v, b))
  BY XorGate2Means DEF AllSatisfied, HalfAdder
<1>2. Satisfied(v, <<-o, a>>) /\ Satisfied(v, <<-o, b>>) /\ Satisfied(v, <<o, -a, -b>>)
  BY DEF AllSatisfied, HalfAdder
<1>3. True(v, o) <=> True(v, a) /\ True(v, b)  BY <1>2, SatisfiedShort, TrueNegation
<1> QED  BY <1>1, <1>3 DEF Value

LEMMA FullAdderMeans ==
  ASSUME NEW v \in Total, NEW a \in Literal, NEW b \in Literal, NEW c \in Literal,
         NEW s \in Literal, NEW o \in Literal, AllSatisfied(v, FullAdder(a, b, c, s, o))
  PROVE  Value(v, a) + Value(v, b) + Value(v, c) = 2 * Value(v, o) + Value(v, s)
<1>1. True(v, s) <=> (True(v, a) <=> (True(v, b) <=> True(v, c)))
  BY XorGate3Means DEF AllSatisfied, FullAdder
<1>2. /\ Satisfied(v, <<-o, a, b>>) /\ Satisfied(v, <<-o, a, c>>) /\ Satisfied(v, <<-o, b, c>>)
      /\ Satisfied(v, <<o, -a, -b>>) /\ Satisfied(v, <<o, -a, -c>>)
      /\ Satisfied(v, <<o, -b, -c>>)
  BY DEF AllSatisfied, FullAdder
<1>3. True(v, o) <=> \/ True(v, a) /\ True(v, b)
                     \/ True(v, a) /\ True(v, c)
                     \/ True(v, b) /\ True(v, c)
  BY <1>2, SatisfiedShort, TrueNegation
<1> QED  BY <1>1, <1>3 DEF Value

-----------------------------------------------------------------------------
(* Forbidden patterns.                                                     *)

LEMMA AtMostOneOfMeans ==
  ASSUME NEW v \in Total, NEW s \in Clause, AllSatisfied(v, AtMostOneOf(s))
  PROVE  Count(v, s) <= 1
<1>1. DOMAIN s = 1 .. Len(s) /\ \A i \in 1 .. Len(s) : s[i] \in Literal  BY DEF Clause
<1>2. \A i, j \in 1 .. Len(s) : i < j => ~(True(v, s[i]) /\ True(v, s[j]))
  <2> SUFFICES ASSUME NEW i \in 1 .. Len(s), NEW j \in 1 .. Len(s), i < j
               PROVE  ~(True(v, s[i]) /\ True(v, s[j]))
    OBVIOUS
  <2>1. <<-s[i], -s[j]>> \in AtMostOneOf(s)
    <3>1. <<i, j>> \in {q \in (DOMAIN s) \X (DOMAIN s) : q[1] < q[2]}  BY <1>1
    <3> QED  BY <3>1 DEF AtMostOneOf
  <2>2. Satisfied(v, <<-s[i], -s[j]>>)  BY <2>1 DEF AllSatisfied
  <2> QED  BY <1>1, <2>2, SatisfiedShort, TrueNegation
<1>3. ~(Count(v, s) >= 2)  BY <1>2, CountTwoOrMore
<1>4. Count(v, s) \in Nat  BY OnesFinite
<1> QED  BY <1>3, <1>4

LEMMA AtMostTwoOfMeans ==
  ASSUME NEW v \in Total, NEW s \in Clause, AllSatisfied(v, AtMostTwoOf(s))
  PROVE  Count(v, s) <= 2
<1>1. DOMAIN s = 1 .. Len(s) /\ \A i \in 1 .. Len(s) : s[i] \in Literal  BY DEF Clause
<1>2. \A i, j, k \in 1 .. Len(s) :
        i < j /\ j < k => ~(True(v, s[i]) /\ True(v, s[j]) /\ True(v, s[k]))
  <2> SUFFICES ASSUME NEW i \in 1 .. Len(s), NEW j \in 1 .. Len(s), NEW k \in 1 .. Len(s),
                      i < j, j < k
               PROVE  ~(True(v, s[i]) /\ True(v, s[j]) /\ True(v, s[k]))
    OBVIOUS
  <2>1. <<-s[i], -s[j], -s[k]>> \in AtMostTwoOf(s)
    <3>1. <<i, j, k>> \in {q \in (DOMAIN s) \X (DOMAIN s) \X (DOMAIN s) :
                             q[1] < q[2] /\ q[2] < q[3]}
      BY <1>1
    <3> QED  BY <3>1 DEF AtMostTwoOf
  <2>2. Satisfied(v, <<-s[i], -s[j], -s[k]>>)  BY <2>1 DEF AllSatisfied
  <2> QED  BY <1>1, <2>2, SatisfiedShort, TrueNegation
<1>3. ~(Count(v, s) >= 3)  BY <1>2, CountThreeOrMore
<1>4. Count(v, s) \in Nat  BY OnesFinite
<1> QED  BY <1>3, <1>4

LEMMA AtLeastTwoOfMeans ==
  ASSUME NEW v \in Total, NEW s \in Clause, Len(s) >= 1, AllSatisfied(v, AtLeastTwoOf(s))
  PROVE  Count(v, s) >= 2
<1>1. DOMAIN s = 1 .. Len(s) /\ Len(s) \in Nat  BY DEF Clause
<1>2. \A i \in 1 .. Len(s) : \E j \in 1 .. Len(s) : j # i /\ True(v, s[j])
  <2> TAKE i \in 1 .. Len(s)
  <2>1. Satisfied(v, Without(s, i))  BY <1>1 DEF AllSatisfied, AtLeastTwoOf
  <2>2. PICK j \in 1 .. Len(s) - 1 : True(v, IF j < i THEN s[j] ELSE s[j + 1])
    BY <2>1 DEF Satisfied, Without
  <2>3. CASE j < i
    <3>1. j \in 1 .. Len(s) /\ j # i /\ True(v, s[j])  BY <1>1, <2>2, <2>3
    <3> QED  BY <3>1
  <2>4. CASE ~(j < i)
    <3>1. j + 1 \in 1 .. Len(s) /\ j + 1 # i /\ True(v, s[j + 1])  BY <1>1, <2>2, <2>4
    <3> QED  BY <3>1
  <2> QED  BY <2>3, <2>4
<1>3. PICK i \in 1 .. Len(s) : True(v, s[i])
  <2>1. 1 \in 1 .. Len(s)  BY <1>1
  <2> QED  BY <1>2, <2>1
<1>4. PICK j \in 1 .. Len(s) : j # i /\ True(v, s[j])  BY <1>2
<1>5. i < j \/ j < i  BY <1>1, <1>4
<1> QED  BY <1>3, <1>4, <1>5, CountTwoOrMore

LEMMA NotOneOfMeans ==
  ASSUME NEW v \in Total, NEW s \in Clause, AllSatisfied(v, NotOneOf(s))
  PROVE  Count(v, s) # 1
<1> SUFFICES ASSUME Count(v, s) = 1 PROVE FALSE  OBVIOUS
<1>1. DOMAIN s = 1 .. Len(s) /\ Len(s) \in Nat /\ \A i \in 1 .. Len(s) : s[i] \in Literal
  BY DEF Clause
<1>2. PICK i \in 1 .. Len(s) : True(v, s[i])  BY <1>1, CountPositive DEF Satisfied
<1>3. Satisfied(v, [s EXCEPT ![i] = -s[i]])  BY <1>1 DEF AllSatisfied, NotOneOf
<1>4. PICK j \in 1 .. Len(s) : True(v, [s EXCEPT ![i] = -s[i]][j])  BY <1>1, <1>3 DEF Satisfied
<1>5. j # i /\ True(v, s[j])
  <2>1. ~True(v, -s[i])  BY <1>1, <1>2, TrueNegation
  <2> QED  BY <1>1, <1>4, <2>1
<1>6. i < j \/ j < i  BY <1>1, <1>5
<1> QED  BY <1>2, <1>5, <1>6, CountTwoOrMore

-----------------------------------------------------------------------------
(* And nothing more: an assignment that gives the output the value of the  *)
(* gate, or has as many true literals as it may, satisfies the clauses.    *)

LEMMA BuffGateHolds ==
  ASSUME NEW v \in Total, NEW a \in Literal, NEW b \in Literal,
         True(v, a) <=> True(v, b)
  PROVE  AllSatisfied(v, BuffGate(a, b))
<1>1. Satisfied(v, <<-a, b>>) /\ Satisfied(v, <<a, -b>>)  BY SatisfiedShort, TrueNegation
<1> QED  BY <1>1 DEF AllSatisfied, BuffGate

LEMMA AndGateHolds ==
  ASSUME NEW v \in Total, NEW o \in Literal, NEW s \in Clause,
         True(v, o) <=> Count(v, s) = Len(s)
  PROVE  AllSatisfied(v, AndGate(o, s))
<1>1. DOMAIN s = 1 .. Len(s) /\ \A i \in 1 .. Len(s) : s[i] \in Literal  BY DEF Clause
<1>2. True(v, o) <=> \A i \in 1 .. Len(s) : True(v, s[i])  BY CountIsAll
<1>3. \A i \in 1 .. Len(s) : Satisfied(v, <<s[i], -o>>)
  <2> TAKE i \in 1 .. Len(s)
  <2>1. True(v, -o) <=> ~True(v, o)  BY TrueNegation
  <2> QED  BY <1>2, <2>1, SatisfiedShort
<1>4. Satisfied(v, Append(Negated(s), o))  BY <1>2, SatisfiedNegated, SatisfiedAppend
<1> QED  BY <1>1, <1>3, <1>4 DEF AllSatisfied, AndGate

LEMMA OrGateHolds ==
  ASSUME NEW v \in Total, NEW o \in Literal, NEW s \in Clause,
         True(v, o) <=> Count(v, s) >= 1
  PROVE  AllSatisfied(v, OrGate(o, s))
<1>1. DOMAIN s = 1 .. Len(s) /\ \A i \in 1 .. Len(s) : s[i] \in Literal  BY DEF Clause
<1>2. True(v, o) <=> Satisfied(v, s)  BY CountPositive
<1>3. \A i \in 1 .. Len(s) : Satisfied(v, <<-s[i], o>>)
  <2> TAKE i \in 1 .. Len(s)
  <2>1. True(v, -s[i]) <=> ~True(v, s[i])  BY <1>1, TrueNegation
  <2>2. True(v, s[i]) => True(v, o)  BY <1>1, <1>2 DEF Satisfied
  <2> QED  BY <2>1, <2>2, SatisfiedShort
<1>4. Satisfied(v, Append(s, -o))
  <2>1. -o \in Literal /\ (True(v, -o) <=> ~True(v, o))  BY TrueNegation
  <2> QED  BY <1>2, <2>1, SatisfiedAppend
<1> QED  BY <1>1, <1>3, <1>4 DEF AllSatisfied, OrGate

LEMMA XorGate2Holds ==
  ASSUME NEW v \in Total, NEW o \in Literal, NEW a \in Literal, NEW b \in Literal,
         True(v, o) <=> (True(v, a) <=> ~True(v, b))
  PROVE  AllSatisfied(v, XorGate2(o, a, b))
<1>1. /\ Satisfied(v, <<a, b, -o>>) /\ Satisfied(v, <<a, -b, o>>)
      /\ Satisfied(v, <<-a, b, o>>) /\ Satisfied(v, <<-a, -b, -o>>)
  BY SatisfiedShort, TrueNegation
<1> QED  BY <1>1 DEF AllSatisfied, XorGate2

LEMMA FourSatisfy ==
  ASSUME NEW v, NEW a, NEW b, NEW c, NEW d,
         True(v, a) \/ True(v, b) \/ True(v, c) \/ True(v, d)
  PROVE  Satisfied(v, <<a, b, c, d>>)
<1>1. DOMAIN <<a, b, c, d>> = 1 .. 4  OBVIOUS
<1>2. /\ <<a, b, c, d>>[1] = a /\ <<a, b, c, d>>[2] = b
      /\ <<a, b, c, d>>[3] = c /\ <<a, b, c, d>>[4] = d
  OBVIOUS
<1>3. 1 \in 1 .. 4 /\ 2 \in 1 .. 4 /\ 3 \in 1 .. 4 /\ 4 \in 1 .. 4  OBVIOUS
<1> QED  BY <1>1, <1>2, <1>3 DEF Satisfied

LEMMA XorGate3Holds ==
  ASSUME NEW v \in Total, NEW o \in Literal,
         NEW a \in Literal, NEW b \in Literal, NEW c \in Literal,
         True(v, o) <=> (True(v, a) <=> (True(v, b) <=> True(v, c)))
  PROVE  AllSatisfied(v, XorGate3(o, a, b, c))
<1>1. \A l \in {a, b, c, o} : True(v, l) \in BOOLEAN /\ (True(v, -l) <=> ~True(v, l))
  BY TrueNegation
<1>2. Satisfied(v, <<a, b, c, -o>>) /\ Satisfied(v, <<a, b, -c, o>>)  BY <1>1, FourSatisfy
<1>3. Satisfied(v, <<a, -b, c, o>>) /\ Satisfied(v, <<a, -b, -c, -o>>)  BY <1>1, FourSatisfy
<1>4. Satisfied(v, <<-a, b, c, o>>) /\ Satisfied(v, <<-a, b, -c, -o>>)  BY <1>1, FourSatisfy
<1>5. Satisfied(v, <<-a, -b, c, -o>>) /\ Satisfied(v, <<-a, -b, -c, o>>)  BY <1>1, FourSatisfy
<1> QED  BY <1>2, <1>3, <1>4, <1>5 DEF AllSatisfied, XorGate3

LEMMA HalfAdderHolds ==
  ASSUME NEW v \in Total, NEW a \in Literal, NEW b \in Literal,
         NEW s \in Literal, NEW o \in Literal,
         Value(v, a) + Value(v, b) = 2 * Value(v, o) + Value(v, s)
  PROVE  AllSatisfied(v, HalfAdder(a, b, s, o))
<1>1. \A l : Value(v, l) = 1 <=> True(v, l)  BY DEF Value
<1>2. \A l : Value(v, l) = 0 \/ Value(v, l) = 1  BY DEF Value
<1>3. /\ True(v, s) <=> (True(v, a) <=> ~True(v, b))
      /\ True(v, o) <=> True(v, a) /\ True(v, b)
  BY <1>1, <1>2
<1>4. AllSatisfied(v, XorGate2(s, a, b))  BY <1>3, XorGate2Holds
<1>5. Satisfied(v, <<-o, a>>) /\ Satisfied(v, <<-o, b>>) /\ Satisfied(v, <<o, -a, -b>>)
  BY <1>3, SatisfiedShort, TrueNegation
<1> QED  BY <1>4, <1>5 DEF AllSatisfied, HalfAdder

LEMMA FullAdderHolds ==
  ASSUME NEW v \in Total, NEW a \in Literal, NEW b \in Literal, NEW c \in Literal,
         NEW s \in Literal, NEW o \in Literal,
         Value(v, a) + Value(v, b) + Value(v, c) = 2 * Value(v, o) + Value(v, s)
  PROVE  AllSatisfied(v, FullAdder(a, b, c, s, o))
<1>1. \A l : Value(v, l) = 1 <=> True(v, l)  BY DEF Value
<1>2. \A l : Value(v, l) = 0 \/ Value(v, l) = 1  BY DEF Value
<1>3. /\ True(v, s) <=> (True(v, a) <=> (True(v, b) <=> True(v, c)))
      /\ True(v, o) <=> \/ True(v, a) /\ True(v, b)
                        \/ True(v, a) /\ True(v, c)
                        \/ True(v, b) /\ True(v, c)
  BY <1>1, <1>2
<1>4. AllSatisfied(v, XorGate3(s, a, b, c))  BY <1>3, XorGate3Holds
<1>5. /\ Satisfied(v, <<-o, a, b>>) /\ Satisfied(v, <<-o, a, c>>) /\ Satisfied(v, <<-o, b, c>>)
      /\ Satisfied(v, <<o, -a, -b>>) /\ Satisfied(v, <<o, -a, -c>>)
      /\ Satisfied(v, <<o, -b, -c>>)
  BY <1>3, SatisfiedShort, TrueNegation
<1> QED  BY <1>4, <1>5 DEF AllSatisfied, FullAdder

LEMMA AtMostOneOfHolds ==
  ASSUME NEW v \in Total, NEW s \in Clause, Count(v, s) <= 1
  PROVE  AllSatisfied(v, AtMostOneOf(s))
<1>1. DOMAIN s = 1 .. Len(s) /\ \A i \in 1 .. Len(s) : s[i] \in Literal  BY DEF Clause
<1>2. ~(Count(v, s) >= 2)
  <2>1. Count(v, s) \in Nat  BY OnesFinite
  <2> QED  BY <2>1
<1>3. ASSUME NEW i \in 1 .. Len(s), NEW j \in 1 .. Len(s), i < j
      PROVE  Satisfied(v, <<-s[i], -s[j]>>)
  <2>1. ~(True(v, s[i]) /\ True(v, s[j]))  BY <1>2, <1>3, CountTwoOrMore
  <2> QED  BY <1>1, <2>1, SatisfiedShort, TrueNegation
<1> QED  BY <1>1, <1>3 DEF AllSatisfied, AtMostOneOf

(* Three positions.                                                        *)
LEMMA ThreeOnes ==
  ASSUME NEW v, NEW s \in Clause, NEW i \in 1 .. Len(s), NEW j \in 1 .. Len(s),
         NEW k \in 1 .. Len(s), i < j, j < k, True(v, s[i]), True(v, s[j]), True(v, s[k])
  PROVE  Count(v, s) >= 3
<1> DEFINE S == Ones(v, s)
<1>1. /\ IsFiniteSet(S) /\ Count(v, s) = Cardinality(S) /\ S \subseteq 1 .. Len(s)
      /\ i \in S /\ j \in S /\ k \in S /\ Len(s) \in Nat
  BY OnesFinite, OnesMembers
<1> HIDE DEF S
<1>2. i # j /\ j # k /\ i # k  BY <1>1
<1>3. /\ IsFiniteSet(S \ {i}) /\ Cardinality(S) = Cardinality(S \ {i}) + 1
      /\ Cardinality(S \ {i}) \in Nat
  BY <1>1, OneFewer
<1>4. /\ IsFiniteSet((S \ {i}) \ {j}) /\ Cardinality(S \ {i}) = Cardinality((S \ {i}) \ {j}) + 1
      /\ Cardinality((S \ {i}) \ {j}) \in Nat /\ Cardinality((S \ {i}) \ {j}) >= 1
  <2>1. j \in S \ {i} /\ k \in (S \ {i}) \ {j}  BY <1>1, <1>2
  <2> QED  BY <1>3, <2>1, OneFewer
<1> QED  BY <1>1, <1>3, <1>4

LEMMA AtMostTwoOfHolds ==
  ASSUME NEW v \in Total, NEW s \in Clause, Count(v, s) <= 2
  PROVE  AllSatisfied(v, AtMostTwoOf(s))
<1>1. DOMAIN s = 1 .. Len(s) /\ \A i \in 1 .. Len(s) : s[i] \in Literal  BY DEF Clause
<1>2. ~(Count(v, s) >= 3)
  <2>1. Count(v, s) \in Nat  BY OnesFinite
  <2> QED  BY <2>1
<1>3. ASSUME NEW i \in 1 .. Len(s), NEW j \in 1 .. Len(s), NEW k \in 1 .. Len(s), i < j, j < k
      PROVE  Satisfied(v, <<-s[i], -s[j], -s[k]>>)
  <2>1. ~(True(v, s[i]) /\ True(v, s[j]) /\ True(v, s[k]))  BY <1>2, <1>3, ThreeOnes
  <2> QED  BY <1>1, <2>1, SatisfiedShort, TrueNegation
<1> QED  BY <1>1, <1>3 DEF AllSatisfied, AtMostTwoOf

LEMMA AtLeastTwoOfHolds ==
  ASSUME NEW v \in Total, NEW s \in Clause, Count(v, s) >= 2
  PROVE  AllSatisfied(v, AtLeastTwoOf(s))
<1>1. DOMAIN s = 1 .. Len(s) /\ Len(s) \in Nat  BY DEF Clause
<1>2. PICK a, b \in 1 .. Len(s) : a < b /\ True(v, s[a]) /\ True(v, s[b])  BY CountTwoOrMore
<1>3. ASSUME NEW i \in 1 .. Len(s) PROVE Satisfied(v, Without(s, i))
  <2>1. PICK j \in 1 .. Len(s) : j # i /\ True(v, s[j])
    <3>1. a # i \/ b # i  BY <1>1, <1>2
    <3> QED  BY <1>2, <3>1
  <2>2. /\ DOMAIN Without(s, i) = 1 .. Len(s) - 1
        /\ \A m \in 1 .. Len(s) - 1 : Without(s, i)[m] = IF m < i THEN s[m] ELSE s[m + 1]
    BY DEF Without
  <2>3. CASE j < i
    <3>1. j \in 1 .. Len(s) - 1  BY <1>1, <2>3
    <3>2. Without(s, i)[j] = s[j]  BY <2>2, <2>3, <3>1
    <3> QED  BY <2>1, <2>2, <3>1, <3>2 DEF Satisfied
  <2>4. CASE ~(j < i)
    <3>1. j - 1 \in 1 .. Len(s) - 1 /\ ~(j - 1 < i) /\ (j - 1) + 1 = j  BY <1>1, <2>1, <2>4
    <3>2. Without(s, i)[j - 1] = s[j]  BY <2>2, <3>1
    <3> QED  BY <2>1, <2>2, <3>1, <3>2 DEF Satisfied
  <2> QED  BY <2>3, <2>4
<1> QED  BY <1>1, <1>3 DEF AllSatisfied, AtLeastTwoOf

LEMMA NotOneOfHolds ==
  ASSUME NEW v \in Total, NEW s \in Clause, Count(v, s) # 1
  PROVE  AllSatisfied(v, NotOneOf(s))
<1>1. DOMAIN s = 1 .. Len(s) /\ Len(s) \in Nat /\ \A i \in 1 .. Len(s) : s[i] \in Literal
  BY DEF Clause
<1>2. ASSUME NEW i \in 1 .. Len(s) PROVE Satisfied(v, [s EXCEPT ![i] = -s[i]])
  <2> DEFINE t == [s EXCEPT ![i] = -s[i]]
  <2>1. /\ DOMAIN t = 1 .. Len(s) /\ t[i] = -s[i]
        /\ \A j \in 1 .. Len(s) : j # i => t[j] = s[j]
    BY <1>1
  <2> HIDE DEF t
  <2>2. CASE True(v, s[i])
    <3>1. Count(v, s) >= 1  BY <1>1, <2>2, CountPositive DEF Satisfied
    <3>2. Count(v, s) >= 2
      <4>1. Count(v, s) \in Nat  BY OnesFinite
      <4> QED  BY <3>1, <4>1
    <3>3. PICK a, b \in 1 .. Len(s) : a < b /\ True(v, s[a]) /\ True(v, s[b])
      BY <3>2, CountTwoOrMore
    <3>4. a # i \/ b # i  BY <1>1, <3>3
    <3> QED  BY <2>1, <3>3, <3>4 DEF Satisfied, t
  <2>3. CASE ~True(v, s[i])
    <3>1. True(v, t[i])  BY <1>1, <2>1, <2>3, TrueNegation
    <3> QED  BY <2>1, <3>1 DEF Satisfied, t
  <2> QED  BY <2>2, <2>3 DEF t
<1> QED  BY <1>1, <1>2 DEF AllSatisfied, NotOneOf

-----------------------------------------------------------------------------
(* Numbers.                                                                *)
LEMMA LeastNumber ==
  ASSUME NEW S \in SUBSET Nat, S # {}
  PROVE  \E n \in S : \A m \in S : n <= m
<1> DEFINE R == OpToRel(<, Nat)
<1>1. IsWellFoundedOn(R, Nat)  BY NatLessThanWellFounded
<1>2. \A a, b \in Nat : <<a, b>> \in R <=> a < b  BY DEF OpToRel
<1> HIDE DEF R
<1>3. PICK n \in S : \A m \in S : ~(<<m, n>> \in R)  BY <1>1, WFMin
<1>4. \A m \in S : n <= m
  <2> TAKE m \in S
  <2>1. ~(m < n)  BY <1>2, <1>3
  <2> QED  BY <2>1
<1> QED  BY <1>3, <1>4

(* A set of numbers that has 0 and the successor of each of its members.   *)
LEMMA Numbers ==
  ASSUME NEW S, 0 \in S, \A n \in Nat : n \in S => n + 1 \in S
  PROVE  \A n \in Nat : n \in S
<1> DEFINE Bad == {n \in Nat : n \notin S}
<1> SUFFICES ASSUME Bad # {} PROVE FALSE  OBVIOUS
<1>1. PICK n \in Bad : \A m \in Bad : n <= m
  <2>1. Bad \in SUBSET Nat  OBVIOUS
  <2> HIDE DEF Bad
  <2> QED  BY <2>1, LeastNumber
<1>2. n # 0 /\ n \in Nat /\ n \notin S  OBVIOUS
<1>3. n - 1 \in Nat /\ (n - 1) + 1 = n  BY <1>2
<1>4. n - 1 \notin S  BY <1>2, <1>3
<1>5. n - 1 \in Bad  BY <1>3, <1>4
<1>6. n <= n - 1  BY <1>1, <1>5
<1> QED  BY <1>2, <1>6

(* A function by recursion on the numbers exists.                          *)
LEMMA Recursion ==
  ASSUME NEW b \in Int, NEW g \in [Nat \X Int -> Int]
  PROVE  \E f \in [Nat -> Int] : f = [n \in Nat |-> IF n = 0 THEN b ELSE g[<<n, f[n - 1]>>]]
<1> DEFINE Upto(n, h) == /\ h \in [0 .. n -> Int] /\ h[0] = b
                         /\ \A i \in 1 .. n : h[i] = g[<<i, h[i - 1]>>]
           Some == {n \in Nat : \E h : Upto(n, h)}
           Same(n) == \A h, k : \A m \in Nat : m >= n /\ Upto(n, h) /\ Upto(m, k) => h[n] = k[n]
           Unique == {n \in Nat : Same(n)}
<1>1. 0 \in Some
  <2>1. Upto(0, [i \in 0 .. 0 |-> b])  OBVIOUS
  <2> QED  BY <2>1
<1>2. ASSUME NEW n \in Nat, n \in Some PROVE n + 1 \in Some
  <2>1. PICK h : Upto(n, h)  BY <1>2
  <2> DEFINE k == [i \in 0 .. n + 1 |-> IF i = n + 1 THEN g[<<n + 1, h[n]>>] ELSE h[i]]
  <2>2. h[n] \in Int  BY <2>1
  <2>3. g[<<n + 1, h[n]>>] \in Int  BY <2>2
  <2>4. \A i \in 0 .. n + 1 : i # n + 1 => i \in 0 .. n  OBVIOUS
  <2>5. k \in [0 .. n + 1 -> Int]
    <3>1. \A i \in 0 .. n + 1 : k[i] \in Int  BY <2>1, <2>3, <2>4
    <3> QED  BY <3>1
  <2>6. k[0] = b  BY <2>1
  <2>7. \A i \in 1 .. n + 1 : k[i] = g[<<i, k[i - 1]>>]
    <3> SUFFICES ASSUME NEW i \in 1 .. n + 1 PROVE k[i] = g[<<i, k[i - 1]>>]  OBVIOUS
    <3>1. i - 1 \in 0 .. n + 1 /\ i - 1 # n + 1 /\ i \in 0 .. n + 1  OBVIOUS
    <3>2. k[i - 1] = h[i - 1]  BY <3>1
    <3>3. CASE i = n + 1
      <4>1. i - 1 = n  BY <3>3
      <4> QED  BY <3>1, <3>2, <3>3, <4>1
    <3>4. CASE i # n + 1
      <4>1. i \in 1 .. n  BY <3>4
      <4>2. k[i] = h[i]  BY <3>1, <3>4
      <4> QED  BY <2>1, <3>2, <4>1, <4>2
    <3> QED  BY <3>3, <3>4
  <2>8. Upto(n + 1, k)  BY <2>5, <2>6, <2>7
  <2>9. n + 1 \in Nat  OBVIOUS
  <2> HIDE DEF Upto, k
  <2> QED  BY <2>8, <2>9
<1>3. \A n \in Nat : \E h : Upto(n, h)
  <2> HIDE DEF Upto
  <2>1. \A n \in Nat : n \in Some => n + 1 \in Some  BY <1>2
  <2> HIDE DEF Some
  <2>2. \A n \in Nat : n \in Some  BY <1>1, <2>1, Numbers
  <2> QED  BY <2>2 DEF Some
<1>4. 0 \in Unique  OBVIOUS
<1>5. ASSUME NEW n \in Nat, n \in Unique PROVE n + 1 \in Unique
  <2> SUFFICES ASSUME NEW h, NEW k, NEW m \in Nat, m >= n + 1, Upto(n + 1, h), Upto(m, k)
               PROVE  h[n + 1] = k[n + 1]
    OBVIOUS
  <2> DEFINE h1 == [i \in 0 .. n |-> h[i]]
  <2>1. \A i \in 0 .. n : i \in 0 .. n + 1  OBVIOUS
  <2>2. \A i \in 1 .. n : i \in 1 .. n + 1 /\ i \in 0 .. n /\ i - 1 \in 0 .. n  OBVIOUS
  <2>3. Upto(n, h1)
    <3>1. h1 \in [0 .. n -> Int]
      <4>1. \A i \in 0 .. n : h[i] \in Int  BY <2>1
      <4> QED  BY <4>1
    <3>2. h1[0] = b  OBVIOUS
    <3>3. \A i \in 1 .. n : h1[i] = g[<<i, h1[i - 1]>>]  BY <2>2
    <3> QED  BY <3>1, <3>2, <3>3
  <2>4. h1[n] = k[n]
    <3>1. m >= n  OBVIOUS
    <3> HIDE DEF Upto, h1
    <3> QED  BY <1>5, <2>3, <3>1
  <2>5. h[n] = k[n]  BY <2>4
  <2>6. n + 1 \in 1 .. m /\ n + 1 \in 1 .. n + 1 /\ (n + 1) - 1 = n  OBVIOUS
  <2> QED  BY <2>5, <2>6
<1>6. \A n \in Nat : Same(n)
  <2> HIDE DEF Same
  <2>1. \A n \in Nat : n \in Unique => n + 1 \in Unique  BY <1>5
  <2> HIDE DEF Unique
  <2>2. \A n \in Nat : n \in Unique  BY <1>4, <2>1, Numbers
  <2> QED  BY <2>2 DEF Unique
<1> DEFINE approx(n) == CHOOSE h : Upto(n, h)
           f == [n \in Nat |-> approx(n)[n]]
<1>7. \A n \in Nat : Upto(n, approx(n))
  <2> HIDE DEF Upto
  <2> QED  BY <1>3
<1> HIDE DEF approx
<1>8. \A n \in Nat : f[n] \in Int
  <2> TAKE n \in Nat
  <2>1. n \in 0 .. n /\ Upto(n, approx(n))  BY <1>7
  <2> QED  BY <2>1
<1>9. f[0] = b  BY <1>7
<1>10. ASSUME NEW n \in Nat, n # 0 PROVE f[n] = g[<<n, f[n - 1]>>]
  <2>1. n - 1 \in Nat /\ n >= n - 1 /\ n \in 1 .. n  BY <1>10
  <2>2. Upto(n, approx(n)) /\ Upto(n - 1, approx(n - 1))  BY <1>7, <2>1
  <2>3. approx(n - 1)[n - 1] = approx(n)[n - 1]
    <3> HIDE DEF Upto
    <3> QED  BY <1>6, <2>1, <2>2
  <2>4. approx(n)[n] = g[<<n, approx(n)[n - 1]>>]  BY <2>1, <2>2
  <2> QED  BY <2>1, <2>3, <2>4
<1>11. f \in [Nat -> Int]  BY <1>8
<1> HIDE DEF f
<1>12. f = [n \in Nat |-> IF n = 0 THEN b ELSE g[<<n, f[n - 1]>>]]
  <2>1. \A n \in Nat : f[n] = IF n = 0 THEN b ELSE g[<<n, f[n - 1]>>]  BY <1>9, <1>10
  <2> QED  BY <1>11, <2>1
<1> QED  BY <1>11, <1>12

LEMMA PowFacts ==
  /\ Pow[0] = 1
  /\ \A n \in Nat : Pow[n] \in Nat /\ Pow[n] >= 1 /\ Pow[n + 1] = 2 * Pow[n]
<1> DEFINE g == [p \in Nat \X Int |-> 2 * p[2]]
           Is(f) == f = [n \in Nat |-> IF n = 0 THEN 1 ELSE 2 * f[n - 1]]
<1>1. g \in [Nat \X Int -> Int]  OBVIOUS
<1>2. PICK f \in [Nat -> Int] : f = [n \in Nat |-> IF n = 0 THEN 1 ELSE g[<<n, f[n - 1]>>]]
  <2>1. 1 \in Int  OBVIOUS
  <2> HIDE DEF g
  <2> QED  BY <1>1, <2>1, Recursion
<1>3. \A n \in Nat : n # 0 => g[<<n, f[n - 1]>>] = 2 * f[n - 1]
  <2> TAKE n \in Nat
  <2> HAVE n # 0
  <2>1. n - 1 \in Nat  OBVIOUS
  <2>2. <<n, f[n - 1]>> \in Nat \X Int  BY <1>2, <2>1
  <2> QED  BY <2>2
<1> HIDE DEF g
<1>4. Is(f)
  <2>1. \A n \in Nat : (IF n = 0 THEN 1 ELSE g[<<n, f[n - 1]>>]) =
                       (IF n = 0 THEN 1 ELSE 2 * f[n - 1])
    BY <1>3
  <2> QED  BY <1>2, <2>1
<1>5. Pow = CHOOSE h : Is(h)  BY DEF Pow
<1>6. Is(Pow)
  <2> HIDE DEF Is
  <2> QED  BY <1>4, <1>5
<1>7. Pow[0] = 1 /\ \A n \in Nat : Pow[n + 1] = 2 * Pow[n]
  <2>1. \A n \in Nat : Pow[n] = IF n = 0 THEN 1 ELSE 2 * Pow[n - 1]
    <3> DEFINE P == Pow
    <3>1. P = [n \in Nat |-> IF n = 0 THEN 1 ELSE 2 * P[n - 1]]  BY <1>6
    <3> HIDE DEF P
    <3>2. \A n \in Nat : P[n] = IF n = 0 THEN 1 ELSE 2 * P[n - 1]  BY <3>1
    <3> QED  BY <3>2 DEF P
  <2>2. \A n \in Nat : n + 1 \in Nat /\ n + 1 # 0 /\ (n + 1) - 1 = n  OBVIOUS
  <2> QED  BY <2>1, <2>2
<1> DEFINE Fine == {n \in Nat : Pow[n] \in Nat /\ Pow[n] >= 1}
<1>8. 0 \in Fine  BY <1>7
<1>9. \A n \in Nat : n \in Fine => n + 1 \in Fine
  <2> SUFFICES ASSUME NEW n \in Nat, Pow[n] \in Nat, Pow[n] >= 1
               PROVE  Pow[n + 1] \in Nat /\ Pow[n + 1] >= 1
    OBVIOUS
  <2>1. Pow[n + 1] = 2 * Pow[n]  BY <1>7
  <2> QED  BY <2>1
<1> HIDE DEF Fine
<1>10. \A n \in Nat : n \in Fine  BY <1>8, <1>9, Numbers
<1> QED  BY <1>7, <1>10 DEF Fine

LEMMA PowGrows ==
  ASSUME NEW m \in Nat, NEW n \in Nat, m <= n
  PROVE  Pow[m] <= Pow[n]
<1> DEFINE Fine == {k \in Nat : Pow[m] <= Pow[m + k]}
<1>1. 0 \in Fine
  <2>1. m + 0 = m /\ Pow[m] \in Nat  BY PowFacts
  <2> QED  BY <2>1
<1>2. \A k \in Nat : k \in Fine => k + 1 \in Fine
  <2> SUFFICES ASSUME NEW k \in Nat, Pow[m] <= Pow[m + k] PROVE Pow[m] <= Pow[m + (k + 1)]
    OBVIOUS
  <2>1. m + k \in Nat /\ m + (k + 1) = (m + k) + 1  OBVIOUS
  <2>2. Pow[m] \in Nat /\ Pow[m + k] \in Nat /\ Pow[(m + k) + 1] = 2 * Pow[m + k]  BY <2>1, PowFacts
  <2> QED  BY <2>1, <2>2
<1> HIDE DEF Fine
<1>3. n - m \in Fine /\ m + (n - m) = n  BY <1>1, <1>2, Numbers
<1> QED  BY <1>3 DEF Fine

(* The weight of a literal as bit i of a vector, and the sums of these.    *)
Weight(v, l, i) == IF True(v, l) THEN Pow[i - 1] ELSE 0
Sums(v, s, f) ==
  /\ f \in [Nat -> Int] /\ f[0] = 0
  /\ \A i \in Nat : f[i + 1] = f[i] + Weight(v, s[i + 1], i + 1)

LEMMA WeightFacts ==
  ASSUME NEW v, NEW l, NEW n \in Nat
  PROVE  /\ Weight(v, l, n + 1) = (IF True(v, l) THEN Pow[n] ELSE 0)
         /\ Weight(v, l, n + 1) \in Nat
<1>1. (n + 1) - 1 = n /\ Pow[n] \in Nat  BY PowFacts
<1> QED  BY <1>1 DEF Weight

(* The recursion of ValueOf has a solution, whatever the vector is.        *)
LEMMA ValueSums ==
  ASSUME NEW v, NEW s
  PROVE  \E f : Sums(v, s, f) /\ ValueOf(v, s) = f[Len(s)]
<1> DEFINE Solves(f) == f = [i \in Nat |->
                          IF i = 0 THEN 0
                          ELSE f[i - 1] + (IF True(v, s[i]) THEN Pow[i - 1] ELSE 0)]
           h == CHOOSE f : Solves(f)
           g == [p \in Nat \X Int |-> IF p[1] = 0 THEN 0 ELSE p[2] + Weight(v, s[p[1]], p[1])]
<1>1. \A i \in Nat : i # 0 => Weight(v, s[i], i) \in Int
  <2> TAKE i \in Nat
  <2> HAVE i # 0
  <2>1. i - 1 \in Nat  OBVIOUS
  <2>2. Pow[i - 1] \in Nat  BY <2>1, PowFacts
  <2> QED  BY <2>2 DEF Weight
<1>2. g \in [Nat \X Int -> Int]
  <2>1. \A p \in Nat \X Int : p[1] \in Nat /\ p[2] \in Int  OBVIOUS
  <2>2. \A p \in Nat \X Int : g[p] \in Int  BY <1>1, <2>1
  <2> QED  BY <2>2
<1>3. PICK f \in [Nat -> Int] : f = [n \in Nat |-> IF n = 0 THEN 0 ELSE g[<<n, f[n - 1]>>]]
  <2>1. 0 \in Int  OBVIOUS
  <2> HIDE DEF g
  <2> QED  BY <1>2, <2>1, Recursion
<1>4. \A n \in Nat : n # 0 => g[<<n, f[n - 1]>>] = f[n - 1] + Weight(v, s[n], n)
  <2> TAKE n \in Nat
  <2> HAVE n # 0
  <2>1. n - 1 \in Nat  OBVIOUS
  <2>2. <<n, f[n - 1]>> \in Nat \X Int  BY <1>3, <2>1
  <2> QED  BY <2>2
<1> HIDE DEF g
<1>5. Solves(f)
  <2>1. \A n \in Nat : (IF n = 0 THEN 0 ELSE g[<<n, f[n - 1]>>]) =
          (IF n = 0 THEN 0 ELSE f[n - 1] + (IF True(v, s[n]) THEN Pow[n - 1] ELSE 0))
    BY <1>4 DEF Weight
  <2> QED  BY <1>3, <2>1
<1>6. ValueOf(v, s) = h[Len(s)]  BY DEF ValueOf
<1>7. Solves(h)
  <2> HIDE DEF Solves
  <2> QED  BY <1>5
<1> HIDE DEF h
<1>8. \A n \in Nat : h[n] = IF n = 0 THEN 0 ELSE h[n - 1] + Weight(v, s[n], n)
  BY <1>7 DEF Weight
<1>9. h[0] = 0 /\ \A i \in Nat : h[i + 1] = h[i] + Weight(v, s[i + 1], i + 1)
  <2>1. \A i \in Nat : i + 1 \in Nat /\ i + 1 # 0 /\ (i + 1) - 1 = i  OBVIOUS
  <2> QED  BY <1>8, <2>1
<1>10. h \in [Nat -> Int]
  <2> DEFINE Fine == {n \in Nat : h[n] \in Int}
  <2>1. 0 \in Fine  BY <1>9
  <2>2. \A n \in Nat : n \in Fine => n + 1 \in Fine
    <3> SUFFICES ASSUME NEW n \in Nat, h[n] \in Int PROVE h[n + 1] \in Int  OBVIOUS
    <3>1. Weight(v, s[n + 1], n + 1) \in Int  BY <1>1
    <3> QED  BY <1>9, <3>1
  <2> HIDE DEF Fine
  <2>3. \A n \in Nat : n \in Fine  BY <2>1, <2>2, Numbers
  <2>4. \A n \in Nat : h[n] \in Int  BY <2>3 DEF Fine
  <2>5. h = [i \in Nat |-> h[i]]  BY <1>7
  <2> QED  BY <2>4, <2>5
<1> QED  BY <1>6, <1>9, <1>10 DEF Sums

(* Vectors that agree up to position m have the same value there.          *)
Alike(v, s, w, t, m) == \A i \in 1 .. m : True(w, t[i]) <=> True(v, s[i])

LEMMA SameSums ==
  ASSUME NEW v, NEW w, NEW s, NEW t, NEW m \in Nat, NEW f, NEW g,
         Alike(v, s, w, t, m), Sums(v, s, f), Sums(w, t, g)
  PROVE  f[m] = g[m]
<1> DEFINE Same == {n \in Nat : n <= m => f[n] = g[n]}
<1>1. 0 \in Same  BY DEF Sums
<1>2. \A n \in Nat : n \in Same => n + 1 \in Same
  <2> SUFFICES ASSUME NEW n \in Nat, n + 1 <= m, n <= m => f[n] = g[n]
               PROVE  f[n + 1] = g[n + 1]
    OBVIOUS
  <2>1. n + 1 \in 1 .. m /\ n <= m  OBVIOUS
  <2>2. Weight(v, s[n + 1], n + 1) = Weight(w, t[n + 1], n + 1)  BY <2>1 DEF Weight, Alike
  <2> QED  BY <2>1, <2>2 DEF Sums
<1> HIDE DEF Same
<1>3. m \in Same  BY <1>1, <1>2, Numbers
<1> QED  BY <1>3 DEF Same

(* Assignments that agree on a vector give it the same value.              *)
LEMMA ValueSame ==
  ASSUME NEW v, NEW w, NEW s, NEW t, Len(s) \in Nat, Len(t) = Len(s),
         Alike(v, s, w, t, Len(s))
  PROVE  ValueOf(w, t) = ValueOf(v, s)
<1>1. PICK f : Sums(v, s, f) /\ ValueOf(v, s) = f[Len(s)]  BY ValueSums
<1>2. PICK g : Sums(w, t, g) /\ ValueOf(w, t) = g[Len(t)]  BY ValueSums
<1>3. f[Len(s)] = g[Len(s)]  BY <1>1, <1>2, SameSums
<1> QED  BY <1>1, <1>2, <1>3

(* The sums of a vector are the values of its lower bits.                  *)
LEMMA ValueOfFirst ==
  ASSUME NEW v, NEW s \in Clause
  PROVE  \E f : /\ Sums(v, s, f) /\ ValueOf(v, s) = f[Len(s)]
                /\ \A m \in 0 .. Len(s) : ValueOf(v, SubSeq(s, 1, m)) = f[m]
<1>1. PICK f : Sums(v, s, f) /\ ValueOf(v, s) = f[Len(s)]  BY ValueSums
<1>2. ASSUME NEW m \in 0 .. Len(s) PROVE ValueOf(v, SubSeq(s, 1, m)) = f[m]
  <2> DEFINE t == SubSeq(s, 1, m)
  <2>1. m \in Nat /\ Len(t) = m /\ \A i \in 1 .. m : t[i] = s[i]  BY DEF Clause
  <2> HIDE DEF t
  <2>2. PICK g : Sums(v, t, g) /\ ValueOf(v, t) = g[Len(t)]  BY ValueSums
  <2>3. Alike(v, s, v, t, m)  BY <2>1 DEF Alike
  <2>4. f[m] = g[m]  BY <1>1, <2>1, <2>2, <2>3, SameSums
  <2> QED  BY <2>1, <2>2, <2>4 DEF t
<1> QED  BY <1>1, <1>2

(* The value of a vector is that of its lower bits and of its top bit.     *)
LEMMA ValueTop ==
  ASSUME NEW v, NEW s \in Clause, NEW n \in Nat, Len(s) = n + 1
  PROVE  ValueOf(v, s) = ValueOf(v, SubSeq(s, 1, n)) + (IF True(v, s[n + 1]) THEN Pow[n] ELSE 0)
<1>1. PICK f : /\ Sums(v, s, f) /\ ValueOf(v, s) = f[Len(s)]
               /\ \A m \in 0 .. Len(s) : ValueOf(v, SubSeq(s, 1, m)) = f[m]
  BY ValueOfFirst
<1>2. n \in 0 .. Len(s)  OBVIOUS
<1> QED  BY <1>1, <1>2, WeightFacts DEF Sums

LEMMA ValueRange ==
  ASSUME NEW v, NEW s \in Clause
  PROVE  /\ ValueOf(v, s) \in Nat /\ ValueOf(v, s) < Pow[Len(s)]
         /\ Len(s) = 0 => ValueOf(v, s) = 0
<1>1. PICK f : Sums(v, s, f) /\ ValueOf(v, s) = f[Len(s)]  BY ValueSums
<1> DEFINE Fine == {n \in Nat : f[n] \in Nat /\ f[n] < Pow[n]}
<1>2. 0 \in Fine
  <2>1. f[0] = 0 /\ Pow[0] = 1  BY <1>1, PowFacts DEF Sums
  <2> QED  BY <2>1
<1>3. \A n \in Nat : n \in Fine => n + 1 \in Fine
  <2> SUFFICES ASSUME NEW n \in Nat, f[n] \in Nat, f[n] < Pow[n]
               PROVE  f[n + 1] \in Nat /\ f[n + 1] < Pow[n + 1]
    OBVIOUS
  <2>1. Pow[n] \in Nat /\ Pow[n + 1] = 2 * Pow[n]  BY PowFacts
  <2>2. f[n + 1] = f[n] + (IF True(v, s[n + 1]) THEN Pow[n] ELSE 0)
    BY <1>1, WeightFacts DEF Sums
  <2> QED  BY <2>1, <2>2
<1> HIDE DEF Fine
<1>4. \A n \in Nat : n \in Fine  BY <1>2, <1>3, Numbers
<1>5. Len(s) \in Nat  BY DEF Clause
<1> QED  BY <1>1, <1>4, <1>5 DEF Fine, Sums

(* The bits above position m: all of them 0, or the value is at least 2    *)
(* to the power m.                                                         *)
LEMMA ValueAbove ==
  ASSUME NEW v, NEW s \in Clause, NEW m \in 0 .. Len(s)
  PROVE  /\ (\A i \in m + 1 .. Len(s) : ~True(v, s[i])) =>
              ValueOf(v, s) = ValueOf(v, SubSeq(s, 1, m))
         /\ (\E i \in m + 1 .. Len(s) : True(v, s[i])) => ValueOf(v, s) >= Pow[m]
<1>1. PICK f : /\ Sums(v, s, f) /\ ValueOf(v, s) = f[Len(s)]
               /\ \A k \in 0 .. Len(s) : ValueOf(v, SubSeq(s, 1, k)) = f[k]
  BY ValueOfFirst
<1>2. Len(s) \in Nat /\ m \in Nat  BY DEF Clause
<1>3. f[m] >= 0
  <2>1. SubSeq(s, 1, m) \in Clause  BY DEF Clause
  <2>2. ValueOf(v, SubSeq(s, 1, m)) \in Nat  BY <2>1, ValueRange
  <2>3. ValueOf(v, SubSeq(s, 1, m)) = f[m]  BY <1>1
  <2> QED  BY <2>2, <2>3
<1> DEFINE Zero(k) == \A i \in m + 1 .. k : ~True(v, s[i])
           Fine == {n \in Nat : n <= Len(s) - m =>
                      /\ f[m + n] >= f[m]
                      /\ Zero(m + n) => f[m + n] = f[m]
                      /\ ~Zero(m + n) => f[m + n] >= f[m] + Pow[m]}
<1>4. 0 \in Fine
  <2>1. m + 0 = m /\ m + 1 .. m + 0 = {}  BY <1>2
  <2>2. f[m] \in Int  BY <1>1, <1>2 DEF Sums
  <2> QED  BY <2>1, <2>2
<1>5. \A n \in Nat : n \in Fine => n + 1 \in Fine
  <2> SUFFICES ASSUME NEW n \in Nat, n + 1 <= Len(s) - m, n \in Fine
               PROVE  /\ f[m + (n + 1)] >= f[m]
                      /\ Zero(m + (n + 1)) => f[m + (n + 1)] = f[m]
                      /\ ~Zero(m + (n + 1)) => f[m + (n + 1)] >= f[m] + Pow[m]
    OBVIOUS
  <2> DEFINE k == m + n
  <2>1. k \in Nat /\ m + (n + 1) = k + 1 /\ n <= Len(s) - m /\ k >= m  BY <1>2
  <2>2. /\ f[k] >= f[m]
        /\ Zero(k) => f[k] = f[m]
        /\ ~Zero(k) => f[k] >= f[m] + Pow[m]
    BY <2>1
  <2>3. Zero(k + 1) <=> Zero(k) /\ ~True(v, s[k + 1])
    <3>1. m + 1 .. k + 1 = (m + 1 .. k) \cup {k + 1}  BY <1>2, <2>1
    <3> QED  BY <3>1
  <2> HIDE DEF k, Fine, Zero
  <2>4. f[k + 1] = f[k] + (IF True(v, s[k + 1]) THEN Pow[k] ELSE 0)
    BY <1>1, <2>1, WeightFacts DEF Sums
  <2>5. f[k] \in Int /\ f[m] \in Int /\ Pow[k] \in Nat /\ Pow[m] \in Nat /\ Pow[k] >= Pow[m]
    BY <1>1, <1>2, <2>1, PowFacts, PowGrows DEF Sums
  <2>6. CASE True(v, s[k + 1])
    <3>1. f[k + 1] = f[k] + Pow[k]  BY <2>4, <2>6
    <3>2. f[k + 1] >= f[m] + Pow[m] /\ f[k + 1] >= f[m]  BY <2>2, <2>5, <3>1
    <3> QED  BY <2>1, <2>3, <2>6, <3>2
  <2>7. CASE ~True(v, s[k + 1])
    <3>1. f[k + 1] = f[k]  BY <2>4, <2>5, <2>7
    <3> QED  BY <2>1, <2>2, <2>3, <2>7, <3>1
  <2> QED  BY <2>6, <2>7
<1>6. Len(s) - m \in Nat /\ m + (Len(s) - m) = Len(s) /\ Len(s) - m <= Len(s) - m
  BY <1>2
<1>7. Len(s) - m \in Fine
  <2> HIDE DEF Fine
  <2> QED  BY <1>4, <1>5, <1>6, Numbers
<1>8. /\ Zero(Len(s)) => f[Len(s)] = f[m]
      /\ ~Zero(Len(s)) => f[Len(s)] >= f[m] + Pow[m]
  <2> HIDE DEF Zero
  <2> QED  BY <1>6, <1>7
<1> HIDE DEF Fine
<1>9. f[Len(s)] \in Int /\ f[m] \in Int /\ Pow[m] \in Nat  BY <1>1, <1>2, PowFacts DEF Sums
<1>10. ~Zero(Len(s)) => f[Len(s)] >= Pow[m]
  <2> HIDE DEF Zero
  <2> QED  BY <1>3, <1>8, <1>9
<1> QED  BY <1>1, <1>8, <1>10

-----------------------------------------------------------------------------
(* Two vectors bit by bit.  SameAbove: they agree at the positions above j *)
(* up to m; LessBit: and s has a 0 at j where t has a 1.                   *)
SameAbove(v, s, t, j, m) == \A k \in j + 1 .. m : True(v, s[k]) <=> True(v, t[k])
LessBit(v, s, t, j, m) == ~True(v, s[j]) /\ True(v, t[j]) /\ SameAbove(v, s, t, j, m)

LEMMA BitsCompare ==
  ASSUME NEW v, NEW s \in Clause, NEW t \in Clause, NEW m \in 0 .. Len(s), m <= Len(t)
  PROVE  LET p == ValueOf(v, SubSeq(s, 1, m))
             q == ValueOf(v, SubSeq(t, 1, m))
         IN  /\ p = q <=> SameAbove(v, s, t, 0, m)
             /\ p < q <=> \E j \in 1 .. m : LessBit(v, s, t, j, m)
<1>1. PICK f : /\ Sums(v, s, f) /\ ValueOf(v, s) = f[Len(s)]
               /\ \A k \in 0 .. Len(s) : ValueOf(v, SubSeq(s, 1, k)) = f[k]
  BY ValueOfFirst
<1>2. PICK g : /\ Sums(v, t, g) /\ ValueOf(v, t) = g[Len(t)]
               /\ \A k \in 0 .. Len(t) : ValueOf(v, SubSeq(t, 1, k)) = g[k]
  BY ValueOfFirst
<1>3. Len(s) \in Nat /\ Len(t) \in Nat /\ m \in Nat /\ m \in 0 .. Len(t)  BY DEF Clause
<1> DEFINE Fine == {n \in Nat : n <= m =>
                      /\ f[n] = g[n] <=> SameAbove(v, s, t, 0, n)
                      /\ f[n] < g[n] <=> \E j \in 1 .. n : LessBit(v, s, t, j, n)}
<1>4. 0 \in Fine
  <2>1. f[0] = 0 /\ g[0] = 0  BY <1>1, <1>2 DEF Sums
  <2>2. 1 .. 0 = {}  OBVIOUS
  <2> QED  BY <2>1, <2>2 DEF SameAbove
<1>5. ASSUME NEW n \in Nat, n \in Fine PROVE n + 1 \in Fine
  <2> SUFFICES ASSUME n + 1 <= m
               PROVE  /\ f[n + 1] = g[n + 1] <=> SameAbove(v, s, t, 0, n + 1)
                      /\ f[n + 1] < g[n + 1] <=> \E j \in 1 .. n + 1 : LessBit(v, s, t, j, n + 1)
    OBVIOUS
  <2>1. n <= m /\ n \in 0 .. Len(s) /\ n \in 0 .. Len(t)  BY <1>3
  <2>2. /\ f[n] = g[n] <=> SameAbove(v, s, t, 0, n)
        /\ f[n] < g[n] <=> \E j \in 1 .. n : LessBit(v, s, t, j, n)
    BY <1>5, <2>1
  <2> HIDE DEF Fine
  <2> DEFINE p == True(v, s[n + 1])
             q == True(v, t[n + 1])
  <2>3. /\ f[n + 1] = f[n] + (IF p THEN Pow[n] ELSE 0)
        /\ g[n + 1] = g[n] + (IF q THEN Pow[n] ELSE 0)
    <3>1. /\ f[n + 1] = f[n] + Weight(v, s[n + 1], n + 1)
          /\ g[n + 1] = g[n] + Weight(v, t[n + 1], n + 1)
      BY <1>1, <1>2 DEF Sums
    <3>2. /\ Weight(v, s[n + 1], n + 1) = IF p THEN Pow[n] ELSE 0
          /\ Weight(v, t[n + 1], n + 1) = IF q THEN Pow[n] ELSE 0
      BY WeightFacts
    <3> HIDE DEF p, q
    <3> QED  BY <3>1, <3>2
  <2>4. Pow[n] \in Nat /\ f[n] \in Nat /\ g[n] \in Nat /\ f[n] < Pow[n] /\ g[n] < Pow[n]
    <3>1. /\ SubSeq(s, 1, n) \in Clause /\ SubSeq(t, 1, n) \in Clause
          /\ Len(SubSeq(s, 1, n)) = n /\ Len(SubSeq(t, 1, n)) = n
      BY <2>1 DEF Clause
    <3>2. /\ ValueOf(v, SubSeq(s, 1, n)) \in Nat /\ ValueOf(v, SubSeq(s, 1, n)) < Pow[n]
          /\ ValueOf(v, SubSeq(t, 1, n)) \in Nat /\ ValueOf(v, SubSeq(t, 1, n)) < Pow[n]
      BY <3>1, ValueRange
    <3>3. ValueOf(v, SubSeq(s, 1, n)) = f[n] /\ ValueOf(v, SubSeq(t, 1, n)) = g[n]
      BY <1>1, <1>2, <2>1
    <3> QED  BY <3>2, <3>3, PowFacts
  <2>5. SameAbove(v, s, t, 0, n + 1) <=> SameAbove(v, s, t, 0, n) /\ (p <=> q)
    <3>1. 0 + 1 .. n + 1 = (0 + 1 .. n) \cup {n + 1}  OBVIOUS
    <3> QED  BY <3>1 DEF SameAbove
  <2>6. (\E j \in 1 .. n + 1 : LessBit(v, s, t, j, n + 1)) <=>
          \/ ~p /\ q
          \/ (p <=> q) /\ \E j \in 1 .. n : LessBit(v, s, t, j, n)
    <3>1. LessBit(v, s, t, n + 1, n + 1) <=> ~p /\ q
      <4>1. (n + 1) + 1 .. n + 1 = {}  OBVIOUS
      <4> QED  BY <4>1 DEF LessBit, SameAbove
    <3>2. \A j \in 1 .. n : LessBit(v, s, t, j, n + 1) <=> LessBit(v, s, t, j, n) /\ (p <=> q)
      <4> TAKE j \in 1 .. n
      <4>1. j + 1 .. n + 1 = (j + 1 .. n) \cup {n + 1}  OBVIOUS
      <4> QED  BY <4>1 DEF LessBit, SameAbove
    <3>3. 1 .. n + 1 = (1 .. n) \cup {n + 1}  OBVIOUS
    <3> HIDE DEF p, q
    <3> QED  BY <3>1, <3>2, <3>3
  <2> HIDE DEF p, q
  <2>7. f[n + 1] = g[n + 1] <=> f[n] = g[n] /\ (p <=> q)
    <3>1. CASE p  BY <2>3, <2>4, <3>1
    <3>2. CASE ~p  BY <2>3, <2>4, <3>2
    <3> QED  BY <3>1, <3>2
  <2>8. f[n + 1] < g[n + 1] <=> (~p /\ q) \/ ((p <=> q) /\ f[n] < g[n])
    <3>1. CASE p  BY <2>3, <2>4, <3>1
    <3>2. CASE ~p  BY <2>3, <2>4, <3>2
    <3> QED  BY <3>1, <3>2
  <2> QED  BY <2>2, <2>5, <2>6, <2>7, <2>8
<1> HIDE DEF Fine
<1>6. m \in Fine  BY <1>3, <1>4, <1>5, Numbers
<1>7. f[m] = ValueOf(v, SubSeq(s, 1, m)) /\ g[m] = ValueOf(v, SubSeq(t, 1, m))
  BY <1>1, <1>2, <1>3
<1> QED  BY <1>6, <1>7 DEF Fine

(* The bits that only the longer vector has.                               *)
Zero(v, s) == \A i \in DOMAIN s : ~True(v, s[i])

LEMMA CommonBits ==
  ASSUME NEW L, NEW a \in Seq(L), NEW b \in Seq(L)
  PROVE  LET c == Common(a, b)
             e == Extra(a, b)
         IN  /\ c \in Nat /\ c \in 0 .. Len(a) /\ c \in 0 .. Len(b)
             /\ \A i \in 1 .. c : a[i] \in L /\ b[i] \in L
             /\ e \in Seq(L)
             /\ Len(a) = Len(b) => c = Len(a) /\ e = <<>>
             /\ Len(a) < Len(b) => /\ c = Len(a) /\ Len(e) = Len(b) - c
                                   /\ \A i \in 1 .. Len(e) : e[i] = b[c + i]
             /\ Len(b) < Len(a) => /\ c = Len(b) /\ Len(e) = Len(a) - c
                                   /\ \A i \in 1 .. Len(e) : e[i] = a[c + i]
<1>1. Len(a) \in Nat /\ Len(b) \in Nat  OBVIOUS
<1>2. CASE Len(a) = Len(b)
  <2>1. Common(a, b) = Len(a) /\ Extra(a, b) = SubSeq(b, Len(a) + 1, Len(a))
    BY <1>1, <1>2 DEF Common, Extra, Smaller, Larger
  <2>2. Extra(a, b) = <<>>  BY <1>1, <1>2, <2>1
  <2> QED  BY <1>1, <1>2, <2>1, <2>2
<1>3. CASE Len(a) < Len(b)
  <2>1. Common(a, b) = Len(a) /\ Extra(a, b) = SubSeq(b, Len(a) + 1, Len(b))
    BY <1>1, <1>3 DEF Common, Extra, Smaller, Larger
  <2> DEFINE e == SubSeq(b, Len(a) + 1, Len(b))
  <2>2. e \in Seq(L) /\ Len(e) = Len(b) - Len(a)  BY <1>1, <1>3
  <2>3. \A i \in 1 .. Len(e) : e[i] = b[Len(a) + i]  BY <1>1, <1>3
  <2> HIDE DEF e
  <2> QED  BY <1>1, <1>3, <2>1, <2>2, <2>3 DEF e
<1>4. CASE Len(b) < Len(a)
  <2>1. Common(a, b) = Len(b) /\ Extra(a, b) = SubSeq(a, Len(b) + 1, Len(a))
    <3>1. Len(a) > Len(b) /\ ~(Len(a) < Len(b))  BY <1>1, <1>4
    <3>2. Common(a, b) = Len(b) /\ Larger(Len(a), Len(b)) = Len(a)
      BY <3>1 DEF Common, Smaller, Larger
    <3> QED  BY <3>1, <3>2 DEF Extra
  <2> DEFINE e == SubSeq(a, Len(b) + 1, Len(a))
  <2>2. e \in Seq(L) /\ Len(e) = Len(a) - Len(b)  BY <1>1, <1>4
  <2>3. \A i \in 1 .. Len(e) : e[i] = a[Len(b) + i]  BY <1>1, <1>4
  <2> HIDE DEF e
  <2> QED  BY <1>1, <1>4, <2>1, <2>2, <2>3 DEF e
<1> QED  BY <1>1, <1>2, <1>3, <1>4

(* Two vectors of any lengths.                                             *)
LEMMA VectorsCompare ==
  ASSUME NEW v, NEW a \in Clause, NEW b \in Clause
  PROVE  LET c == Common(a, b)
             e == Extra(a, b)
         IN  /\ ValueOf(v, a) = ValueOf(v, b) <=> Zero(v, e) /\ SameAbove(v, a, b, 0, c)
             /\ ValueOf(v, a) < ValueOf(v, b) <=>
                  \/ Len(a) < Len(b) /\ ~Zero(v, e)
                  \/ Zero(v, e) /\ \E j \in 1 .. c : LessBit(v, a, b, j, c)
<1> DEFINE c == Common(a, b)
           e == Extra(a, b)
           p == ValueOf(v, SubSeq(a, 1, c))
           q == ValueOf(v, SubSeq(b, 1, c))
<1>1. /\ c \in Nat /\ c \in 0 .. Len(a) /\ c \in 0 .. Len(b)
      /\ e \in Clause /\ Len(e) \in Nat /\ DOMAIN e = 1 .. Len(e)
      /\ Len(a) = Len(b) => c = Len(a) /\ e = <<>>
      /\ Len(a) < Len(b) => /\ c = Len(a) /\ Len(e) = Len(b) - c
                            /\ \A i \in 1 .. Len(e) : e[i] = b[c + i]
      /\ Len(b) < Len(a) => /\ c = Len(b) /\ Len(e) = Len(a) - c
                            /\ \A i \in 1 .. Len(e) : e[i] = a[c + i]
  BY CommonBits DEF Clause
<1> HIDE DEF c, e
<1>2. /\ p = q <=> SameAbove(v, a, b, 0, c)
      /\ p < q <=> \E j \in 1 .. c : LessBit(v, a, b, j, c)
  <2>1. c <= Len(b)  BY <1>1
  <2> QED  BY <1>1, <2>1, BitsCompare
<1>3. p \in Nat /\ q \in Nat /\ p < Pow[c] /\ q < Pow[c] /\ Pow[c] \in Nat
  <2>1. /\ SubSeq(a, 1, c) \in Clause /\ SubSeq(b, 1, c) \in Clause
        /\ Len(SubSeq(a, 1, c)) = c /\ Len(SubSeq(b, 1, c)) = c
    BY <1>1 DEF Clause
  <2> QED  BY <1>1, <2>1, ValueRange, PowFacts
<1>4. ValueOf(v, a) \in Nat /\ ValueOf(v, b) \in Nat  BY ValueRange
<1>5. Len(a) \in Nat /\ Len(b) \in Nat  BY DEF Clause
<1>6. ASSUME NEW s \in Clause, c < Len(s), Len(e) = Len(s) - c,
             \A i \in 1 .. Len(e) : e[i] = s[c + i]
      PROVE  /\ Zero(v, e) => ValueOf(v, s) = ValueOf(v, SubSeq(s, 1, c))
             /\ ~Zero(v, e) => ValueOf(v, s) >= Pow[c]
  <2>1. Len(s) \in Nat /\ c \in 0 .. Len(s)  BY <1>1, <1>6 DEF Clause
  <2>2. Zero(v, e) <=> \A i \in c + 1 .. Len(s) : ~True(v, s[i])
    <3>1. \A i \in 1 .. Len(e) : c + i \in c + 1 .. Len(s)  BY <1>1, <1>6, <2>1
    <3>2. \A i \in c + 1 .. Len(s) : i - c \in 1 .. Len(e) /\ c + (i - c) = i  BY <1>1, <1>6, <2>1
    <3>3. \A i \in c + 1 .. Len(s) : e[i - c] = s[i]  BY <1>6, <3>2
    <3> QED  BY <1>1, <1>6, <3>1, <3>2, <3>3 DEF Zero
  <2> QED  BY <2>1, <2>2, ValueAbove
<1>7. ASSUME NEW s \in Clause, c = Len(s) PROVE ValueOf(v, SubSeq(s, 1, c)) = ValueOf(v, s)
  <2>1. SubSeq(s, 1, Len(s)) = s  BY DEF Clause
  <2> QED  BY <1>7, <2>1
<1> HIDE DEF p, q
<1>8. CASE Len(a) = Len(b)
  <2>1. e = <<>> /\ p = ValueOf(v, a) /\ q = ValueOf(v, b)  BY <1>1, <1>7, <1>8 DEF p, q
  <2>2. Zero(v, e)  BY <2>1 DEF Zero
  <2> QED  BY <1>2, <1>8, <1>5, <2>1, <2>2 DEF c, e
<1>9. CASE Len(a) < Len(b)
  <2>1. /\ p = ValueOf(v, a)
        /\ Zero(v, e) => ValueOf(v, b) = q
        /\ ~Zero(v, e) => ValueOf(v, b) >= Pow[c]
    BY <1>1, <1>6, <1>7, <1>9 DEF p, q
  <2>2. ~Zero(v, e) => ValueOf(v, a) < ValueOf(v, b)  BY <1>3, <1>4, <2>1
  <2>3. ~Zero(v, e) => ValueOf(v, a) # ValueOf(v, b)  BY <1>3, <1>4, <2>1
  <2> QED  BY <1>2, <1>5, <1>9, <2>1, <2>2, <2>3 DEF c, e
<1>10. CASE Len(b) < Len(a)
  <2>1. /\ q = ValueOf(v, b)
        /\ Zero(v, e) => ValueOf(v, a) = p
        /\ ~Zero(v, e) => ValueOf(v, a) >= Pow[c]
    BY <1>1, <1>6, <1>7, <1>10 DEF p, q
  <2>2. ~Zero(v, e) => ~(ValueOf(v, a) < ValueOf(v, b))  BY <1>3, <1>4, <2>1
  <2>3. ~Zero(v, e) => ValueOf(v, a) # ValueOf(v, b)  BY <1>3, <1>4, <2>1
  <2>4. ~(Len(a) < Len(b))  BY <1>5, <1>10
  <2> QED  BY <1>2, <2>1, <2>2, <2>3, <2>4 DEF c, e
<1> QED  BY <1>5, <1>8, <1>9, <1>10

-----------------------------------------------------------------------------
(* Clauses that compare bits.                                              *)

LEMMA AndGateIff ==
  ASSUME NEW v \in Total, NEW o \in Literal, NEW s \in Clause
  PROVE  AllSatisfied(v, AndGate(o, s)) <=> (True(v, o) <=> \A i \in 1 .. Len(s) : True(v, s[i]))
  BY AndGateMeans, AndGateHolds, CountIsAll

LEMMA XorGate2Iff ==
  ASSUME NEW v \in Total, NEW o \in Literal, NEW a \in Literal, NEW b \in Literal
  PROVE  AllSatisfied(v, XorGate2(o, a, b)) <=> (True(v, o) <=> (True(v, a) <=> ~True(v, b)))
  BY XorGate2Means, XorGate2Holds

LEMMA TwoTrue ==
  ASSUME NEW v \in Total, NEW o \in Literal, NEW a \in Literal, NEW b \in Literal
  PROVE  AllSatisfied(v, AndGate(o, <<a, b>>)) <=> (True(v, o) <=> True(v, a) /\ True(v, b))
<1> DEFINE s == <<a, b>>
<1>1. s \in Clause /\ Len(s) = 2 /\ s[1] = a /\ s[2] = b  BY DEF Clause
<1> HIDE DEF s
<1>2. (\A i \in 1 .. Len(s) : True(v, s[i])) <=> True(v, s[1]) /\ True(v, s[2])
  <2>1. 1 .. 2 = {1, 2}  OBVIOUS
  <2> QED  BY <1>1, <2>1
<1> QED  BY <1>1, <1>2, AndGateIff DEF s

LEMMA CompareHere ==
  ASSUME NEW v \in Total, NEW l \in Literal, NEW f \in Literal, NEW a \in Literal, NEW b \in Literal
  PROVE  /\ AllSatisfied(v, EqualHere(l, f, a, b)) <=>
              (True(v, l) <=> True(v, f) /\ (True(v, a) <=> True(v, b)))
         /\ AllSatisfied(v, LessHere(l, f, a, b)) <=>
              (True(v, l) <=> True(v, f) /\ ~True(v, a) /\ True(v, b))
         /\ AllSatisfied(v, AtMostHere(l, f, a, b)) <=>
              (True(v, l) <=> True(v, f) /\ (True(v, a) => True(v, b)))
<1>1. /\ True(v, -l) <=> ~True(v, l)
      /\ True(v, -f) <=> ~True(v, f)
      /\ True(v, -a) <=> ~True(v, a)
      /\ True(v, -b) <=> ~True(v, b)
      /\ -a \in Literal
  BY TrueNegation
<1>2. AllSatisfied(v, EqualHere(l, f, a, b)) <=>
        /\ Satisfied(v, <<-l, f>>) /\ Satisfied(v, <<-l, -a, b>>) /\ Satisfied(v, <<-l, a, -b>>)
        /\ Satisfied(v, <<l, -f, -a, -b>>) /\ Satisfied(v, <<l, -f, a, b>>)
  BY DEF AllSatisfied, EqualHere
<1>3. \A p, q, r, s : Satisfied(v, <<p, q, r, s>>) <=>
                        True(v, p) \/ True(v, q) \/ True(v, r) \/ True(v, s)
  BY SatisfiedFour, FourSatisfy
<1>4. AllSatisfied(v, EqualHere(l, f, a, b)) <=>
        (True(v, l) <=> True(v, f) /\ (True(v, a) <=> True(v, b)))
  BY <1>1, <1>2, <1>3, SatisfiedShort
<1>5. AllSatisfied(v, AtMostHere(l, f, a, b)) <=>
        /\ Satisfied(v, <<-l, f>>) /\ Satisfied(v, <<-l, -a, b>>)
        /\ Satisfied(v, <<l, -f, a>>) /\ Satisfied(v, <<l, -f, -b>>)
  BY DEF AllSatisfied, AtMostHere
<1>6. AllSatisfied(v, AtMostHere(l, f, a, b)) <=>
        (True(v, l) <=> True(v, f) /\ (True(v, a) => True(v, b)))
  BY <1>1, <1>5, SatisfiedShort
<1>7. AllSatisfied(v, LessHere(l, f, a, b)) <=>
        (True(v, l) <=> True(v, f) /\ ~True(v, a) /\ True(v, b))
  <2> DEFINE s == <<f, -a, b>>
  <2>1. s \in Clause /\ Len(s) = 3 /\ s[1] = f /\ s[2] = -a /\ s[3] = b  BY <1>1 DEF Clause
  <2> HIDE DEF s
  <2>2. (\A i \in 1 .. Len(s) : True(v, s[i])) <=> True(v, s[1]) /\ True(v, s[2]) /\ True(v, s[3])
    <3>1. 1 .. 3 = {1, 2, 3}  OBVIOUS
    <3> QED  BY <2>1, <3>1
  <2>3. AllSatisfied(v, AndGate(l, s)) <=> (True(v, l) <=> \A i \in 1 .. Len(s) : True(v, s[i]))
    BY <2>1, AndGateIff
  <2> QED  BY <1>1, <2>1, <2>2, <2>3 DEF s, LessHere
<1> QED  BY <1>4, <1>6, <1>7

LEMMA AllOf ==
  ASSUME NEW v, NEW S, NEW T
  PROVE  AllSatisfied(v, S \cup T) <=> AllSatisfied(v, S) /\ AllSatisfied(v, T)
  BY DEF AllSatisfied

LEMMA NoneTrue ==
  ASSUME NEW v \in Total, NEW s \in Clause
  PROVE  /\ Negated(s) \in Clause
         /\ (\A i \in 1 .. Len(Negated(s)) : True(v, Negated(s)[i])) <=> Zero(v, s)
         /\ AllSatisfied(v, {<<-s[i]>> : i \in DOMAIN s}) <=> Zero(v, s)
         /\ Satisfied(v, s) <=> ~Zero(v, s)
<1>1. DOMAIN s = 1 .. Len(s) /\ Len(s) \in Nat /\ \A i \in 1 .. Len(s) : s[i] \in Literal
  BY DEF Clause
<1>2. \A i \in 1 .. Len(s) : True(v, -s[i]) <=> ~True(v, s[i])  BY <1>1, TrueNegation
<1>3. Negated(s) \in Clause /\ Len(Negated(s)) = Len(s)  BY SatisfiedNegated
<1>4. \A i \in 1 .. Len(s) : Negated(s)[i] = -s[i]  BY <1>1 DEF Negated
<1>5. \A l : Satisfied(v, <<l>>) <=> True(v, l)  BY SatisfiedShort
<1>6. (\A i \in 1 .. Len(Negated(s)) : True(v, Negated(s)[i])) <=> Zero(v, s)
  BY <1>1, <1>2, <1>3, <1>4 DEF Zero
<1>7. AllSatisfied(v, {<<-s[i]>> : i \in DOMAIN s}) <=> Zero(v, s)
  <2>1. AllSatisfied(v, {<<-s[i]>> : i \in DOMAIN s}) <=>
          \A i \in DOMAIN s : Satisfied(v, <<-s[i]>>)
    BY DEF AllSatisfied
  <2> QED  BY <1>1, <1>2, <1>5, <2>1 DEF Zero
<1>8. Satisfied(v, s) <=> ~Zero(v, s)  BY DEF Zero, Satisfied
<1> QED  BY <1>3, <1>6, <1>7, <1>8

LEMMA EqualBitsMean ==
  ASSUME NEW v \in Total, NEW a \in Clause, NEW b \in Clause
  PROVE  AllSatisfied(v, EqualBits(a, b)) <=> ValueOf(v, a) = ValueOf(v, b)
<1> DEFINE c == Common(a, b)
           e == Extra(a, b)
           S == {<<-e[i]>> : i \in DOMAIN e}
           T == UNION {BuffGate(a[i], b[i]) : i \in 1 .. c}
<1>1. e \in Clause /\ \A i \in 1 .. c : a[i] \in Literal /\ b[i] \in Literal
  BY CommonBits DEF Clause
<1>2. ValueOf(v, a) = ValueOf(v, b) <=> Zero(v, e) /\ SameAbove(v, a, b, 0, c)
  BY VectorsCompare
<1>3. AllSatisfied(v, EqualBits(a, b)) <=> AllSatisfied(v, S) /\ AllSatisfied(v, T)
  <2>1. EqualBits(a, b) = S \cup T  BY DEF EqualBits
  <2> QED  BY <2>1, AllOf
<1> HIDE DEF c, e
<1>4. AllSatisfied(v, S) <=> Zero(v, e)  BY <1>1, NoneTrue
<1>5. AllSatisfied(v, T) <=> SameAbove(v, a, b, 0, c)
  <2>1. AllSatisfied(v, T) <=> \A i \in 1 .. c : AllSatisfied(v, BuffGate(a[i], b[i]))
    BY DEF AllSatisfied
  <2>2. \A i \in 1 .. c : AllSatisfied(v, BuffGate(a[i], b[i])) <=> (True(v, a[i]) <=> True(v, b[i]))
    BY <1>1, BuffGateMeans, BuffGateHolds
  <2>3. 0 + 1 = 1  OBVIOUS
  <2> QED  BY <2>1, <2>2, <2>3 DEF SameAbove
<1> HIDE DEF S, T
<1> QED  BY <1>2, <1>3, <1>4, <1>5

(* The values the variables made have.                                     *)
Differ(v, a, b, x) ==
  \A i \in 1 .. Common(a, b) : True(v, x + i) <=> ~(True(v, a[i]) <=> True(v, b[i]))

LEMMA DifferentBitsMean ==
  ASSUME NEW v \in Total, NEW a \in Clause, NEW b \in Clause, NEW x \in Nat
  PROVE  AllSatisfied(v, DifferentBits(a, b, x)) <=>
           Differ(v, a, b, x) /\ ValueOf(v, a) # ValueOf(v, b)
<1> DEFINE c == Common(a, b)
           e == Extra(a, b)
           s == LitsFrom(x, c)
           S == UNION {XorGate2(x + i, a[i], b[i]) : i \in 1 .. c}
<1>1. e \in Clause /\ c \in Nat /\ \A i \in 1 .. c : a[i] \in Literal /\ b[i] \in Literal
  BY CommonBits DEF Clause
<1>2. ValueOf(v, a) = ValueOf(v, b) <=> Zero(v, e) /\ SameAbove(v, a, b, 0, c)
  BY VectorsCompare
<1>3. AllSatisfied(v, DifferentBits(a, b, x)) <=> AllSatisfied(v, S) /\ Satisfied(v, e \o s)
  <2> DEFINE T == {e \o s}
  <2>1. DifferentBits(a, b, x) = S \cup T  BY DEF DifferentBits
  <2>2. AllSatisfied(v, T) <=> Satisfied(v, e \o s)  BY DEF AllSatisfied
  <2> HIDE DEF S, T
  <2> QED  BY <2>1, <2>2, AllOf
<1> HIDE DEF c, e
<1>4. \A i \in 1 .. c : x + i \in Literal  BY DEF Literal
<1>5. AllSatisfied(v, S) <=> Differ(v, a, b, x)
  <2>1. AllSatisfied(v, S) <=> \A i \in 1 .. c : AllSatisfied(v, XorGate2(x + i, a[i], b[i]))
    BY DEF AllSatisfied
  <2>2. \A i \in 1 .. c : AllSatisfied(v, XorGate2(x + i, a[i], b[i])) <=>
                            (True(v, x + i) <=> (True(v, a[i]) <=> ~True(v, b[i])))
    BY <1>1, <1>4, XorGate2Iff
  <2> QED  BY <2>1, <2>2 DEF Differ, c
<1> HIDE DEF S
<1>6. /\ s \in Clause /\ Len(s) = c /\ DOMAIN s = 1 .. c
      /\ \A i \in 1 .. c : s[i] = x + i
  BY <1>1, <1>4 DEF LitsFrom, Clause
<1>7. Differ(v, a, b, x) => (Satisfied(v, s) <=> ~SameAbove(v, a, b, 0, c))
  <2>1. 0 + 1 = 1  OBVIOUS
  <2> QED  BY <1>6, <2>1 DEF Differ, Satisfied, SameAbove, c
<1> HIDE DEF s
<1>8. Satisfied(v, e \o s) <=> ~Zero(v, e) \/ Satisfied(v, s)
  BY <1>1, <1>6, SatisfiedConcat, NoneTrue
<1> QED  BY <1>2, <1>3, <1>5, <1>7, <1>8

-----------------------------------------------------------------------------
(* Comparing from the high bits down.                                      *)

(* All bits above j are equal, and: a is less than b at bit j, or, at the  *)
(* last bit of add_le(), not greater.                                      *)
Open(v, a, b, j) == Zero(v, Extra(a, b)) /\ SameAbove(v, a, b, j, Common(a, b))
IsLess(strict, v, a, b, j) ==
  /\ Open(v, a, b, j)
  /\ IF strict \/ j > 1 THEN ~True(v, a[j]) /\ True(v, b[j]) ELSE True(v, a[j]) => True(v, b[j])

(* The variables made have the values their names say.                     *)
TopMarked(v, a, b, x) ==
  /\ True(v, x + 1) <=> Open(v, a, b, OneByOne(a, b))
  /\ Len(a) = Len(b) => (True(v, x + 2) <=> IsLess(TRUE, v, a, b, Common(a, b)))
BitMarked(strict, v, a, b, f, y, n, j) ==
  /\ strict \/ j > 1 => (True(v, EqualAbove(f, y, n, j - 1)) <=> Open(v, a, b, j - 1))
  /\ True(v, LessAt(strict, y, n, j)) <=> IsLess(strict, v, a, b, j)

LEMMA OpenBelow ==
  ASSUME NEW v, NEW a \in Clause, NEW b \in Clause, NEW j \in 1 .. Common(a, b)
  PROVE  Open(v, a, b, j - 1) <=> Open(v, a, b, j) /\ (True(v, a[j]) <=> True(v, b[j]))
<1>1. Common(a, b) \in Nat  BY CommonBits DEF Clause
<1>2. (j - 1) + 1 .. Common(a, b) = {j} \cup (j + 1 .. Common(a, b))  BY <1>1
<1> QED  BY <1>2 DEF Open, SameAbove

(* What there is to compare when not both vectors are of one bit.          *)
LEMMA Ladder ==
  ASSUME NEW a \in Clause, NEW b \in Clause, Len(a) >= 1, Len(b) >= 1,
         ~(Len(a) = 1 /\ Len(b) = 1)
  PROVE  LET c == Common(a, b)
             n == OneByOne(a, b)
         IN  /\ c \in Nat /\ c >= 1 /\ n \in Nat /\ n >= 1 /\ n <= c
             /\ Len(a) = Len(b) => n = c - 1 /\ TopVars(a, b) = 2
             /\ Len(a) # Len(b) => n = c /\ TopVars(a, b) = 1
             /\ TopVars(a, b) \in 1 .. 2
             /\ \A i \in 1 .. c : a[i] \in Literal /\ b[i] \in Literal
             /\ Extra(a, b) \in Clause
<1>1. Len(a) \in Nat /\ Len(b) \in Nat  BY DEF Clause
<1>2. /\ Common(a, b) \in Nat
      /\ \A i \in 1 .. Common(a, b) : a[i] \in Literal /\ b[i] \in Literal
      /\ Extra(a, b) \in Clause
      /\ Len(a) = Len(b) => Common(a, b) = Len(a)
      /\ Len(a) < Len(b) => Common(a, b) = Len(a)
      /\ Len(b) < Len(a) => Common(a, b) = Len(b)
  BY CommonBits DEF Clause
<1>3. CASE Len(a) = Len(b)
  <2>1. OneByOne(a, b) = Common(a, b) - 1 /\ TopVars(a, b) = 2
    BY <1>3 DEF OneByOne, TopVars
  <2>2. Common(a, b) = Len(a) /\ Len(a) >= 2  BY <1>1, <1>2, <1>3
  <2> QED  BY <1>1, <1>2, <1>3, <2>1, <2>2
<1>4. CASE Len(a) # Len(b)
  <2>1. OneByOne(a, b) = Common(a, b) /\ TopVars(a, b) = 1
    BY <1>4 DEF OneByOne, TopVars
  <2>2. Common(a, b) >= 1  BY <1>1, <1>2, <1>4
  <2> QED  BY <1>1, <1>2, <1>4, <2>1, <2>2
<1> QED  BY <1>3, <1>4

LEMMA TopMeans ==
  ASSUME NEW v \in Total, NEW a \in Clause, NEW b \in Clause, Len(a) >= 1, Len(b) >= 1,
         ~(Len(a) = 1 /\ Len(b) = 1), NEW x \in Nat
  PROVE  AllSatisfied(v, CompareTop(a, b, x)) <=> TopMarked(v, a, b, x)
<1> DEFINE c == Common(a, b)
           n == OneByOne(a, b)
           e == Extra(a, b)
<1>1. /\ c \in Nat /\ c >= 1 /\ n \in Nat
      /\ Len(a) = Len(b) => n = c - 1
      /\ Len(a) # Len(b) => n = c
      /\ \A i \in 1 .. c : a[i] \in Literal /\ b[i] \in Literal
      /\ e \in Clause
  BY Ladder
<1>2. x + 1 \in Literal /\ x + 2 \in Literal /\ -(x + 1) \in Literal  BY DEF Literal
<1>3. True(v, -(x + 1)) <=> ~True(v, x + 1)  BY <1>2, TrueNegation
<1> HIDE DEF c, n, e
<1>4. c \in 1 .. c /\ a[c] \in Literal /\ b[c] \in Literal /\ -a[c] \in Literal
  <2>1. c \in 1 .. c  BY <1>1
  <2>2. a[c] \in Literal /\ b[c] \in Literal  BY <1>1, <2>1
  <2> QED  BY <2>1, <2>2, TrueNegation
<1>5. Open(v, a, b, c) <=> Zero(v, e)
  <2>1. c + 1 .. c = {}  BY <1>1
  <2> QED  BY <2>1 DEF Open, SameAbove, c, e
<1>6. CASE Len(a) = Len(b)
  <2>1. e = <<>>  BY <1>6, CommonBits DEF Clause, e
  <2>2. Zero(v, e)  BY <2>1 DEF Zero
  <2>3. Open(v, a, b, n) <=> (True(v, a[c]) <=> True(v, b[c]))
    <3>1. Open(v, a, b, c - 1) <=> Open(v, a, b, c) /\ (True(v, a[c]) <=> True(v, b[c]))
      BY <1>4, OpenBelow DEF c
    <3> QED  BY <1>1, <1>5, <1>6, <2>2, <3>1
  <2>4. IsLess(TRUE, v, a, b, c) <=> ~True(v, a[c]) /\ True(v, b[c])
    BY <1>5, <2>2 DEF IsLess
  <2> DEFINE S == XorGate2(-(x + 1), a[c], b[c])
             T == AndGate(x + 2, <<-a[c], b[c]>>)
  <2>5. AllSatisfied(v, S) <=> (True(v, -(x + 1)) <=> (True(v, a[c]) <=> ~True(v, b[c])))
    BY <1>2, <1>4, XorGate2Iff
  <2>6. AllSatisfied(v, T) <=> (True(v, x + 2) <=> True(v, -a[c]) /\ True(v, b[c]))
    BY <1>2, <1>4, TwoTrue
  <2>7. True(v, -a[c]) <=> ~True(v, a[c])  BY <1>4, TrueNegation
  <2>8. CompareTop(a, b, x) = S \cup T  BY <1>6 DEF CompareTop, c
  <2> HIDE DEF S, T
  <2>9. AllSatisfied(v, CompareTop(a, b, x)) <=> AllSatisfied(v, S) /\ AllSatisfied(v, T)
    BY <2>8, AllOf
  <2> QED  BY <1>3, <1>6, <2>3, <2>4, <2>5, <2>6, <2>7, <2>9 DEF TopMarked, c, n
<1>7. CASE Len(a) # Len(b)
  <2>1. Open(v, a, b, n) <=> Zero(v, e)  BY <1>1, <1>5, <1>7
  <2>2. CompareTop(a, b, x) = AndGate(x + 1, Negated(e))  BY <1>7 DEF CompareTop, e
  <2>3. AllSatisfied(v, AndGate(x + 1, Negated(e))) <=>
          (True(v, x + 1) <=> \A i \in 1 .. Len(Negated(e)) : True(v, Negated(e)[i]))
    BY <1>1, <1>2, NoneTrue, AndGateIff
  <2>4. AllSatisfied(v, CompareTop(a, b, x)) <=> (True(v, x + 1) <=> Zero(v, e))
    BY <1>1, <2>2, <2>3, NoneTrue
  <2> QED  BY <1>7, <2>1, <2>4 DEF TopMarked, n
<1> QED  BY <1>6, <1>7

(* The literals of the variables made for the bits.                        *)
LEMMA BitLits ==
  ASSUME NEW n \in Nat, NEW y \in Nat, NEW f \in Literal, NEW strict \in BOOLEAN
  PROVE  /\ \A j \in 0 .. n : EqualAbove(f, y, n, j) \in Literal
         /\ \A j \in 1 .. n : LessAt(strict, y, n, j) \in Literal
         /\ EqualAbove(f, y, n, n) = f
         /\ \A j \in 0 .. n - 1 : EqualAbove(f, y, n, j) = y + 2 * (n - j) - 1
         /\ \A j \in 1 .. n :
              LessAt(strict, y, n, j) = y + 2 * (n - j) + (IF strict \/ j > 1 THEN 2 ELSE 1)
<1>1. EqualAbove(f, y, n, n) = f  BY DEF EqualAbove
<1>2. \A j \in 0 .. n - 1 : EqualAbove(f, y, n, j) = y + 2 * (n - j) - 1
  BY DEF EqualAbove
<1>3. \A j \in 0 .. n - 1 : EqualAbove(f, y, n, j) \in Literal  BY <1>2 DEF Literal
<1>4. \A j \in 0 .. n : EqualAbove(f, y, n, j) \in Literal  BY <1>1, <1>3
<1>5. \A j \in 1 .. n :
        LessAt(strict, y, n, j) = y + 2 * (n - j) + (IF strict \/ j > 1 THEN 2 ELSE 1)
  BY DEF LessAt
<1>6. \A j \in 1 .. n : LessAt(strict, y, n, j) \in Literal  BY <1>5 DEF Literal
<1> QED  BY <1>1, <1>2, <1>4, <1>5, <1>6

LEMMA BitMeans ==
  ASSUME NEW v \in Total, NEW a \in Clause, NEW b \in Clause, NEW n \in 1 .. Common(a, b),
         NEW y \in Nat, NEW f \in Literal, NEW strict \in BOOLEAN, NEW j \in 1 .. n,
         True(v, EqualAbove(f, y, n, j)) <=> Open(v, a, b, j)
  PROVE  AllSatisfied(v, CompareBit(strict, a, b, f, y, n, j)) <=>
           BitMarked(strict, v, a, b, f, y, n, j)
<1> DEFINE g == EqualAbove(f, y, n, j)
           e == EqualAbove(f, y, n, j - 1)
           l == LessAt(strict, y, n, j)
<1>1. Common(a, b) \in Nat /\ j \in 1 .. Common(a, b) /\ a[j] \in Literal /\ b[j] \in Literal
  <2>1. /\ Common(a, b) \in Nat
        /\ \A i \in 1 .. Common(a, b) : a[i] \in Literal /\ b[i] \in Literal
    BY CommonBits DEF Clause
  <2>2. j \in 1 .. Common(a, b)  BY <2>1
  <2> QED  BY <2>1, <2>2
<1>2. g \in Literal /\ e \in Literal /\ l \in Literal
  <2>1. n \in Nat /\ j \in 0 .. n /\ j - 1 \in 0 .. n  BY <1>1
  <2> QED  BY <2>1, BitLits
<1>3. Open(v, a, b, j - 1) <=> Open(v, a, b, j) /\ (True(v, a[j]) <=> True(v, b[j]))
  BY <1>1, OpenBelow
<1> HIDE DEF g, e, l
<1>4. CASE strict \/ j > 1
  <2> DEFINE S == EqualHere(e, g, a[j], b[j])
             T == LessHere(l, g, a[j], b[j])
  <2>1. CompareBit(strict, a, b, f, y, n, j) = S \cup T  BY <1>4 DEF CompareBit, e, g, l
  <2>2. /\ AllSatisfied(v, S) <=> (True(v, e) <=> True(v, g) /\ (True(v, a[j]) <=> True(v, b[j])))
        /\ AllSatisfied(v, T) <=> (True(v, l) <=> True(v, g) /\ ~True(v, a[j]) /\ True(v, b[j]))
    BY <1>1, <1>2, CompareHere
  <2> HIDE DEF S, T
  <2>3. AllSatisfied(v, S \cup T) <=> AllSatisfied(v, S) /\ AllSatisfied(v, T)  BY AllOf
  <2>4. IsLess(strict, v, a, b, j) <=> Open(v, a, b, j) /\ ~True(v, a[j]) /\ True(v, b[j])
    BY <1>4 DEF IsLess
  <2>5. True(v, g) <=> Open(v, a, b, j)  BY DEF g
  <2>6. BitMarked(strict, v, a, b, f, y, n, j) <=>
          /\ True(v, e) <=> Open(v, a, b, j - 1)
          /\ True(v, l) <=> IsLess(strict, v, a, b, j)
    BY <1>4 DEF BitMarked, e, l
  <2> QED  BY <1>3, <2>1, <2>2, <2>3, <2>4, <2>5, <2>6
<1>5. CASE ~(strict \/ j > 1)
  <2>1. CompareBit(strict, a, b, f, y, n, j) = AtMostHere(l, g, a[j], b[j])
    BY <1>5 DEF CompareBit, g, l
  <2>2. AllSatisfied(v, AtMostHere(l, g, a[j], b[j])) <=>
          (True(v, l) <=> True(v, g) /\ (True(v, a[j]) => True(v, b[j])))
    BY <1>1, <1>2, CompareHere
  <2>3. IsLess(strict, v, a, b, j) <=> Open(v, a, b, j) /\ (True(v, a[j]) => True(v, b[j]))
    BY <1>5 DEF IsLess
  <2>4. True(v, g) <=> Open(v, a, b, j)  BY DEF g
  <2>5. BitMarked(strict, v, a, b, f, y, n, j) <=> (True(v, l) <=> IsLess(strict, v, a, b, j))
    BY <1>5 DEF BitMarked, l
  <2> QED  BY <2>1, <2>2, <2>3, <2>4, <2>5
<1> QED  BY <1>4, <1>5

(* All the bits: f tells whether those above them are equal.               *)
LEMMA BitsMean ==
  ASSUME NEW v \in Total, NEW a \in Clause, NEW b \in Clause, NEW n \in 1 .. Common(a, b),
         NEW y \in Nat, NEW f \in Literal, NEW strict \in BOOLEAN,
         True(v, f) <=> Open(v, a, b, n)
  PROVE  (\A j \in 1 .. n : AllSatisfied(v, CompareBit(strict, a, b, f, y, n, j))) <=>
           \A j \in 1 .. n : BitMarked(strict, v, a, b, f, y, n, j)
<1> DEFINE Right(j) == True(v, EqualAbove(f, y, n, j)) <=> Open(v, a, b, j)
           Clauses(j) == AllSatisfied(v, CompareBit(strict, a, b, f, y, n, j))
           Marks(j) == BitMarked(strict, v, a, b, f, y, n, j)
<1>1. n \in Nat /\ n >= 1  BY CommonBits DEF Clause
<1>2. Right(n)  BY <1>1, BitLits
<1>3. \A j \in 1 .. n : Right(j) => (Clauses(j) <=> Marks(j))  BY BitMeans
<1>4. \A j \in 1 .. n : j > 1 /\ Marks(j) => Right(j - 1)  BY DEF BitMarked
<1> HIDE DEF Right, Clauses, Marks
<1>5. ASSUME \A j \in 1 .. n : Marks(j) PROVE \A j \in 1 .. n : Right(j)
  <2> SUFFICES ASSUME NEW j \in 1 .. n, j # n PROVE Right(j)  BY <1>2
  <2>1. j + 1 \in 1 .. n /\ j + 1 > 1 /\ (j + 1) - 1 = j  BY <1>1
  <2> QED  BY <1>4, <1>5, <2>1
<1>6. ASSUME \A j \in 1 .. n : Clauses(j) PROVE \A j \in 1 .. n : Right(j)
  <2> DEFINE Fine == {k \in Nat : k < n => Right(n - k)}
  <2>1. 0 \in Fine
    <3>1. n - 0 = n  BY <1>1
    <3> QED  BY <1>2, <3>1
  <2>2. \A k \in Nat : k \in Fine => k + 1 \in Fine
    <3> SUFFICES ASSUME NEW k \in Nat, k + 1 < n, k < n => Right(n - k)
                 PROVE  Right(n - (k + 1))
      OBVIOUS
    <3>1. n - k \in 1 .. n /\ n - k > 1 /\ (n - k) - 1 = n - (k + 1)  BY <1>1
    <3>2. Right(n - k)  BY <1>1
    <3> QED  BY <1>3, <1>4, <1>6, <3>1, <3>2
  <2> HIDE DEF Fine
  <2>3. \A k \in Nat : k \in Fine  BY <2>1, <2>2, Numbers
  <2>4. ASSUME NEW j \in 1 .. n PROVE Right(j)
    <3>1. n - j \in Nat /\ n - j < n /\ n - (n - j) = j  BY <1>1
    <3>2. n - j \in Fine  BY <2>3, <3>1
    <3> QED  BY <3>1, <3>2 DEF Fine
  <2> QED  BY <2>4
<1>7. (\A j \in 1 .. n : Clauses(j)) <=> (\A j \in 1 .. n : Marks(j))  BY <1>3, <1>5, <1>6
<1> QED  BY <1>7 DEF Clauses, Marks

(* The last clause of a comparison.                                        *)
LastClause(strict, a, b, x) ==
  LessAtTop(a, b, x) \o
    [i \in 1 .. OneByOne(a, b) |->
       LessAt(strict, x + TopVars(a, b), OneByOne(a, b), OneByOne(a, b) + 1 - i)]
IsBelow(strict, p, q) == IF strict THEN p < q ELSE p <= q

LEMMA LessOrEqual ==
  ASSUME NEW v, NEW a \in Clause, NEW b \in Clause, Len(a) >= 1, Len(b) >= 1,
         ~(Len(a) = 1 /\ Len(b) = 1), NEW strict \in BOOLEAN
  PROVE  IsBelow(strict, ValueOf(v, a), ValueOf(v, b)) <=>
           \/ Len(a) = Len(b) /\ IsLess(TRUE, v, a, b, Common(a, b))
           \/ Len(a) < Len(b) /\ ~Zero(v, Extra(a, b))
           \/ \E j \in 1 .. OneByOne(a, b) : IsLess(strict, v, a, b, j)
<1> DEFINE c == Common(a, b)
           n == OneByOne(a, b)
           e == Extra(a, b)
           Less(j) == IsLess(TRUE, v, a, b, j)
           AtMost(j) == IsLess(FALSE, v, a, b, j)
<1>1. /\ c \in Nat /\ c >= 1 /\ n \in Nat /\ n >= 1
      /\ Len(a) = Len(b) => n = c - 1
      /\ Len(a) # Len(b) => n = c
  BY Ladder
<1>2. /\ ValueOf(v, a) = ValueOf(v, b) <=> Open(v, a, b, 0)
      /\ ValueOf(v, a) < ValueOf(v, b) <=>
           \/ Len(a) < Len(b) /\ ~Zero(v, e)
           \/ \E j \in 1 .. c : Less(j)
  <2>1. \A j : Less(j) <=> Zero(v, e) /\ LessBit(v, a, b, j, c)  BY DEF IsLess, Open, LessBit
  <2> QED  BY <2>1, VectorsCompare DEF Open
<1>3. Len(a) = Len(b) => Zero(v, e)
  <2>1. Len(a) = Len(b) => e = <<>>  BY CommonBits DEF Clause
  <2> QED  BY <2>1 DEF Zero
<1>4. ValueOf(v, a) < ValueOf(v, b) <=>
        \/ Len(a) = Len(b) /\ Less(c)
        \/ Len(a) < Len(b) /\ ~Zero(v, e)
        \/ \E j \in 1 .. n : Less(j)
  <2> HIDE DEF c, n, e, Less
  <2>1. CASE Len(a) = Len(b)
    <3>1. 1 .. c = (1 .. n) \cup {c}  BY <1>1, <2>1
    <3>2. ~(Len(a) < Len(b))  BY <2>1, Ladder DEF Clause
    <3> QED  BY <1>2, <2>1, <3>1, <3>2
  <2>2. CASE Len(a) # Len(b)
    <3>1. n = c  BY <1>1, <2>2
    <3> QED  BY <1>2, <2>2, <3>1
  <2> QED  BY <2>1, <2>2
<1>5. AtMost(1) <=> Less(1) \/ Open(v, a, b, 0)
  <2>1. 1 \in 1 .. c /\ 1 - 1 = 0 /\ ~(1 > 1)  BY <1>1
  <2>2. Open(v, a, b, 1 - 1) <=> Open(v, a, b, 1) /\ (True(v, a[1]) <=> True(v, b[1]))
    BY <2>1, OpenBelow
  <2>3. Open(v, a, b, 0) <=> Open(v, a, b, 1) /\ (True(v, a[1]) <=> True(v, b[1]))
    BY <2>1, <2>2
  <2>4. AtMost(1) <=> Open(v, a, b, 1) /\ (True(v, a[1]) => True(v, b[1]))
    BY <2>1 DEF IsLess
  <2>5. Less(1) <=> Open(v, a, b, 1) /\ ~True(v, a[1]) /\ True(v, b[1])
    BY DEF IsLess
  <2> QED  BY <2>3, <2>4, <2>5
<1>6. \A j \in 1 .. n : j # 1 => (AtMost(j) <=> Less(j))
  <2>1. \A j \in 1 .. n : j # 1 => j > 1  BY <1>1
  <2> QED  BY <2>1 DEF IsLess
<1>7. 1 \in 1 .. n  BY <1>1
<1> HIDE DEF Less, AtMost, n, c, e
<1>8. (\E j \in 1 .. n : AtMost(j)) <=> (\E j \in 1 .. n : Less(j)) \/ Open(v, a, b, 0)
  BY <1>5, <1>6, <1>7
<1>9. ValueOf(v, a) \in Nat /\ ValueOf(v, b) \in Nat  BY ValueRange
<1>10. ValueOf(v, a) <= ValueOf(v, b) <=> ValueOf(v, a) < ValueOf(v, b) \/ Open(v, a, b, 0)
  BY <1>2, <1>9
<1>11. CASE strict  BY <1>4, <1>11 DEF IsBelow, Less, c, n, e
<1>12. CASE ~strict
  <2>1. strict = FALSE  BY <1>12
  <2> QED  BY <1>4, <1>8, <1>10, <2>1 DEF IsBelow, Less, AtMost, c, n, e
<1> QED  BY <1>11, <1>12

(* The marks: what the variables a comparison makes stand for.             *)
Marked(strict, v, a, b, x) ==
  /\ TopMarked(v, a, b, x)
  /\ \A j \in 1 .. OneByOne(a, b) :
       BitMarked(strict, v, a, b, x + 1, x + TopVars(a, b), OneByOne(a, b), j)

LEMMA LastClauseMeans ==
  ASSUME NEW v \in Total, NEW a \in Clause, NEW b \in Clause, Len(a) >= 1, Len(b) >= 1,
         ~(Len(a) = 1 /\ Len(b) = 1), NEW x \in Nat, NEW strict \in BOOLEAN,
         Marked(strict, v, a, b, x)
  PROVE  Satisfied(v, LastClause(strict, a, b, x)) <=>
           IsBelow(strict, ValueOf(v, a), ValueOf(v, b))
<1> DEFINE c == Common(a, b)
           n == OneByOne(a, b)
           e == Extra(a, b)
           y == x + TopVars(a, b)
           t == LessAtTop(a, b, x)
           l == [i \in 1 .. n |-> LessAt(strict, y, n, n + 1 - i)]
<1>1. /\ n \in Nat /\ y \in Nat /\ e \in Clause  BY Ladder
<1>2. Len(a) \in Nat /\ Len(b) \in Nat  BY DEF Clause
<1>3. \A j \in 1 .. n : /\ LessAt(strict, y, n, j) \in Literal
                        /\ True(v, LessAt(strict, y, n, j)) <=> IsLess(strict, v, a, b, j)
  <2>1. \A j \in 1 .. n : LessAt(strict, y, n, j) \in Literal
    <3>1. x + 1 \in Literal  BY DEF Literal
    <3> HIDE DEF n, y
    <3> QED  BY <1>1, <3>1, BitLits
  <2> QED  BY <2>1 DEF Marked, BitMarked
<1> HIDE DEF n, y, e, c
<1>4. \A i \in 1 .. n : n + 1 - i \in 1 .. n /\ n + 1 - (n + 1 - i) = i  BY <1>1
<1>5. l \in Clause /\ Len(l) = n /\ DOMAIN l = 1 .. n
  BY <1>1, <1>3, <1>4 DEF Clause
<1>6. Satisfied(v, l) <=> \E j \in 1 .. n : IsLess(strict, v, a, b, j)
  <2>1. \A i \in 1 .. n : True(v, l[i]) <=> IsLess(strict, v, a, b, n + 1 - i)  BY <1>3, <1>4
  <2> HIDE DEF l
  <2> QED  BY <1>4, <1>5, <2>1 DEF Satisfied
<1>7. /\ t \in Clause
      /\ Satisfied(v, t) <=> \/ Len(a) = Len(b) /\ IsLess(TRUE, v, a, b, c)
                             \/ Len(a) < Len(b) /\ ~Zero(v, e)
  <2>1. CASE Len(a) = Len(b)
    <3>1. t = <<x + 2>> /\ x + 2 \in Literal  BY <2>1 DEF LessAtTop, Literal
    <3> HIDE DEF t
    <3>2. Satisfied(v, t) <=> True(v, x + 2)  BY <3>1, SatisfiedShort
    <3>3. ~(Len(a) < Len(b))  BY <1>2, <2>1
    <3>4. t \in Clause  BY <3>1 DEF Clause
    <3>5. True(v, x + 2) <=> IsLess(TRUE, v, a, b, c)  BY <2>1 DEF Marked, TopMarked, c
    <3> QED  BY <2>1, <3>2, <3>3, <3>4, <3>5
  <2>2. CASE Len(a) < Len(b)
    <3>1. t = e /\ ~(Len(a) = Len(b))  BY <1>2, <2>2 DEF LessAtTop, e
    <3>2. Satisfied(v, t) <=> ~Zero(v, e)  BY <1>1, <3>1, NoneTrue
    <3> QED  BY <1>1, <2>2, <3>1, <3>2
  <2>3. CASE Len(b) < Len(a)
    <3>1. ~(Len(a) = Len(b)) /\ ~(Len(a) < Len(b))  BY <1>2, <2>3
    <3>2. t = <<>>  BY <3>1 DEF LessAtTop
    <3> HIDE DEF t
    <3>3. t \in Clause /\ ~Satisfied(v, t)  BY <3>2 DEF Satisfied, Clause
    <3> QED  BY <3>1, <3>3
  <2>4. Len(a) = Len(b) \/ Len(a) < Len(b) \/ Len(b) < Len(a)  BY <1>2
  <2> HIDE DEF t
  <2> QED  BY <2>1, <2>2, <2>3, <2>4
<1> HIDE DEF t, l
<1>8. LastClause(strict, a, b, x) = t \o l  BY DEF LastClause, t, l, n, y
<1>9. Satisfied(v, t \o l) <=> Satisfied(v, t) \/ Satisfied(v, l)
  BY <1>5, <1>7, SatisfiedConcat
<1> QED  BY <1>6, <1>7, <1>8, <1>9, LessOrEqual DEF n, c, e

(* The clauses of a comparison.                                            *)
LEMMA CompareBitsMean ==
  ASSUME NEW v \in Total, NEW a \in Clause, NEW b \in Clause, Len(a) >= 1, Len(b) >= 1,
         ~(Len(a) = 1 /\ Len(b) = 1), NEW x \in Nat, NEW strict \in BOOLEAN
  PROVE  AllSatisfied(v, CompareBits(strict, a, b, x)) <=>
           /\ Marked(strict, v, a, b, x)
           /\ IsBelow(strict, ValueOf(v, a), ValueOf(v, b))
<1> DEFINE n == OneByOne(a, b)
           y == x + TopVars(a, b)
           S == CompareTop(a, b, x)
           T == UNION {CompareBit(strict, a, b, x + 1, y, n, j) : j \in 1 .. n}
           C == LastClause(strict, a, b, x)
<1>1. CompareBits(strict, a, b, x) = (S \cup T) \cup {C}  BY DEF CompareBits, LastClause
<1>2. /\ n \in 1 .. Common(a, b) /\ y \in Nat /\ x + 1 \in Literal
  <2>1. /\ n \in Nat /\ n >= 1 /\ n <= Common(a, b) /\ Common(a, b) \in Nat
        /\ TopVars(a, b) \in 1 .. 2
    BY Ladder
  <2> QED  BY <2>1 DEF Literal
<1>3. AllSatisfied(v, S) <=> TopMarked(v, a, b, x)  BY TopMeans
<1>4. AllSatisfied(v, T) <=>
        \A j \in 1 .. n : AllSatisfied(v, CompareBit(strict, a, b, x + 1, y, n, j))
  BY DEF AllSatisfied
<1>5. TopMarked(v, a, b, x) =>
        ((\A j \in 1 .. n : AllSatisfied(v, CompareBit(strict, a, b, x + 1, y, n, j))) <=>
         \A j \in 1 .. n : BitMarked(strict, v, a, b, x + 1, y, n, j))
  <2>1. TopMarked(v, a, b, x) => (True(v, x + 1) <=> Open(v, a, b, n))  BY DEF TopMarked
  <2> HIDE DEF n, y
  <2> QED  BY <1>2, <2>1, BitsMean
<1>6. Marked(strict, v, a, b, x) <=>
        /\ TopMarked(v, a, b, x)
        /\ \A j \in 1 .. n : BitMarked(strict, v, a, b, x + 1, y, n, j)
  BY DEF Marked
<1> HIDE DEF S, T, C, n, y
<1>7. AllSatisfied(v, (S \cup T) \cup {C}) <=>
        AllSatisfied(v, S) /\ AllSatisfied(v, T) /\ Satisfied(v, C)
  BY DEF AllSatisfied
<1>8. Marked(strict, v, a, b, x) =>
        (Satisfied(v, C) <=> IsBelow(strict, ValueOf(v, a), ValueOf(v, b)))
  BY LastClauseMeans DEF C
<1> QED  BY <1>1, <1>3, <1>4, <1>5, <1>6, <1>7, <1>8
=============================================================================
