-------------------------- MODULE TranslationProofs --------------------------
(***************************************************************************)
(* That the translations keep what they translate: which arguments arrive, *)
(* which scalar settings reach Condor, which machines the requirements     *)
(* allow, which files come where, which values are read. For inputs of any *)
(* length and any values, with what the other end does as Translation has  *)
(* it. The translations put text together piece by piece, and read it with *)
(* folds over sequences, so the first part is about those.                 *)
(***************************************************************************)
EXTENDS Translation, SequenceTheorems, WellFoundedInduction, TLAPS

\* One input is translated, or none.
TranslationSpec == NothingTranslated /\ [][Translate]_translation_vars

-----------------------------------------------------------------------------
(* Induction over numbers and sequences, for sets of them.                  *)

\* A set of numbers that is not empty has a least one.
LEMMA LeastElement ==
    ASSUME NEW S \in SUBSET Nat, S # {}
    PROVE  \E i \in S : \A j \in S : i <= j
<1>1. PICK i \in S : \A j \in S : ~ (<<j, i>> \in OpToRel(<, Nat))
  BY NatLessThanWellFounded, WFMin, Zenon
<1>2. \A j \in S : ~ (j < i)
  BY <1>1 DEF OpToRel
<1> QED
  BY <1>2

\* What holds of 0, and of the next number with each, holds up to n.
LEMMA Induction ==
    ASSUME NEW n \in Nat, NEW S, 0 \in S,
           \A i \in 0..(n - 1) : i \in S => i + 1 \in S
    PROVE  \A i \in 0..n : i \in S
<1> DEFINE T == {i \in 0..n : i \notin S}
<1>1. SUFFICES ASSUME T # {} PROVE FALSE
  OBVIOUS
<1>2. T \in SUBSET Nat
  OBVIOUS
<1>3. PICK i \in T : \A j \in T : i <= j
  <2> HIDE DEF T
  <2> QED
    BY <1>1, <1>2, LeastElement
<1>4. i # 0 /\ i - 1 \in 0..(n - 1) /\ i - 1 \notin T
  BY <1>3
<1> QED
  BY <1>3, <1>4

\* What holds of the empty sequence, and with each of one element more, holds of all.
LEMMA SeqInduction ==
    ASSUME NEW T, NEW S, <<>> \in S,
           \A s \in Seq(T), e \in T : s \in S => Append(s, e) \in S
    PROVE  \A s \in Seq(T) : s \in S
<1>1. SUFFICES ASSUME NEW s \in Seq(T)
               PROVE  s \in S
  OBVIOUS
<1> DEFINE N == {k \in 0..Len(s) : SubSeq(s, 1, k) \in S}
<1>2. Len(s) \in Nat
  OBVIOUS
<1>3. 0 \in N
  <2>1. 0 \in 0..Len(s) /\ SubSeq(s, 1, 0) = <<>>
    BY <1>2
  <2>2. SubSeq(s, 1, 0) \in S
    BY <2>1, Zenon
  <2> QED
    BY <2>1, <2>2, Zenon
<1>4. ASSUME NEW k \in 0..(Len(s) - 1), k \in N
      PROVE  k + 1 \in N
  <2>1. SubSeq(s, 1, k) \in Seq(T) /\ s[k + 1] \in T
    BY <1>2
  <2>2. SubSeq(s, 1, k + 1) = Append(SubSeq(s, 1, k), s[k + 1])
    BY <1>2
  <2>3. SubSeq(s, 1, k + 1) \in S
    BY <1>4, <2>1, <2>2, Zenon
  <2>4. k + 1 \in 0..Len(s)
    BY <1>2
  <2> QED
    BY <2>3, <2>4, Zenon
<1>5. Len(s) \in N
  <2> HIDE DEF N
  <2>1. \A i \in 0..Len(s) : i \in N
    BY <1>2, <1>3, <1>4, Induction
  <2> QED
    BY <1>2, <2>1
<1>6. SubSeq(s, 1, Len(s)) = s
  BY <1>2
<1> QED
  BY <1>5, <1>6

\* A function on the first numbers is a sequence.
LEMMA FunctionSeq ==
    ASSUME NEW n \in Nat, NEW S, NEW f \in [1..n -> S]
    PROVE  f \in Seq(S) /\ Len(f) = n
<1>1. f \in Seq(S)
  OBVIOUS
<1>2. Len(f) \in Nat /\ 1..Len(f) = 1..n
  BY <1>1
<1>3. Len(f) = n
  <2>1. CASE n = 0
    <3>1. 1..Len(f) = {}
      BY <1>2, <2>1
    <3> QED
      BY <1>2, <2>1, <3>1
  <2>2. CASE n # 0
    <3>1. n \in 1..Len(f)
      BY <1>2, <2>2
    <3>2. Len(f) # 0
      BY <1>2, <3>1
    <3>3. Len(f) \in 1..n
      BY <1>2, <3>2
    <3> QED
      BY <1>2, <3>1, <3>3
  <2> QED
    BY <2>1, <2>2
<1> QED
  BY <1>1, <1>3

-----------------------------------------------------------------------------
(* Folds as the application of a table: G[e] is the function that takes the *)
(* value so far to the value after the element e.                           *)

\* The values after none, one, two... of the elements of s.
IsStages(G, b, s, g) ==
    /\ g = [k \in 0..Len(s) |-> g[k]]
    /\ g[0] = b
    /\ \A k \in 1..Len(s) : g[k] = G[s[k]][g[k - 1]]

\* The last of them.
Folded(G, b, s) == (CHOOSE g : IsStages(G, b, s, g))[Len(s)]

\* There is at most one such function.
LEMMA StagesUnique ==
    ASSUME NEW T, NEW s \in Seq(T), NEW G, NEW b, NEW g, NEW h,
           IsStages(G, b, s, g), IsStages(G, b, s, h)
    PROVE  g = h
<1> DEFINE N == {k \in 0..Len(s) : g[k] = h[k]}
<1>1. Len(s) \in Nat
  OBVIOUS
<1>2. 0 \in N
  BY <1>1 DEF IsStages
<1>3. ASSUME NEW k \in 0..(Len(s) - 1), k \in N
      PROVE  k + 1 \in N
  <2>1. k + 1 \in 1..Len(s) /\ (k + 1) - 1 = k
    BY <1>1
  <2>2. g[k + 1] = G[s[k + 1]][g[k]] /\ h[k + 1] = G[s[k + 1]][h[k]]
    BY <2>1 DEF IsStages
  <2> QED
    BY <1>1, <1>3, <2>1, <2>2
<1>4. \A k \in 0..Len(s) : k \in N
  <2> HIDE DEF N
  <2> QED
    BY <1>1, <1>2, <1>3, Induction
<1> QED
  BY <1>4 DEF IsStages

\* So the value chosen in Folded is that of any.
LEMMA FoldedStages ==
    ASSUME NEW T, NEW s \in Seq(T), NEW G, NEW b, NEW g, IsStages(G, b, s, g)
    PROVE  Folded(G, b, s) = g[Len(s)]
<1>1. IsStages(G, b, s, CHOOSE x : IsStages(G, b, s, x))
  <2> HIDE DEF IsStages
  <2> QED
    OBVIOUS
<1>2. (CHOOSE x : IsStages(G, b, s, x)) = g
  <2> HIDE DEF IsStages
  <2> QED
    BY <1>1, StagesUnique
<1> QED
  BY <1>2 DEF Folded

\* There is one, and it stays in A, if the functions of the table do.
LEMMA StagesExist ==
    ASSUME NEW T, NEW s \in Seq(T), NEW A, NEW b \in A, NEW G \in [T -> [A -> A]]
    PROVE  \E g \in [0..Len(s) -> A] : IsStages(G, b, s, g)
<1> DEFINE StagesOf(x) == {g \in [0..Len(x) -> A] : IsStages(G, b, x, g)}
           S == {x \in Seq(T) : StagesOf(x) # {}}
<1>1. <<>> \in S
  <2>1. [k \in 0..0 |-> b] \in StagesOf(<<>>)
    BY DEF IsStages
  <2> QED
    BY <2>1
<1>2. ASSUME NEW x \in Seq(T), NEW e \in T, x \in S
      PROVE  Append(x, e) \in S
  <2>1. PICK g : g \in StagesOf(x)
    BY <1>2
  <2>2. /\ Len(x) \in Nat /\ Append(x, e) \in Seq(T)
        /\ Len(Append(x, e)) = Len(x) + 1
        /\ \A k \in 1..Len(x) : Append(x, e)[k] = x[k]
        /\ Append(x, e)[Len(x) + 1] = e
    OBVIOUS
  <2> DEFINE h == [k \in 0..(Len(x) + 1) |-> IF k = Len(x) + 1 THEN G[e][g[Len(x)]] ELSE g[k]]
  <2>3. /\ g \in [0..Len(x) -> A] /\ g[0] = b
        /\ \A k \in 1..Len(x) : g[k] = G[x[k]][g[k - 1]]
    BY <2>1 DEF IsStages
  <2>4. h \in [0..(Len(x) + 1) -> A]
    <3>1. g[Len(x)] \in A /\ G[e] \in [A -> A]
      BY <2>2, <2>3
    <3> QED
      BY <2>2, <2>3, <3>1
  <2>5. /\ h[0] = b /\ h[Len(x) + 1] = G[e][h[Len(x)]]
        /\ \A k \in 1..Len(x) : h[k] = G[x[k]][h[k - 1]]
    BY <2>2, <2>3
  <2> HIDE DEF h
  <2>6. IsStages(G, b, Append(x, e), h)
    BY <2>2, <2>4, <2>5 DEF IsStages
  <2>7. h \in StagesOf(Append(x, e))
    BY <2>2, <2>4, <2>6
  <2> QED
    BY <2>2, <2>7
<1>3. s \in S
  <2> HIDE DEF S
  <2> QED
    BY <1>1, <1>2, SeqInduction
<1> QED
  BY <1>3

\* Nothing is left to apply.
LEMMA FoldedEmpty ==
    ASSUME NEW G, NEW b
    PROVE  Folded(G, b, <<>>) = b
<1>1. IsStages(G, b, <<>>, [k \in 0..0 |-> b])
  BY DEF IsStages
<1>2. <<>> \in Seq({})
  OBVIOUS
<1>3. Folded(G, b, <<>>) = [k \in 0..0 |-> b][Len(<<>>)]
  BY <1>1, <1>2, FoldedStages
<1> QED
  BY <1>3

\* One element more applies the table once more.
LEMMA FoldedAppend ==
    ASSUME NEW T, NEW s \in Seq(T), NEW e \in T, NEW A, NEW b \in A, NEW G \in [T -> [A -> A]]
    PROVE  /\ Folded(G, b, s) \in A
           /\ Folded(G, b, Append(s, e)) = G[e][Folded(G, b, s)]
<1>0. /\ Len(s) \in Nat /\ Append(s, e) \in Seq(T)
      /\ Len(Append(s, e)) = Len(s) + 1
      /\ \A k \in 1..Len(s) : Append(s, e)[k] = s[k]
      /\ Append(s, e)[Len(s) + 1] = e
  OBVIOUS
<1>1. PICK g : g \in [0..(Len(s) + 1) -> A] /\ IsStages(G, b, Append(s, e), g)
  BY <1>0, StagesExist
<1>7. g[0] = b /\ \A k \in 1..(Len(s) + 1) : g[k] = G[Append(s, e)[k]][g[k - 1]]
  BY <1>0, <1>1 DEF IsStages
<1> DEFINE h == [k \in 0..Len(s) |-> g[k]]
<1>2. IsStages(G, b, s, h)
  <2>1. h[0] = b /\ \A k \in 1..Len(s) : h[k] = G[s[k]][h[k - 1]]
    BY <1>0, <1>7
  <2> QED
    BY <2>1 DEF IsStages
<1>3. Folded(G, b, s) = h[Len(s)] /\ h[Len(s)] \in A
  <2>1. h[Len(s)] \in A
    BY <1>0, <1>1
  <2> HIDE DEF h
  <2> QED
    BY <1>2, <2>1, FoldedStages
<1>4. Folded(G, b, Append(s, e)) = g[Len(s) + 1]
  BY <1>0, <1>1, FoldedStages
<1>5. g[Len(s) + 1] = G[e][g[Len(s)]]
  BY <1>0, <1>7
<1>6. h[Len(s)] = g[Len(s)]
  BY <1>0
<1> QED
  BY <1>3, <1>4, <1>5, <1>6

\* The second sequence goes on from where the first has led.
LEMMA FoldedConcat ==
    ASSUME NEW T, NEW s \in Seq(T), NEW t \in Seq(T), NEW A, NEW b \in A, NEW G \in [T -> [A -> A]]
    PROVE  Folded(G, b, s \o t) = Folded(G, Folded(G, b, s), t)
<1> DEFINE S == {x \in Seq(T) : Folded(G, b, s \o x) = Folded(G, Folded(G, b, s), x)}
<1>1. <<>> \in S
  <2>1. s \o <<>> = s
    OBVIOUS
  <2> QED
    BY <2>1, FoldedEmpty
<1>2. ASSUME NEW x \in Seq(T), NEW e \in T, x \in S
      PROVE  Append(x, e) \in S
  <2>1. s \o Append(x, e) = Append(s \o x, e) /\ s \o x \in Seq(T) /\ Append(x, e) \in Seq(T)
    OBVIOUS
  <2>2. Folded(G, b, s) \in A
    BY FoldedAppend
  <2>3. Folded(G, b, Append(s \o x, e)) = G[e][Folded(G, b, s \o x)]
    <3> HIDE DEF S
    <3>1. \A y \in Seq(T) : Folded(G, b, Append(y, e)) = G[e][Folded(G, b, y)]
      BY FoldedAppend
    <3> QED
      BY <2>1, <3>1
  <2>4. Folded(G, Folded(G, b, s), Append(x, e)) = G[e][Folded(G, Folded(G, b, s), x)]
    BY <2>2, FoldedAppend
  <2> QED
    BY <1>2, <2>1, <2>3, <2>4
<1> HIDE DEF S
<1>3. t \in S
  BY <1>1, <1>2, SeqInduction
<1> QED
  BY <1>3 DEF S

-----------------------------------------------------------------------------
(* FoldLeft goes over sets of positions, from the greatest one down. It is  *)
(* the fold of a table: for each operation of Translation that is folded,   *)
(* IteratorExists says that FoldLeft is defined, and IteratorFolds that it  *)
(* is Folded.                                                               *)

\* Max is what its name says, for sets of positions.
LEMMA MaxOfSet ==
    ASSUME NEW n \in Nat, NEW s \in SUBSET (1..n), s # {}
    PROVE  Max(s) \in s /\ \A i \in s : i <= Max(s)
<1> DEFINE T == {m \in 0..n : n - m \in s}
<1>1. T \in SUBSET Nat
  OBVIOUS
<1>2. T # {}
  <2>1. PICK i \in s : TRUE
    OBVIOUS
  <2>2. n - i \in 0..n /\ n - (n - i) = i
    OBVIOUS
  <2>3. n - i \in T
    BY <2>2
  <2> QED
    BY <2>3
<1>3. PICK m \in T : \A j \in T : m <= j
  <2> HIDE DEF T
  <2> QED
    BY <1>1, <1>2, LeastElement
<1>4. ASSUME NEW j \in s
      PROVE  n - m >= j
  <2>1. n - j \in 0..n /\ n - (n - j) = j
    OBVIOUS
  <2>2. m <= n - j
    BY <1>3, <2>1
  <2> QED
    BY <2>2, <1>3
<1>5. n - m \in s /\ \A y \in s : n - m >= y
  BY <1>3, <1>4
<1>6. Max(s) \in s /\ \A y \in s : Max(s) >= y
  BY <1>5 DEF Max
<1> QED
  BY <1>6

\* The positions up to k without the last are those up to k - 1.
LEMMA MaxOfInterval ==
    ASSUME NEW n \in Nat, NEW k \in 1..n
    PROVE  1..k \in SUBSET (1..n) /\ 1..k # {} /\ Max(1..k) = k /\ (1..k) \ {k} = 1..(k - 1)
<1>1. 1..k \in SUBSET (1..n) /\ k \in 1..k
  OBVIOUS
<1>2. Max(1..k) \in 1..k /\ \A i \in 1..k : i <= Max(1..k)
  BY <1>1, MaxOfSet
<1> QED
  BY <1>1, <1>2

\* The last of some positions of s has an element.
LEMMA LastOf ==
    ASSUME NEW T, NEW s \in Seq(T)
    PROVE  /\ Len(s) \in Nat /\ DOMAIN s = 1..Len(s)
           /\ \A x \in SUBSET (1..Len(s)) : x # {} => s[Max(x)] \in T
<1>1. Len(s) \in Nat /\ DOMAIN s = 1..Len(s)
  OBVIOUS
<1>2. \A x \in SUBSET (1..Len(s)) : x # {} => Max(x) \in 1..Len(s)
  BY <1>1, MaxOfSet
<1> QED
  BY <1>1, <1>2

\* The functions of which FoldLeft takes one: over the subsets of the positions.
Iterators(G, A, b, s) ==
    {f \in [SUBSET (1..Len(s)) -> A] :
        \A x \in SUBSET (1..Len(s)) :
            f[x] = IF x = {} THEN b ELSE G[s[Max(x)]][f[x \ {Max(x)}]]}

\* There is one for every sequence.
LEMMA IteratorExists ==
    ASSUME NEW T, NEW s \in Seq(T), NEW A, NEW b \in A, NEW G \in [T -> [A -> A]]
    PROVE  Iterators(G, A, b, s) # {}
<1> DEFINE S == {t \in Seq(T) : Iterators(G, A, b, t) # {}}
<1>1. <<>> \in S
  <2>1. [x \in SUBSET (1..0) |-> b] \in Iterators(G, A, b, <<>>)
    BY DEF Iterators
  <2> QED
    BY <2>1
<1>2. ASSUME NEW t \in Seq(T), NEW e \in T, t \in S
      PROVE  Append(t, e) \in S
  <2> DEFINE n == Len(t)
             u == Append(t, e)
  <2>0. /\ n \in Nat /\ n + 1 \in Nat /\ Len(u) = n + 1 /\ u \in Seq(T)
        /\ \A k \in 1..n : u[k] = t[k]
        /\ u[n + 1] = e
    OBVIOUS
  <2>1. PICK f : f \in Iterators(G, A, b, t)
    BY <1>2
  <2>2. /\ f \in [SUBSET (1..n) -> A]
        /\ \A x \in SUBSET (1..n) : f[x] = IF x = {} THEN b ELSE G[t[Max(x)]][f[x \ {Max(x)}]]
    BY <2>1 DEF Iterators
  <2> HIDE DEF n, u
  <2> DEFINE h == [x \in SUBSET (1..(n + 1)) |->
                     IF n + 1 \in x THEN G[e][f[x \ {n + 1}]] ELSE f[x]]
  <2>3. ASSUME NEW x \in SUBSET (1..(n + 1)), n + 1 \in x
        PROVE  x # {} /\ h[x] = G[u[Max(x)]][h[x \ {Max(x)}]] /\ h[x] \in A
    <3>1. Max(x) = n + 1
      <4>1. Max(x) \in x /\ \A i \in x : i <= Max(x)
        BY <2>0, <2>3, MaxOfSet
      <4>2. Max(x) \in 1..(n + 1) /\ n + 1 <= Max(x)
        BY <2>3, <4>1
      <4> QED
        BY <2>0, <4>2
    <3>2. x \ {n + 1} \in SUBSET (1..n) /\ x \ {n + 1} \in SUBSET (1..(n + 1))
      BY <2>0
    <3>3. h[x] = G[e][f[x \ {n + 1}]] /\ h[x \ {n + 1}] = f[x \ {n + 1}]
      BY <2>3, <3>2
    <3>4. f[x \ {n + 1}] \in A /\ G[e] \in [A -> A]
      BY <2>0, <2>2, <3>2
    <3> HIDE DEF h
    <3>5. h[x] = G[u[Max(x)]][h[x \ {Max(x)}]]
      BY <2>0, <3>1, <3>3
    <3> QED
      BY <2>3, <3>3, <3>4, <3>5
  <2>4. ASSUME NEW x \in SUBSET (1..(n + 1)), n + 1 \notin x
        PROVE  h[x] \in A /\ h[x] = IF x = {} THEN b ELSE G[u[Max(x)]][h[x \ {Max(x)}]]
    <3>1. x \in SUBSET (1..n) /\ h[x] = f[x]
      BY <2>0, <2>4
    <3>2. f[x] = IF x = {} THEN b ELSE G[t[Max(x)]][f[x \ {Max(x)}]]
      BY <2>2, <3>1
    <3>3. h[x \ {Max(x)}] = f[x \ {Max(x)}]
      BY <2>4
    <3>4. f[x] \in A
      BY <2>2, <3>1
    <3>5. x # {} => u[Max(x)] = t[Max(x)]
      <4>1. x # {} => Max(x) \in x
        BY <2>0, <3>1, MaxOfSet
      <4> QED
        BY <2>0, <3>1, <4>1
    <3> HIDE DEF h
    <3> QED
      BY <3>1, <3>2, <3>3, <3>4, <3>5
  <2>5. h \in [SUBSET (1..(n + 1)) -> A]
    <3>1. \A x \in SUBSET (1..(n + 1)) : h[x] \in A
      <4> HIDE DEF h
      <4> QED
        BY <2>3, <2>4
    <3> QED
      BY <3>1
  <2> HIDE DEF h
  <2>6. \A x \in SUBSET (1..(n + 1)) : h[x] = IF x = {} THEN b ELSE G[u[Max(x)]][h[x \ {Max(x)}]]
    BY <2>3, <2>4
  <2>7. h \in Iterators(G, A, b, u)
    BY <2>0, <2>5, <2>6 DEF Iterators
  <2> QED
    BY <2>0, <2>7 DEF u
<1>3. s \in S
  <2> HIDE DEF S
  <2> QED
    BY <1>1, <1>2, SeqInduction
<1> QED
  BY <1>3

\* What is asked of such a function, whatever else it is given.
Iterates(G, A, b, s, f) ==
    /\ f[{}] = b
    /\ \A x \in SUBSET (1..Len(s)) :
          x # {} /\ f[x \ {Max(x)}] \in A => f[x] = G[s[Max(x)]][f[x \ {Max(x)}]]

\* They all lead to the same value in the end.
LEMMA IteratorFolds ==
    ASSUME NEW T, NEW s \in Seq(T), NEW A, NEW b \in A, NEW G \in [T -> [A -> A]], NEW f,
           Iterates(G, A, b, s, f)
    PROVE  f[1..Len(s)] = Folded(G, b, s)
<1> DEFINE g == [k \in 0..Len(s) |-> f[1..k]]
           N == {k \in 0..Len(s) : g[k] \in A}
<1>1. Len(s) \in Nat
  OBVIOUS
<1>2. g[0] = b
  BY <1>1 DEF Iterates
<1>3. ASSUME NEW k \in 1..Len(s), g[k - 1] \in A
      PROVE  g[k] = G[s[k]][g[k - 1]] /\ g[k] \in A
  <2>1. 1..k \in SUBSET (1..Len(s)) /\ 1..k # {} /\ Max(1..k) = k /\ (1..k) \ {k} = 1..(k - 1)
    BY <1>1, MaxOfInterval
  <2>2. g[k - 1] = f[1..(k - 1)] /\ g[k] = f[1..k]
    BY <1>1
  <2>3. g[k] = G[s[k]][g[k - 1]]
    BY <1>3, <2>1, <2>2 DEF Iterates
  <2> HIDE DEF g
  <2> QED
    BY <1>3, <2>3
<1>4. \A k \in 0..Len(s) : k \in N
  <2>1. 0 \in N
    BY <1>1, <1>2
  <2>2. ASSUME NEW k \in 0..(Len(s) - 1), k \in N
        PROVE  k + 1 \in N
    <3>1. k + 1 \in 1..Len(s) /\ k + 1 \in 0..Len(s) /\ (k + 1) - 1 = k
      BY <1>1
    <3> HIDE DEF g
    <3> QED
      BY <1>3, <2>2, <3>1
  <2> HIDE DEF N
  <2> QED
    BY <1>1, <2>1, <2>2, Induction
<1>5. IsStages(G, b, s, g)
  <2>1. \A k \in 1..Len(s) : g[k] = G[s[k]][g[k - 1]]
    <3>1. \A k \in 1..Len(s) : k - 1 \in 0..Len(s)
      BY <1>1
    <3> HIDE DEF g
    <3> QED
      BY <1>3, <1>4, <3>1
  <2> QED
    BY <1>2, <2>1 DEF IsStages
<1>6. g[Len(s)] = f[1..Len(s)]
  BY <1>1
<1> HIDE DEF g
<1> QED
  BY <1>5, <1>6, FoldedStages

\* All of it at once: nothing, one element, one more, one sequence after the other.
Folds(T, A, G) ==
    \A b \in A :
        /\ Folded(G, b, <<>>) = b
        /\ \A e \in T : Folded(G, b, <<e>>) = G[e][b]
        /\ \A s \in Seq(T) : Folded(G, b, s) \in A
        /\ \A s \in Seq(T), e \in T : Folded(G, b, Append(s, e)) = G[e][Folded(G, b, s)]
        /\ \A s \in Seq(T), t \in Seq(T) : Folded(G, b, s \o t) = Folded(G, Folded(G, b, s), t)

\* It holds of every table.
LEMMA FoldedAll ==
    ASSUME NEW T, T # {}, NEW A, NEW G \in [T -> [A -> A]]
    PROVE  Folds(T, A, G)
<1>1. ASSUME NEW b \in A
      PROVE  /\ Folded(G, b, <<>>) = b
             /\ \A e \in T : Folded(G, b, <<e>>) = G[e][b]
             /\ \A s \in Seq(T) : Folded(G, b, s) \in A
             /\ \A s \in Seq(T), e \in T : Folded(G, b, Append(s, e)) = G[e][Folded(G, b, s)]
             /\ \A s \in Seq(T), t \in Seq(T) :
                   Folded(G, b, s \o t) = Folded(G, Folded(G, b, s), t)
  <2>1. Folded(G, b, <<>>) = b
    BY FoldedEmpty
  <2>2. \A s \in Seq(T), e \in T : /\ Folded(G, b, s) \in A
                                 /\ Folded(G, b, Append(s, e)) = G[e][Folded(G, b, s)]
    BY FoldedAppend
  <2>3. \A s \in Seq(T), t \in Seq(T) : Folded(G, b, s \o t) = Folded(G, Folded(G, b, s), t)
    BY FoldedConcat
  <2>4. ASSUME NEW e \in T
        PROVE  Folded(G, b, <<e>>) = G[e][b]
    <3> DEFINE none == <<>>
    <3>1. none \in Seq(T) /\ <<e>> = Append(none, e)
      OBVIOUS
    <3>2. Folded(G, b, none) = b
      BY <2>1
    <3> HIDE DEF none
    <3> QED
      BY <2>2, <3>1, <3>2
  <2>5. \A s \in Seq(T) : Folded(G, b, s) \in A
    BY <2>2
  <2> QED
    BY <2>1, <2>2, <2>3, <2>4, <2>5
<1> QED
  BY <1>1 DEF Folds

-----------------------------------------------------------------------------
(* Text that is put together piece by piece: P[c] is what c becomes.        *)

\* What FlattenSeq does with one sequence more.
Gluing(T) == [s \in Seq(T) |-> [x \in Seq(T) |-> x \o s]]

\* It takes a sequence to a sequence.
LEMMA GluingType ==
    ASSUME NEW T
    PROVE  /\ Gluing(T) \in [Seq(T) -> [Seq(T) -> Seq(T)]]
           /\ \A s \in Seq(T), x \in Seq(T) : Gluing(T)[s][x] = x \o s
BY DEF Gluing

\* FlattenSeq is a fold, too.
LEMMA FlattenFolded ==
    ASSUME NEW T, NEW ss \in Seq(Seq(T))
    PROVE  FlattenSeq(ss) = Folded(Gluing(T), <<>>, ss)
<1> DEFINE n == Len(ss)
           G == Gluing(T)
           A == Seq(T)
           b == <<>>
           IsFlat(f) == f = [i \in 1..n |-> IF i = 1 THEN ss[i] ELSE f[i - 1] \o ss[i]]
<1>1. n \in Nat /\ b \in A /\ G \in [A -> [A -> A]] /\ \A i \in 1..n : ss[i] \in A
  <2>1. n \in Nat /\ b \in A /\ \A i \in 1..n : ss[i] \in A
    OBVIOUS
  <2>2. G \in [A -> [A -> A]]
    BY GluingType
  <2> QED
    BY <2>1, <2>2
<1>2. \A s \in A, x \in A : G[s][x] = x \o s
  BY GluingType
<1>3. \A s \in A : b \o s = s
  OBVIOUS
<1> HIDE DEF G, b, A, n
<1>4. PICK g : g \in [0..n -> A] /\ IsStages(G, b, ss, g)
  BY <1>1, StagesExist DEF n, A
<1>5. g[0] = b /\ \A i \in 1..n : g[i] = g[i - 1] \o ss[i]
  <2>1. \A i \in 1..n : i - 1 \in 0..n
    BY <1>1
  <2> QED
    BY <1>1, <1>2, <1>4, <2>1 DEF IsStages, n
<1>6. CASE n = 0
  <2>1. ss = <<>>
    BY <1>6 DEF n
  <2> QED
    BY <1>6, <2>1, FoldedEmpty DEF FlattenSeq, n, b
<1>7. CASE n # 0
  <2> DEFINE h == [i \in 1..n |-> g[i]]
  <2>1. \A i \in 1..n : g[i] = IF i = 1 THEN ss[i] ELSE h[i - 1] \o ss[i]
    <3>1. ASSUME NEW i \in 1..n
          PROVE  g[i] = IF i = 1 THEN ss[i] ELSE h[i - 1] \o ss[i]
      <4>1. CASE i = 1
        <5>1. i - 1 = 0
          BY <4>1
        <5>2. ss[i] \in A /\ g[i] = g[i - 1] \o ss[i]
          BY <1>1, <1>5, Zenon
        <5> HIDE DEF h
        <5> QED
          BY <1>3, <1>5, <4>1, <5>1, <5>2
      <4>2. CASE i # 1
        <5>1. i - 1 \in 1..n
          BY <1>1, <4>2
        <5> QED
          BY <1>5, <4>2, <5>1
      <4> QED
        BY <4>1, <4>2
    <3> QED
      BY <3>1
  <2>2. IsFlat(h)
    <3>1. h = [i \in 1..n |-> IF i = 1 THEN ss[i] ELSE h[i - 1] \o ss[i]]
      BY <2>1
    <3> QED
      BY <3>1
  <2>3. \E f : IsFlat(f)
    <3> HIDE DEF IsFlat
    <3> QED
      BY <2>2
  <2>4. PICK f : IsFlat(f) /\ FlattenSeq(ss) = f[n]
    BY <1>7, <2>3 DEF FlattenSeq, n
  <2> DEFINE k == [i \in 0..n |-> IF i = 0 THEN b ELSE f[i]]
  <2>5. k[0] = b /\ k[n] = f[n]
    BY <1>1, <1>7
  <2>6. IsStages(G, b, ss, k)
    <3> DEFINE N == {i \in 0..n : k[i] = g[i]}
    <3>1. 0 \in N
      BY <1>1, <1>5, <2>5
    <3>2. ASSUME NEW i \in 0..(n - 1), i \in N
          PROVE  i + 1 \in N
      <4>1. i + 1 \in 1..n /\ i + 1 \in 0..n /\ (i + 1) - 1 = i /\ i + 1 # 0
        BY <1>1
      <4>2. k[i + 1] = f[i + 1]
        BY <4>1
      <4>3. f[i + 1] = IF i = 0 THEN ss[i + 1] ELSE f[i] \o ss[i + 1]
        <5>1. \A j \in 1..n : f[j] = IF j = 1 THEN ss[j] ELSE f[j - 1] \o ss[j]
          BY <2>4
        <5>2. i + 1 = 1 <=> i = 0
          BY <1>1
        <5> QED
          BY <4>1, <5>1, <5>2
      <4>4. g[i + 1] = g[i] \o ss[i + 1]
        BY <1>5, <4>1
      <4>5. CASE i = 0
        BY <1>1, <1>3, <1>5, <4>1, <4>2, <4>3, <4>4, <4>5
      <4>6. CASE i # 0
        <5>1. f[i] = g[i]
          BY <3>2, <4>6
        <5> HIDE DEF k
        <5> QED
          BY <4>1, <4>2, <4>3, <4>4, <4>6, <5>1
      <4> QED
        BY <4>5, <4>6
    <3>3. \A i \in 0..n : i \in N
      <4> HIDE DEF N
      <4> QED
        BY <1>1, <3>1, <3>2, Induction
    <3>4. k = g
      <4>1. \A i \in 0..n : k[i] = g[i]
        BY <3>3
      <4> QED
        BY <1>4, <4>1
    <3> QED
      BY <1>4, <3>4
  <2> HIDE DEF k, IsFlat
  <2>7. Folded(G, b, ss) = k[n]
    BY <2>6, FoldedStages DEF n
  <2> QED
    BY <2>4, <2>5, <2>7 DEF G, b
<1> QED
  BY <1>6, <1>7

\* So it goes on with each sequence more.
LEMMA FlattenAppend ==
    ASSUME NEW T, NEW ss \in Seq(Seq(T)), NEW s \in Seq(T)
    PROVE  /\ FlattenSeq(ss) \in Seq(T)
           /\ FlattenSeq(Append(ss, s)) = FlattenSeq(ss) \o s
<1> DEFINE A == Seq(T)
           G == Gluing(T)
           b == <<>>
<1>1. /\ G \in [A -> [A -> A]] /\ b \in A /\ Append(ss, s) \in Seq(A) /\ ss \in Seq(A) /\ s \in A
      /\ \A x \in A, y \in A : G[x][y] = y \o x
  <2>1. G \in [A -> [A -> A]] /\ \A x \in A, y \in A : G[x][y] = y \o x
    BY GluingType
  <2>2. b \in A /\ ss \in Seq(A) /\ s \in A
    OBVIOUS
  <2> HIDE DEF A, G, b
  <2>3. Append(ss, s) \in Seq(A)
    BY <2>2
  <2> QED
    BY <2>1, <2>2, <2>3
<1>2. FlattenSeq(ss) = Folded(G, b, ss)
  BY FlattenFolded
<1>3. FlattenSeq(Append(ss, s)) = Folded(G, b, Append(ss, s))
  BY <1>1, FlattenFolded
<1> HIDE DEF G, b, A
<1>4. Folded(G, b, ss) \in A /\ Folded(G, b, Append(ss, s)) = G[s][Folded(G, b, ss)]
  <2>1. G \in [A -> [A -> A]] /\ b \in A /\ ss \in Seq(A) /\ s \in A
    BY <1>1
  <2> QED
    BY <2>1, FoldedAppend
<1>5. G[s][Folded(G, b, ss)] = Folded(G, b, ss) \o s
  BY <1>1, <1>4
<1> QED
  BY <1>2, <1>3, <1>4, <1>5 DEF A

\* Three sequences are put together in either way.
Associates(S) ==
    \A s \in Seq(S), t \in Seq(S), u \in Seq(S) : (s \o t) \o u = s \o (t \o u)

\* It holds of whatever elements.
LEMMA AssociatesAll ==
    ASSUME NEW S
    PROVE  Associates(S)
<1>1. ASSUME NEW s \in Seq(S), NEW t \in Seq(S), NEW u \in Seq(S)
      PROVE  (s \o t) \o u = s \o (t \o u)
  BY ConcatAssociative
<1> QED
  BY <1>1 DEF Associates

\* Each element of w replaced by its piece.
Spread(P, w) == FlattenSeq([i \in DOMAIN w |-> P[w[i]]])

\* Of nothing there are no pieces.
LEMMA SpreadEmpty ==
    ASSUME NEW P
    PROVE  Spread(P, <<>>) = <<>>
<1>1. [i \in DOMAIN <<>> |-> P[<<>>[i]]] = <<>>
  OBVIOUS
<1> QED
  BY <1>1 DEF Spread, FlattenSeq

\* One element more is one piece more.
Grows(S, T, P) ==
    \A w \in Seq(S), c \in S : /\ Spread(P, w) \in Seq(T)
                              /\ Spread(P, Append(w, c)) = Spread(P, w) \o P[c]

\* It is for every table of pieces.
LEMMA SpreadAppend ==
    ASSUME NEW S, NEW T, NEW P \in [S -> Seq(T)]
    PROVE  Grows(S, T, P)
<1> SUFFICES ASSUME NEW w \in Seq(S), NEW c \in S
             PROVE  /\ Spread(P, w) \in Seq(T)
                    /\ Spread(P, Append(w, c)) = Spread(P, w) \o P[c]
  BY DEF Grows
<1> DEFINE u == Append(w, c)
           n == Len(w)
           f == [i \in DOMAIN w |-> P[w[i]]]
           g == [i \in DOMAIN u |-> P[u[i]]]
<1>1. /\ n \in Nat /\ DOMAIN w = 1..n /\ DOMAIN u = 1..(n + 1)
      /\ \A i \in 1..n : u[i] = w[i] /\ w[i] \in S
      /\ u[n + 1] = c
  OBVIOUS
<1> HIDE DEF n, u
<1>2. f \in Seq(Seq(T)) /\ Len(f) = n /\ \A i \in 1..n : f[i] = P[w[i]]
  <2>1. f \in [1..n -> Seq(T)] /\ \A i \in 1..n : f[i] = P[w[i]]
    BY <1>1
  <2> HIDE DEF f
  <2> QED
    BY <1>1, <2>1, FunctionSeq
<1>3. g \in Seq(Seq(T)) /\ Len(g) = n + 1 /\ \A i \in 1..(n + 1) : g[i] = P[u[i]]
  <2>1. \A i \in 1..(n + 1) : u[i] \in S
    <3>1. \A i \in 1..(n + 1) : i \in 1..n \/ i = n + 1
      BY <1>1
    <3> QED
      BY <1>1, <3>1
  <2>2. g \in [1..(n + 1) -> Seq(T)] /\ \A i \in 1..(n + 1) : g[i] = P[u[i]]
    BY <1>1, <2>1
  <2>3. n + 1 \in Nat
    BY <1>1
  <2> HIDE DEF g
  <2> QED
    BY <2>2, <2>3, FunctionSeq
<1> HIDE DEF f, g
<1>4. g = Append(f, P[c])
  <2> DEFINE h == Append(f, P[c])
  <2>1. /\ h \in Seq(Seq(T)) /\ Len(h) = n + 1
        /\ \A i \in 1..n : h[i] = f[i]
        /\ h[n + 1] = P[c]
    BY <1>1, <1>2
  <2> HIDE DEF h
  <2>2. \A i \in 1..(n + 1) : g[i] = h[i]
    BY <1>1, <1>2, <1>3, <2>1
  <2> QED
    BY <1>3, <2>1, <2>2, SeqEqual DEF h
<1>5. FlattenSeq(f) \in Seq(T) /\ FlattenSeq(Append(f, P[c])) = FlattenSeq(f) \o P[c]
  BY <1>2, FlattenAppend
<1> QED
  BY <1>4, <1>5 DEF Spread, f, g, u

\* One sequence after the other is the pieces of one after those of the other.
LEMMA SpreadConcat ==
    ASSUME NEW S, NEW T, NEW P \in [S -> Seq(T)], NEW s \in Seq(S), NEW t \in Seq(S)
    PROVE  Spread(P, s \o t) = Spread(P, s) \o Spread(P, t)
<1> DEFINE N == {x \in Seq(S) : /\ Spread(P, x) \in Seq(T)
                                /\ Spread(P, s \o x) = Spread(P, s) \o Spread(P, x)}
<1>0. Spread(P, s) \in Seq(T)
  <2>1. CASE S = {}
    <3>1. s = <<>>
      BY <2>1
    <3>2. Spread(P, s) = <<>>
      BY <3>1, SpreadEmpty
    <3> QED
      BY <3>2
  <2>2. CASE S # {}
    <3>1. Grows(S, T, P)
      BY SpreadAppend
    <3> QED
      BY <2>2, <3>1 DEF Grows
  <2> QED
    BY <2>1, <2>2
<1>1. \A x \in Seq(S), c \in S : /\ Spread(P, x) \in Seq(T)
                                /\ Spread(P, Append(x, c)) = Spread(P, x) \o P[c]
  <2>1. Grows(S, T, P)
    BY SpreadAppend
  <2> QED
    BY <2>1 DEF Grows
<1>2. <<>> \in N
  <2>1. s \o <<>> = s /\ Spread(P, s) \o <<>> = Spread(P, s)
    BY <1>0
  <2>2. Spread(P, <<>>) = <<>> /\ <<>> \in Seq(S) /\ <<>> \in Seq(T)
    BY SpreadEmpty
  <2>3. Spread(P, s \o <<>>) = Spread(P, s) \o Spread(P, <<>>)
    BY <2>1, <2>2
  <2> QED
    BY <2>2, <2>3
<1>3. ASSUME NEW x \in Seq(S), NEW c \in S, x \in N
      PROVE  Append(x, c) \in N
  <2>1. s \o Append(x, c) = Append(s \o x, c) /\ s \o x \in Seq(S) /\ Append(x, c) \in Seq(S)
    OBVIOUS
  <2>2. Spread(P, x) \in Seq(T) /\ Spread(P, Append(x, c)) = Spread(P, x) \o P[c]
    BY <1>1
  <2>3. Spread(P, Append(s \o x, c)) = Spread(P, s \o x) \o P[c]
    <3> DEFINE y == s \o x
    <3>1. y \in Seq(S)
      OBVIOUS
    <3> HIDE DEF y
    <3>2. Spread(P, y) \in Seq(T) /\ Spread(P, Append(y, c)) = Spread(P, y) \o P[c]
      BY <1>1, <3>1
    <3> QED
      BY <3>2 DEF y
  <2>4. Spread(P, x) \in Seq(T) /\ P[c] \in Seq(T)
    BY <1>3
  <2>5. Spread(P, s) \o Spread(P, x) \o P[c] = Spread(P, s) \o (Spread(P, x) \o P[c])
    <3>1. Associates(T)
      BY AssociatesAll
    <3> QED
      BY <1>0, <2>4, <3>1 DEF Associates
  <2>6. Spread(P, x) \o P[c] \in Seq(T)
    BY <2>4
  <2> QED
    BY <1>3, <2>1, <2>2, <2>3, <2>5, <2>6
<1>4. t \in N
  <2> HIDE DEF N
  <2> QED
    BY <1>2, <1>3, SeqInduction
<1> QED
  BY <1>4

\* The same for all sequences: nothing, one element more, one after the other.
Spreads(S, T, P) ==
    /\ Spread(P, <<>>) = <<>>
    /\ \A w \in Seq(S) : Spread(P, w) \in Seq(T)
    /\ \A w \in Seq(S), c \in S : Spread(P, Append(w, c)) = Spread(P, w) \o P[c]
    /\ \A s \in Seq(S), t \in Seq(S) : Spread(P, s \o t) = Spread(P, s) \o Spread(P, t)

\* That holds of every table of pieces.
LEMMA SpreadAll ==
    ASSUME NEW S, NEW T, NEW P \in [S -> Seq(T)]
    PROVE  Spreads(S, T, P)
<1>1. \A w \in Seq(S), c \in S : /\ Spread(P, w) \in Seq(T)
                                /\ Spread(P, Append(w, c)) = Spread(P, w) \o P[c]
  <2>1. Grows(S, T, P)
    BY SpreadAppend
  <2> QED
    BY <2>1 DEF Grows
<1>2. ASSUME NEW w \in Seq(S)
      PROVE  Spread(P, w) \in Seq(T)
  <2>1. CASE S = {}
    <3>1. w = <<>>
      BY <2>1
    <3>2. Spread(P, w) = <<>>
      BY <3>1, SpreadEmpty
    <3> QED
      BY <3>2
  <2>2. CASE S # {}
    BY <1>1, <2>2
  <2> QED
    BY <2>1, <2>2
<1>3. \A s \in Seq(S), t \in Seq(S) : Spread(P, s \o t) = Spread(P, s) \o Spread(P, t)
  BY SpreadConcat
<1> QED
  BY <1>1, <1>2, <1>3, SpreadEmpty DEF Spreads

\* Pieces of one element are that element.
LEMMA SpreadOne ==
    ASSUME NEW S, NEW T, NEW P \in [S -> Seq(T)], NEW c \in S
    PROVE  Spread(P, <<c>>) = P[c]
<1> DEFINE none == <<>>
<1>1. none \in Seq(S) /\ <<c>> = Append(none, c) /\ P[c] \in Seq(T)
  OBVIOUS
<1>2. Spread(P, none) = <<>>
  BY SpreadEmpty
<1> HIDE DEF none
<1>3. Spread(P, Append(none, c)) = Spread(P, none) \o P[c]
  <2>1. Spreads(S, T, P)
    BY SpreadAll
  <2> QED
    BY <1>1, <2>1 DEF Spreads
<1>4. <<>> \o P[c] = P[c]
  BY <1>1
<1> QED
  BY <1>1, <1>2, <1>3, <1>4

\* Pieces of pieces are pieces.
Joins(S, T, P, R, Q) == \A c \in S : P[c] \in Seq(T) /\ Q[c] = Spread(R, P[c])

\* So the pieces of pieces come from one table.
LEMMA SpreadTwice ==
    ASSUME NEW S, NEW T, NEW U, NEW P, NEW R, NEW Q,
           Spreads(S, T, P), Spreads(T, U, R), Spreads(S, U, Q), Joins(S, T, P, R, Q)
    PROVE  \A w \in Seq(S) : Spread(R, Spread(P, w)) = Spread(Q, w)
<1> DEFINE N == {x \in Seq(S) : Spread(R, Spread(P, x)) = Spread(Q, x)}
<1>2. \A c \in S : Q[c] = Spread(R, P[c]) /\ P[c] \in Seq(T)
  BY DEF Joins
<1>1. Spreads(S, T, P) /\ Spreads(T, U, R) /\ Spreads(S, U, Q)
  OBVIOUS
<1>3. <<>> \in N
  BY SpreadEmpty
<1>4. ASSUME NEW x \in Seq(S), NEW c \in S, x \in N
      PROVE  Append(x, c) \in N
  <2>1. Spread(P, x) \in Seq(T) /\ Spread(P, Append(x, c)) = Spread(P, x) \o P[c]
    BY <1>1 DEF Spreads
  <2>2. Spread(R, Spread(P, x) \o P[c]) = Spread(R, Spread(P, x)) \o Spread(R, P[c])
    BY <1>2, <1>1, <2>1 DEF Spreads
  <2>3. Spread(Q, Append(x, c)) = Spread(Q, x) \o Q[c]
    BY <1>1 DEF Spreads
  <2>4. Append(x, c) \in Seq(S)
    OBVIOUS
  <2> QED
    BY <1>2, <1>4, <2>1, <2>2, <2>3, <2>4
<1> HIDE DEF N
<1>5. \A w \in Seq(S) : w \in N
  BY <1>3, <1>4, SeqInduction
<1> QED
  BY <1>5 DEF N

-----------------------------------------------------------------------------
(* File transfers.                                                          *)

Refusals == {"none", "BadParameter", "NotImplemented"}
Lists == [error : Refusals, input : Seq(Paths), output : Seq(Paths),
          remaps : Seq(Paths \X Paths)]

Adding == [e \in Entries |-> [acc \in Lists |-> AddTransfer(acc, e)]]

\* An entry takes lists to lists.
LEMMA AddTransferType ==
    ASSUME NEW acc \in Lists, NEW e \in Entries
    PROVE  AddTransfer(acc, e) \in Lists
<1>1. Refusal(e) \in Refusals /\ e.left \in Paths /\ e.right \in Paths
  BY DEF Refusal, Refusals, Entries
<1>2. /\ Append(acc.input, e.left) \in Seq(Paths) /\ Append(acc.output, e.right) \in Seq(Paths)
      /\ Append(acc.remaps, <<e.left, e.right>>) \in Seq(Paths \X Paths)
  BY <1>1 DEF Lists
<1> QED
  BY <1>1, <1>2 DEF Lists, AddTransfer

\* Transfers is the fold of that table.
LEMMA TransfersFolded ==
    ASSUME NEW es \in Seq(Entries)
    PROVE  /\ Adding \in [Entries -> [Lists -> Lists]] /\ NoTransfer \in Lists
           /\ Transfers(es) = Folded(Adding, NoTransfer, es)
<1>1. Adding \in [Entries -> [Lists -> Lists]] /\ NoTransfer \in Lists
  <2>1. <<>> \in Seq(Paths) /\ <<>> \in Seq(Paths \X Paths) /\ "none" \in Refusals
    BY DEF Refusals
  <2>2. NoTransfer \in Lists
    BY <2>1 DEF NoTransfer, Lists
  <2> QED
    BY <2>2, AddTransferType DEF Adding
<1> DEFINE IsIter(f) ==
        f = [x \in SUBSET DOMAIN es |->
                IF x = {} THEN NoTransfer ELSE AddTransfer(f[x \ {Max(x)}], es[Max(x)])]
<1>2. \E f : IsIter(f)
  <2>1. PICK f : f \in Iterators(Adding, Lists, NoTransfer, es)
    BY <1>1, IteratorExists
  <2>2. IsIter(f)
    BY <2>1, LastOf DEF Adding, Iterators
  <2> HIDE DEF IsIter
  <2> QED
    BY <2>2
<1>3. PICK f : IsIter(f) /\ Transfers(es) = f[DOMAIN es]
  BY <1>2 DEF Transfers, FoldLeft, MapThenFoldSet
<1>4. Iterates(Adding, Lists, NoTransfer, es, f)
  BY <1>3, LastOf DEF Adding, Iterates
<1> HIDE DEF IsIter
<1> QED
  BY <1>1, <1>3, <1>4, LastOf, IteratorFolds

\* The entries that are refused, and what the lists hold if there is none.
Refused(es) == {i \in 1..Len(es) : Refusal(es[i]) # "none"}

Carried(es, acc) ==
    /\ acc.error = "none"
    /\ Range(acc.input) = {e.left : e \in {d \in Range(es) : d.op = ">"}}
    /\ Range(acc.output) = {e.right : e \in {d \in Range(es) : d.op = "<"}}
    /\ Range(acc.remaps) =
          {<<e.left, e.right>> :
              e \in {d \in Range(es) : d.op = "<" /\ d.left.leaf # d.right.leaf}}

\* What the lists hold after the entries es.
Listed(es, acc) ==
    /\ acc \in Lists
    /\ Refused(es) = {} => Carried(es, acc)
    /\ Refused(es) # {} =>
          \E i \in Refused(es) : (\A j \in Refused(es) : i <= j) /\ acc.error = Refusal(es[i])

\* Range of a sequence with one element more.
LEMMA RangeAppend ==
    ASSUME NEW T, NEW s \in Seq(T), NEW e \in T
    PROVE  Range(Append(s, e)) = Range(s) \cup {e}
<1>1. /\ DOMAIN Append(s, e) = 1..(Len(s) + 1) /\ DOMAIN s = 1..Len(s)
      /\ Len(s) \in Nat
      /\ \A i \in 1..Len(s) : Append(s, e)[i] = s[i]
      /\ Append(s, e)[Len(s) + 1] = e
  OBVIOUS
<1> DEFINE u == Append(s, e)
<1> HIDE DEF u
<1>2. Range(u) = Range(s) \cup {e}
  BY <1>1 DEF Range, u
<1> QED
  BY <1>2 DEF u

\* An entry more keeps what the lists hold true to the entries.
LEMMA EntryListed ==
    ASSUME NEW es \in Seq(Entries), NEW e \in Entries, NEW acc, Listed(es, acc)
    PROVE  Listed(Append(es, e), AddTransfer(acc, e))
<1> DEFINE u == Append(es, e)
           n == Len(es)
           new == AddTransfer(acc, e)
<1>1. /\ n \in Nat /\ Len(u) = n + 1 /\ u[n + 1] = e
      /\ \A i \in 1..n : u[i] = es[i]
  OBVIOUS
<1>2. Range(u) = Range(es) \cup {e}
  BY RangeAppend
<1>3. acc \in Lists /\ new \in Lists
  BY AddTransferType DEF Listed
<1>4. /\ e.left \in Paths /\ e.right \in Paths /\ Refusal(e) \in Refusals
      /\ e.op \in {"bad", ">", "<", ">>"}
  BY DEF Entries, Refusal, Refusals
<1> HIDE DEF u
<1>5. Refused(es) \subseteq Refused(u) /\ \A i \in Refused(u) : i \in Refused(es) \/ i = n + 1
  BY <1>1 DEF Refused
<1>6. CASE Refused(es) # {}
  <2>1. PICK i \in Refused(es) : (\A j \in Refused(es) : i <= j) /\ acc.error = Refusal(es[i])
    BY <1>6 DEF Listed
  <2>2. i \in Refused(u) /\ \A j \in Refused(u) : i <= j
    <3>1. i \in 1..n
      BY DEF Refused
    <3> QED
      BY <1>1, <1>5, <2>1, <3>1
  <2>3. new.error = Refusal(u[i])
    <3>1. i \in 1..n /\ acc.error # "none"
      BY <2>1 DEF Refused
    <3>2. new = acc
      BY <3>1 DEF AddTransfer
    <3> QED
      BY <1>1, <2>1, <3>1, <3>2
  <2> HIDE DEF n, new
  <2> QED
    BY <1>3, <2>2, <2>3 DEF Listed, new, u
<1>7. CASE Refused(es) = {} /\ Refusal(e) # "none"
  <2>1. new.error = Refusal(u[n + 1])
    <3>1. acc.error = "none"
      BY <1>7 DEF Listed, Carried
    <3> QED
      BY <1>1, <1>3, <1>7, <3>1 DEF AddTransfer, Lists
  <2>2. n + 1 \in Refused(u) /\ \A j \in Refused(u) : n + 1 <= j
    BY <1>1, <1>5, <1>7 DEF Refused
  <2> HIDE DEF n, new
  <2> QED
    BY <1>3, <2>1, <2>2 DEF Listed, new, u
<1>8. CASE Refused(es) = {} /\ Refusal(e) = "none"
  <2>1. Refused(u) = {}
    BY <1>1, <1>5, <1>8 DEF Refused
  <2>2. Carried(es, acc)
    BY <1>8 DEF Listed
  <2>3. /\ acc.input \in Seq(Paths) /\ acc.output \in Seq(Paths)
        /\ acc.remaps \in Seq(Paths \X Paths) /\ <<e.left, e.right>> \in Paths \X Paths
    BY <1>3, <1>4 DEF Lists
  <2>4. Range(Append(acc.input, e.left)) = Range(acc.input) \cup {e.left}
    BY <1>4, <2>3, RangeAppend
  <2>5. Range(Append(acc.output, e.right)) = Range(acc.output) \cup {e.right}
    BY <1>4, <2>3, RangeAppend
  <2>6. Range(Append(acc.remaps, <<e.left, e.right>>)) =
              Range(acc.remaps) \cup {<<e.left, e.right>>}
    BY <2>3, RangeAppend
  <2>7. e.op \in {">", "<"}
    BY <1>4, <1>8 DEF Refusal
  <2>8. /\ new.error = "none"
        /\ new.input = IF e.op = ">" THEN Append(acc.input, e.left) ELSE acc.input
        /\ new.output = IF e.op = "<" THEN Append(acc.output, e.right) ELSE acc.output
        /\ new.remaps = IF e.op = "<" /\ e.left.leaf # e.right.leaf
                        THEN Append(acc.remaps, <<e.left, e.right>>) ELSE acc.remaps
    BY <1>3, <1>8, <2>2, <2>7 DEF AddTransfer, Lists, Carried
  <2> HIDE DEF n, new
  <2>9. Carried(u, new)
    <3>1. Range(new.input) = {d.left : d \in {d \in Range(u) : d.op = ">"}}
      <4>1. CASE e.op = ">"
        <5>1. {d.left : d \in {d \in Range(u) : d.op = ">"}} =
                 {d.left : d \in {d \in Range(es) : d.op = ">"}} \cup {e.left}
          BY <1>2, <4>1
        <5> QED
          BY <2>2, <2>4, <2>8, <4>1, <5>1 DEF Carried
      <4>2. CASE e.op # ">"
        <5>1. {d \in Range(u) : d.op = ">"} = {d \in Range(es) : d.op = ">"}
          BY <1>2, <4>2
        <5> QED
          BY <2>2, <2>8, <4>2, <5>1 DEF Carried
      <4> QED
        BY <4>1, <4>2
    <3>2. Range(new.output) = {d.right : d \in {d \in Range(u) : d.op = "<"}}
      BY <1>2, <2>2, <2>5, <2>7, <2>8 DEF Carried
    <3>3. Range(new.remaps) =
              {<<d.left, d.right>> :
                  d \in {d \in Range(u) : d.op = "<" /\ d.left.leaf # d.right.leaf}}
      <4> DEFINE Renames(d) == d.op = "<" /\ d.left.leaf # d.right.leaf
      <4>1. CASE Renames(e)
        <5>1. {<<d.left, d.right>> : d \in {d \in Range(u) : Renames(d)}} =
                 {<<d.left, d.right>> : d \in {d \in Range(es) : Renames(d)}}
                    \cup {<<e.left, e.right>>}
          BY <1>2, <4>1
        <5> QED
          BY <2>2, <2>6, <2>8, <4>1, <5>1 DEF Carried
      <4>2. CASE ~Renames(e)
        <5>1. {d \in Range(u) : Renames(d)} = {d \in Range(es) : Renames(d)}
          BY <1>2, <4>2
        <5> QED
          BY <2>2, <2>8, <4>2, <5>1 DEF Carried
      <4> QED
        BY <4>1, <4>2
    <3> QED
      BY <2>8, <3>1, <3>2, <3>3 DEF Carried
  <2> QED
    BY <1>3, <2>1, <2>9 DEF Listed, new, u
<1> QED
  BY <1>6, <1>7, <1>8

\* So the lists are true to the entries, however many there are.
LEMMA TransfersListed ==
    ASSUME NEW es \in Seq(Entries)
    PROVE  Listed(es, Transfers(es))
<1> DEFINE S == {s \in Seq(Entries) : Listed(s, Folded(Adding, NoTransfer, s))}
<1>0. Adding \in [Entries -> [Lists -> Lists]] /\ NoTransfer \in Lists
  BY TransfersFolded
<1>1. <<>> \in S
  <2>1. Refused(<<>>) = {} /\ Range(<<>>) = {}
    BY DEF Refused, Range
  <2>2. Carried(<<>>, NoTransfer)
    BY <2>1 DEF Carried, NoTransfer
  <2>3. Listed(<<>>, NoTransfer)
    BY <1>0, <2>1, <2>2 DEF Listed
  <2> QED
    BY <2>3, FoldedEmpty
<1>2. ASSUME NEW s \in Seq(Entries), NEW e \in Entries, s \in S
      PROVE  Append(s, e) \in S
  <2> DEFINE acc == Folded(Adding, NoTransfer, s)
  <2>1. acc \in Lists /\ Folded(Adding, NoTransfer, Append(s, e)) = Adding[e][acc]
    BY <1>0, FoldedAppend
  <2>2. Adding[e][acc] = AddTransfer(acc, e)
    BY <2>1 DEF Adding
  <2>3. Listed(Append(s, e), AddTransfer(acc, e))
    BY <1>2, EntryListed
  <2> QED
    BY <2>1, <2>2, <2>3
<1>3. es \in S
  <2> HIDE DEF S
  <2> QED
    BY <1>1, <1>2, SeqInduction
<1> QED
  BY <1>3, TransfersFolded

\* Where Condor puts the output file f.
LEMMA DeliveredByPairs ==
    ASSUME NEW es \in Seq(Entries), NEW acc \in Lists, Carried(es, acc), NEW f
    PROVE  LET found == {d \in Range(es) : d.op = "<" /\ d.left.leaf # d.right.leaf /\ d.left = f}
           IN  /\ found = {} => Delivered(acc, f) = [f EXCEPT !.dir = "."]
               /\ found # {} => \E d \in found : Delivered(acc, f) = d.right
<1> DEFINE found == {d \in Range(es) : d.op = "<" /\ d.left.leaf # d.right.leaf /\ d.left = f}
           remaps == acc.remaps
           pairs == {r \in Range(remaps) : r[1] = f}
<1>1. Range(remaps) = {<<d.left, d.right>> :
                          d \in {d \in Range(es) : d.op = "<" /\ d.left.leaf # d.right.leaf}}
  BY DEF Carried
<1>2. pairs = {<<d.left, d.right>> : d \in found}
  BY <1>1
<1>3. (\E i \in DOMAIN remaps : remaps[i][1] = f) <=> pairs # {}
  BY DEF Range
<1> HIDE DEF found, remaps
<1>4. CASE found = {}
  <2>1. Delivered(acc, f) = [f EXCEPT !.dir = "."]
    BY <1>2, <1>3, <1>4 DEF Delivered, remaps
  <2> QED
    BY <1>4, <2>1 DEF found
<1>5. CASE found # {}
  <2>1. pairs # {}
    BY <1>2, <1>5
  <2> DEFINE r == CHOOSE r \in Range(remaps) : r[1] = f
  <2>2. r \in pairs
    BY <2>1
  <2>3. Delivered(acc, f) = r[2]
    BY <1>3, <2>1 DEF Delivered, remaps
  <2> HIDE DEF r
  <2>4. \E d \in found : r[2] = d.right
    BY <1>2, <2>2
  <2> QED
    BY <1>5, <2>3, <2>4 DEF found
<1> QED
  BY <1>4, <1>5

\* TransfersCarried for one input.
LEMMA TransfersOfInput ==
    ASSUME NEW es \in Seq(Entries), Translated("transfers", es, Transfers(es))
    PROVE  TransfersCarried'
<1> DEFINE acc == Transfers(es)
           inputs == {e \in Range(es) : e.op = ">"}
           outputs == {e \in Range(es) : e.op = "<"}
           renamed == {e \in outputs : e.left.leaf # e.right.leaf}
<1>1. given' = es /\ got' = acc
  BY DEF Translated
<1>2. Listed(es, acc) /\ DOMAIN es = 1..Len(es) /\ Len(es) \in Nat
  BY TransfersListed
<1> HIDE DEF acc
<1>3. CASE Refused(es) # {}
  <2>1. PICK i \in Refused(es) : (\A j \in Refused(es) : i <= j) /\ acc.error = Refusal(es[i])
    BY <1>2, <1>3 DEF Listed
  <2>2. Refused(es) \subseteq Nat
    BY <1>2 DEF Refused
  <2>3. (CHOOSE k \in Refused(es) : \A j \in Refused(es) : k <= j) = i
    BY <2>1, <2>2
  <2>4. {k \in DOMAIN es : Refusal(es[k]) # "none"} = Refused(es)
    BY <1>2 DEF Refused
  <2> QED
    BY <1>1, <1>3, <2>1, <2>3, <2>4 DEF TransfersCarried
<1>4. CASE Refused(es) = {}
  <2>1. {k \in DOMAIN es : Refusal(es[k]) # "none"} = {}
    BY <1>2, <1>4 DEF Refused
  <2>2. Carried(es, acc) /\ acc \in Lists
    BY <1>2, <1>4 DEF Listed
  <2>3. {InJobDir(f) : f \in Range(acc.input)} = {e.right.leaf : e \in inputs}
    <3>1. \A e \in inputs : e.left.leaf = e.right.leaf
      <4>1. ASSUME NEW e \in inputs
            PROVE  e.left.leaf = e.right.leaf
        <5>1. PICK k \in DOMAIN es : es[k] = e
          BY DEF Range
        <5>2. Refusal(e) = "none"
          BY <2>1, <5>1
        <5> QED
          BY <5>2 DEF Refusal
      <4> QED
        BY <4>1
    <3>2. Range(acc.input) = {e.left : e \in inputs}
      BY <2>2 DEF Carried
    <3> HIDE DEF inputs
    <3> QED
      BY <3>1, <3>2 DEF InJobDir
  <2>4. ASSUME NEW e \in outputs
        PROVE  LET found == {d \in renamed : d.left = e.right}
                   back == {d \in found : d.right = e.left}
               IN  IF found = {}
                   THEN Delivered(acc, e.right) = e.left <=> e.left = [e.right EXCEPT !.dir = "."]
                   ELSE /\ back = found => Delivered(acc, e.right) = e.left
                        /\ back = {} => Delivered(acc, e.right) # e.left
    <3> DEFINE found == {d \in renamed : d.left = e.right}
               back == {d \in found : d.right = e.left}
    <3>1. found = {d \in Range(es) : d.op = "<" /\ d.left.leaf # d.right.leaf /\ d.left = e.right}
      OBVIOUS
    <3>2. /\ found = {} => Delivered(acc, e.right) = [e.right EXCEPT !.dir = "."]
          /\ found # {} => \E d \in found : Delivered(acc, e.right) = d.right
      BY <2>2, <3>1, DeliveredByPairs
    <3> HIDE DEF found
    <3>3. found # {} => /\ back = found => Delivered(acc, e.right) = e.left
                        /\ back = {} => Delivered(acc, e.right) # e.left
      BY <3>2
    <3> QED
      BY <3>2, <3>3 DEF found
  <2> QED
    BY <1>1, <2>1, <2>2, <2>3, <2>4 DEF TransfersCarried, Carried
<1> QED
  BY <1>3, <1>4

-----------------------------------------------------------------------------
(* Requirements: what a text means for Condor, read token by token.         *)

Atoms == Hosts \cup Tests \cup {"", "value"}
Symbols == Tokens \cup Atoms
Levels == [or : BOOLEAN, and : BOOLEAN]
Stacks == Seq(Levels)

Reading(facts) == [tok \in Symbols |-> [st \in Stacks |-> ReadToken(st, tok, facts)]]

\* A stack and the level on top of it.
LEMMA OnTop ==
    ASSUME NEW l \in Levels, NEW st \in Stacks
    PROVE  /\ <<l>> \o st \in Stacks
           /\ Len(<<l>> \o st) = Len(st) + 1 /\ Len(st) \in Nat
           /\ Head(<<l>> \o st) = l /\ Tail(<<l>> \o st) = st
           /\ (<<l>> \o st)[1] = l
           /\ \A k \in Levels : [<<l>> \o st EXCEPT ![1] = k] = <<k>> \o st
<1>1. /\ st \in Seq(Levels) /\ <<l>> \in Seq(Levels) /\ Len(<<l>>) = 1
      /\ <<l>>[1] = l
  BY DEF Stacks
<1>2. /\ <<l>> \o st \in Seq(Levels)
      /\ Len(<<l>> \o st) = Len(st) + 1 /\ Len(st) \in Nat
      /\ (<<l>> \o st)[1] = l
      /\ \A i \in 2..(Len(st) + 1) : (<<l>> \o st)[i] = st[i - 1]
  BY <1>1
<1>3. Head(<<l>> \o st) = l
  BY <1>2
<1>4. Tail(<<l>> \o st) = st
  <2> DEFINE u == <<l>> \o st
  <2> HIDE DEF u
  <2>1. /\ u \in Seq(Levels) /\ Len(u) = Len(st) + 1 /\ Len(st) \in Nat
        /\ \A i \in 2..(Len(st) + 1) : u[i] = st[i - 1]
    BY <1>2 DEF u
  <2>2. Tail(u) \in Seq(Levels) /\ Len(Tail(u)) = Len(st)
        /\ \A i \in 1..Len(st) : Tail(u)[i] = u[i + 1]
    BY <2>1, HeadTailProperties
  <2>3. \A i \in 1..Len(st) : Tail(u)[i] = st[i]
    BY <2>1, <2>2
  <2>4. Tail(u) = st
    BY <1>1, <2>2, <2>3, SeqEqual
  <2> QED
    BY <2>4 DEF u
<1>5. ASSUME NEW k \in Levels
      PROVE  [<<l>> \o st EXCEPT ![1] = k] = <<k>> \o st
  <2> DEFINE u == <<l>> \o st
             v == <<k>> \o st
  <2>1. /\ v \in Seq(Levels) /\ Len(v) = Len(st) + 1 /\ v[1] = k
        /\ \A i \in 2..(Len(st) + 1) : v[i] = st[i - 1]
    BY <1>1
  <2>2. /\ u \in Seq(Levels) /\ Len(u) = Len(st) + 1 /\ Len(st) \in Nat
        /\ \A i \in 2..(Len(st) + 1) : u[i] = st[i - 1]
    BY <1>2
  <2> HIDE DEF u, v
  <2>3. /\ [u EXCEPT ![1] = k] \in Seq(Levels) /\ Len([u EXCEPT ![1] = k]) = Len(u)
        /\ \A i \in 1..Len(u) : [u EXCEPT ![1] = k][i] = IF i = 1 THEN k ELSE u[i]
    BY <2>2, ExceptSeq
  <2>4. \A i \in 1..Len(u) : [u EXCEPT ![1] = k][i] = v[i]
    BY <2>1, <2>2, <2>3
  <2>5. [u EXCEPT ![1] = k] = v
    BY <2>1, <2>2, <2>3, <2>4, SeqEqual
  <2> QED
    BY <2>5 DEF u, v
<1> QED
  BY <1>2, <1>3, <1>4, <1>5 DEF Stacks

\* The value of a level is a Boolean.
LEMMA ValueOfType ==
    ASSUME NEW l \in Levels
    PROVE  ValueOf(l) \in BOOLEAN
BY DEF ValueOf, Levels

\* The operator And changes only the level on top.
LEMMA AndOnTop ==
    ASSUME NEW l \in Levels, NEW st \in Stacks, NEW v \in BOOLEAN
    PROVE  /\ [or |-> l.or, and |-> l.and /\ v] \in Levels
           /\ And(<<l>> \o st, v) = <<[or |-> l.or, and |-> l.and /\ v]>> \o st
<1>1. [or |-> l.or, and |-> l.and /\ v] \in Levels
  BY DEF Levels
<1>2. [l EXCEPT !.and = l.and /\ v] = [or |-> l.or, and |-> l.and /\ v]
  BY DEF Levels
<1> DEFINE u == <<l>> \o st
           k == [or |-> l.or, and |-> l.and /\ v]
<1>3. And(u, v) = [u EXCEPT ![1] = [u[1] EXCEPT !.and = u[1].and /\ v]]
  BY DEF And
<1>4. u[1] = l
  BY OnTop
<1>5. And(u, v) = [u EXCEPT ![1] = k]
  BY <1>2, <1>3, <1>4
<1>6. [u EXCEPT ![1] = k] = <<k>> \o st
  <2> HIDE DEF k
  <2> QED
    BY <1>1, OnTop DEF k
<1> QED
  BY <1>1, <1>5, <1>6

\* A token takes stacks of levels to stacks of levels.
LEMMA ReadTokenType ==
    ASSUME NEW st \in Stacks, NEW tok, NEW facts
    PROVE  ReadToken(st, tok, facts) \in Stacks
<1>1. Level \in Levels
  BY DEF Level, Levels
<1>2. CASE st = <<>>
  <2>1. \A v \in BOOLEAN : And(st, v) = <<>>
    BY <1>2 DEF And
  <2>2. <<Level>> \o st \in Stacks
    BY <1>1, OnTop
  <2>3. [st EXCEPT ![1] = [or |-> ValueOf(st[1]), and |-> TRUE]] = <<>>
    BY <1>2
  <2>4. ~(Len(st) > 1) /\ (tok \in facts) \in BOOLEAN
    BY <1>2
  <2> QED
    BY <1>2, <2>1, <2>2, <2>3, <2>4 DEF ReadToken
<1>3. CASE st # <<>>
  <2>1. PICK l \in Levels, t \in Stacks : st = <<l>> \o t
    <3>1. st = <<Head(st)>> \o Tail(st) /\ Head(st) \in Levels /\ Tail(st) \in Stacks
      BY <1>3 DEF Stacks
    <3> QED
      BY <3>1
  <2>2. ASSUME NEW v \in BOOLEAN
        PROVE  And(st, v) \in Stacks
    <3>1. And(<<l>> \o t, v) = <<[or |-> l.or, and |-> l.and /\ v]>> \o t
      BY AndOnTop
    <3>2. <<[or |-> l.or, and |-> l.and /\ v]>> \o t \in Stacks
      BY AndOnTop, OnTop
    <3> QED
      BY <2>1, <3>1, <3>2
  <2>3. <<Level>> \o st \in Stacks
    BY <1>1, OnTop
  <2>4. [st EXCEPT ![1] = [or |-> ValueOf(st[1]), and |-> TRUE]] \in Stacks
    <3>1. st[1] = l /\ [or |-> ValueOf(l), and |-> TRUE] \in Levels
      BY <2>1, OnTop, ValueOfType DEF Levels
    <3>2. \A k \in Levels : [<<l>> \o t EXCEPT ![1] = k] = <<k>> \o t /\ <<k>> \o t \in Stacks
      BY OnTop
    <3> DEFINE k == [or |-> ValueOf(l), and |-> TRUE]
    <3>3. [st EXCEPT ![1] = k] \in Stacks
      <4> HIDE DEF k
      <4> QED
        BY <2>1, <3>1, <3>2 DEF k
    <3> QED
      BY <3>1, <3>3
  <2>5. Len(st) > 1 => And(Tail(st), ValueOf(Head(st))) \in Stacks
    <3> SUFFICES ASSUME Len(st) > 1
                 PROVE  And(Tail(st), ValueOf(Head(st))) \in Stacks
      OBVIOUS
    <3>1. Tail(st) = t /\ Head(st) = l /\ Len(t) > 0
      BY <2>1, OnTop
    <3>2. PICK m \in Levels, u \in Stacks : t = <<m>> \o u
      <4>1. t = <<Head(t)>> \o Tail(t) /\ Head(t) \in Levels /\ Tail(t) \in Stacks
        BY <3>1 DEF Stacks
      <4> QED
        BY <4>1
    <3> DEFINE v == ValueOf(l)
    <3>3. v \in BOOLEAN
      BY ValueOfType
    <3> HIDE DEF v
    <3>4. And(<<m>> \o u, v) = <<[or |-> m.or, and |-> m.and /\ v]>> \o u
      BY <3>3, AndOnTop
    <3>5. <<[or |-> m.or, and |-> m.and /\ v]>> \o u \in Stacks
      BY <3>3, AndOnTop, OnTop
    <3> QED
      BY <3>1, <3>2, <3>4, <3>5 DEF v
  <2>6. (tok \in facts) \in BOOLEAN
    OBVIOUS
  <2> QED
    BY <2>2, <2>3, <2>4, <2>5, <2>6 DEF ReadToken
<1> QED
  BY <1>2, <1>3

\* So it has a table.
LEMMA ReadingType ==
    ASSUME NEW facts
    PROVE  Reading(facts) \in [Symbols -> [Stacks -> Stacks]]
BY ReadTokenType DEF Reading

Read(facts, st, text) == Folded(Reading(facts), st, text)

\* Text is read from where the text before it has led.
LEMMA ReadOn ==
    ASSUME NEW facts, NEW st \in Stacks, NEW s \in Seq(Symbols), NEW t \in Seq(Symbols)
    PROVE  /\ Read(facts, st, s) \in Stacks
           /\ Read(facts, st, s \o t) = Read(facts, Read(facts, st, s), t)
<1> DEFINE R == Reading(facts)
<1>1. R \in [Symbols -> [Stacks -> Stacks]]
  BY ReadingType
<1> HIDE DEF R
<1>2. Folded(R, st, s) \in Stacks
  <2>1. PICK tok : tok \in Symbols
    BY DEF Symbols, Tokens
  <2> QED
    BY <1>1, <2>1, FoldedAppend
<1>3. Folded(R, st, s \o t) = Folded(R, Folded(R, st, s), t)
  BY <1>1, FoldedConcat
<1> QED
  BY <1>2, <1>3 DEF R, Read

\* A single token is read as ReadToken says.
LEMMA ReadOne ==
    ASSUME NEW facts, NEW st \in Stacks, NEW tok \in Symbols
    PROVE  Read(facts, st, <<tok>>) = ReadToken(st, tok, facts)
<1> DEFINE R == Reading(facts)
           none == <<>>
<1>1. R \in [Symbols -> [Stacks -> Stacks]] /\ none \in Seq(Symbols)
  BY ReadingType
<1>2. <<tok>> = Append(none, tok)
  OBVIOUS
<1>3. Folded(R, st, none) = st
  BY FoldedEmpty
<1> HIDE DEF R, none
<1>4. Folded(R, st, Append(none, tok)) = R[tok][Folded(R, st, none)]
  BY <1>1, FoldedAppend
<1>5. R[tok][st] = ReadToken(st, tok, facts)
  BY DEF R, Reading
<1> QED
  BY <1>2, <1>3, <1>4, <1>5 DEF R, Read

\* The value of a text that leaves the levels below it alone.
PartValue(facts, p) == ValueOf(Head(Read(facts, <<Level>>, p)))

IsPart(facts, p) ==
    /\ p \in Seq(Symbols)
    /\ PartValue(facts, p) \in BOOLEAN
    /\ \A st \in Stacks : \E l \in Levels :
          /\ ValueOf(l) = PartValue(facts, p)
          /\ Read(facts, <<Level>> \o st, p) = <<l>> \o st

\* The level with one more in its conjunction.
Anded(level, v) == [or |-> level.or, and |-> level.and /\ v]

\* What the tokens do to the level on top.
LEMMA OpenRead ==
    ASSUME NEW facts, NEW st \in Stacks
    PROVE  ReadToken(st, "(", facts) = <<Level>> \o st
BY DEF ReadToken

\* A closing parenthesis adds the value of its level to the one below.
LEMMA CloseRead ==
    ASSUME NEW facts, NEW k \in Levels, NEW l \in Levels, NEW st \in Stacks
    PROVE  ReadToken(<<k>> \o (<<l>> \o st), ")", facts) =
               <<[or |-> l.or, and |-> l.and /\ ValueOf(k)]>> \o st
<1> DEFINE u == <<l>> \o st
           v == ValueOf(k)
<1>1. u \in Stacks /\ Len(u) > 0
  BY OnTop
<1>2. Head(<<k>> \o u) = k /\ Tail(<<k>> \o u) = u /\ Len(<<k>> \o u) > 1
  <2> HIDE DEF u
  <2> QED
    BY <1>1, OnTop
<1>3. ReadToken(<<k>> \o u, ")", facts) = And(u, v)
  <2> HIDE DEF u
  <2> QED
    BY <1>2 DEF ReadToken
<1>4. v \in BOOLEAN
  BY ValueOfType
<1>5. And(u, v) = <<[or |-> l.or, and |-> l.and /\ v]>> \o st
  <2> HIDE DEF v
  <2> QED
    BY <1>4, AndOnTop
<1> QED
  BY <1>3, <1>5

\* What the operators do to the level on top.
LEMMA OperatorRead ==
    ASSUME NEW facts, NEW l \in Levels, NEW st \in Stacks
    PROVE  /\ ReadToken(<<l>> \o st, "&&", facts) = <<l>> \o st
           /\ ReadToken(<<l>> \o st, "||", facts) = <<[or |-> ValueOf(l), and |-> TRUE]>> \o st
<1>1. ReadToken(<<l>> \o st, "&&", facts) = <<l>> \o st
  BY DEF ReadToken
<1>2. ReadToken(<<l>> \o st, "||", facts) = <<[or |-> ValueOf(l), and |-> TRUE]>> \o st
  <2> DEFINE u == <<l>> \o st
             k == [or |-> ValueOf(l), and |-> TRUE]
  <2>1. u[1] = l
    BY OnTop
  <2>2. k \in Levels
    BY ValueOfType DEF Levels
  <2>3. [u EXCEPT ![1] = k] = <<k>> \o st
    <3> HIDE DEF k
    <3> QED
      BY <2>2, OnTop
  <2>4. ReadToken(u, "||", facts) = [u EXCEPT ![1] = [or |-> ValueOf(u[1]), and |-> TRUE]]
    BY DEF ReadToken
  <2> QED
    BY <2>1, <2>3, <2>4
<1> QED
  BY <1>1, <1>2

\* What a name does to it.
LEMMA AtomRead ==
    ASSUME NEW facts, NEW l \in Levels, NEW st \in Stacks, NEW a \in Atoms
    PROVE  ReadToken(<<l>> \o st, a, facts) =
               <<[or |-> l.or, and |-> l.and /\ a \in facts]>> \o st
<1>1. a \notin Tokens
  BY HostsAssumption DEF Atoms, Tokens, Tests
<1>2. ReadToken(<<l>> \o st, a, facts) = And(<<l>> \o st, a \in facts)
  BY <1>1 DEF ReadToken, Tokens
<1> DEFINE v == a \in facts
<1>3. v \in BOOLEAN
  OBVIOUS
<1> HIDE DEF v
<1>4. And(<<l>> \o st, v) = <<[or |-> l.or, and |-> l.and /\ v]>> \o st
  BY <1>3, AndOnTop
<1> QED
  BY <1>2, <1>4 DEF v

\* A part in parentheses counts as one atom.
LEMMA ParenthesesRead ==
    ASSUME NEW facts, NEW p, IsPart(facts, p), NEW l \in Levels, NEW st \in Stacks
    PROVE  /\ <<"(">> \o p \o <<")">> \in Seq(Symbols)
           /\ Read(facts, <<l>> \o st, <<"(">> \o p \o <<")">>) =
                 <<Anded(l, PartValue(facts, p))>> \o st
<1> DEFINE u == <<l>> \o st
           open == <<"(">>
           close == <<")">>
<1>1. /\ p \in Seq(Symbols) /\ "(" \in Symbols /\ ")" \in Symbols
      /\ open \in Seq(Symbols) /\ close \in Seq(Symbols)
      /\ open \o p \in Seq(Symbols) /\ open \o p \o close \in Seq(Symbols)
  BY DEF IsPart, Symbols, Tokens
<1>2. u \in Stacks
  BY OnTop
<1>3. PICK k \in Levels : /\ ValueOf(k) = PartValue(facts, p)
                          /\ Read(facts, <<Level>> \o u, p) = <<k>> \o u
  BY <1>2 DEF IsPart
<1>4. Read(facts, u, open) = <<Level>> \o u
  <2> HIDE DEF u
  <2>1. Read(facts, u, open) = ReadToken(u, "(", facts)
    BY <1>1, <1>2, ReadOne
  <2> QED
    BY <1>2, <2>1, OpenRead
<1>5. ReadToken(<<k>> \o u, ")", facts) = <<[or |-> l.or, and |-> l.and /\ ValueOf(k)]>> \o st
  BY CloseRead
<1> DEFINE v == <<k>> \o u
<1>6. v \in Stacks
  BY <1>2, OnTop
<1>7. Read(facts, v, close) = ReadToken(v, ")", facts)
  <2> HIDE DEF v
  <2> QED
    BY <1>1, <1>6, ReadOne
<1> HIDE DEF u, open, close
<1>8. Read(facts, u, open \o p) = v
  <2>1. Read(facts, u, open \o p) = Read(facts, Read(facts, u, open), p)
    BY <1>1, <1>2, ReadOn
  <2> QED
    BY <1>3, <1>4, <2>1
<1> HIDE DEF v
<1>9. Read(facts, u, open \o p \o close) = Read(facts, v, close)
  <2> DEFINE from == open \o p
  <2>1. from \in Seq(Symbols) /\ Read(facts, u, from) = v
    BY <1>1, <1>8
  <2> HIDE DEF from
  <2>2. Read(facts, u, from \o close) = Read(facts, Read(facts, u, from), close)
    BY <1>1, <1>2, <2>1, ReadOn
  <2> QED
    BY <2>1, <2>2 DEF from
<1> QED
  BY <1>1, <1>3, <1>5, <1>7, <1>9 DEF u, v, open, close, Anded

\* Allows reads the text.
LEMMA AllowsReads ==
    ASSUME NEW facts, NEW text \in Seq(Symbols)
    PROVE  Allows(text, facts) <=>
               text = <<>> \/ ValueOf(Head(Read(facts, <<Level>>, text)))
<1> DEFINE R == Reading(facts)
           b == <<Level>>
           IsIter(f) == f = [x \in SUBSET DOMAIN text |->
                                IF x = {} THEN b
                                ELSE ReadToken(f[x \ {Max(x)}], text[Max(x)], facts)]
<1>1. R \in [Symbols -> [Stacks -> Stacks]] /\ b \in Stacks
  BY ReadingType DEF Level, Levels, Stacks
<1>2. \E f : IsIter(f)
  <2> HIDE DEF b
  <2>1. PICK f : f \in Iterators(R, Stacks, b, text)
    BY <1>1, IteratorExists
  <2>2. IsIter(f)
    BY <2>1, LastOf DEF Reading, Iterators
  <2> HIDE DEF IsIter
  <2> QED
    BY <2>2
<1>3. PICK f : /\ IsIter(f)
               /\ Allows(text, facts) <=> text = <<>> \/ ValueOf(Head(f[DOMAIN text]))
  BY <1>2 DEF Allows, FoldLeft, MapThenFoldSet
<1> HIDE DEF b
<1>4. Iterates(R, Stacks, b, text, f)
  BY <1>3, LastOf DEF Reading, Iterates
<1> HIDE DEF IsIter, R
<1>5. f[DOMAIN text] = Folded(R, b, text)
  BY <1>1, <1>4, LastOf, IteratorFolds
<1> QED
  BY <1>3, <1>5 DEF Read, R, b

\* What a text means that reads as v on any level.
LEMMA PartMeans ==
    ASSUME NEW facts, NEW p \in Seq(Symbols), NEW v \in BOOLEAN,
           \A st \in Stacks : \E l \in Levels :
              ValueOf(l) = v /\ Read(facts, <<Level>> \o st, p) = <<l>> \o st
    PROVE  IsPart(facts, p) /\ PartValue(facts, p) = v
<1> DEFINE none == <<>>
<1>1. none \in Stacks /\ \A l \in Levels : <<l>> \o none = <<l>>
  BY DEF Stacks
<1>2. Level \in Levels
  BY DEF Level, Levels
<1> HIDE DEF none
<1>3. PICK l \in Levels : ValueOf(l) = v /\ Read(facts, <<Level>> \o none, p) = <<l>> \o none
  BY <1>1
<1>4. Read(facts, <<Level>>, p) = <<l>> \o none
  BY <1>1, <1>2, <1>3
<1>5. Head(<<l>> \o none) = l
  BY <1>1, OnTop
<1>6. PartValue(facts, p) = v
  BY <1>3, <1>4, <1>5 DEF PartValue
<1> QED
  BY <1>6 DEF IsPart

\* A name alone is a part.
LEMMA AtomPart ==
    ASSUME NEW facts, NEW a \in Atoms
    PROVE  IsPart(facts, <<a>>) /\ PartValue(facts, <<a>>) = (a \in facts)
<1> DEFINE v == a \in facts
           l == [or |-> FALSE, and |-> TRUE /\ v]
<1>1. v \in BOOLEAN /\ a \in Symbols /\ <<a>> \in Seq(Symbols)
  BY DEF Symbols
<1>2. Level \in Levels /\ l \in Levels /\ ValueOf(l) = v
  <2> HIDE DEF v
  <2> QED
    BY <1>1 DEF Level, Levels, ValueOf
<1>3. ASSUME NEW st \in Stacks
      PROVE  Read(facts, <<Level>> \o st, <<a>>) = <<l>> \o st
  <2> DEFINE u == <<Level>> \o st
  <2>1. u \in Stacks
    BY <1>2, OnTop
  <2>2. ReadToken(u, a, facts) = <<[or |-> Level.or, and |-> Level.and /\ v]>> \o st
    BY <1>2, AtomRead
  <2>3. Read(facts, u, <<a>>) = ReadToken(u, a, facts)
    <3> HIDE DEF u
    <3> QED
      BY <1>1, <2>1, ReadOne
  <2> QED
    BY <2>2, <2>3 DEF Level
<1> HIDE DEF v, l
<1>4. IsPart(facts, <<a>>) /\ PartValue(facts, <<a>>) = v
  BY <1>1, <1>2, <1>3, PartMeans
<1> QED
  BY <1>4 DEF v

-----------------------------------------------------------------------------
(* Requirements: the text that saga_to_condor writes.                       *)

HostNames == Hosts \cup {""}

Naming == [h \in HostNames |-> [text \in Seq(Symbols) |-> AddHost(text, h)]]

Joining == [p \in Seq(Symbols) |-> [text \in Seq(Symbols) |-> AddPart(text, p)]]

\* A host more takes text to text.
LEMMA AddHostType ==
    ASSUME NEW text \in Seq(Symbols), NEW h \in HostNames
    PROVE  AddHost(text, h) \in Seq(Symbols)
<1>1. "||" \in Symbols /\ "(" \in Symbols /\ h \in Symbols /\ ")" \in Symbols
  BY DEF HostNames, Symbols, Tokens, Atoms
<1>2. <<"||">> \in Seq(Symbols) /\ <<"(", h, ")">> \in Seq(Symbols) /\ <<>> \in Seq(Symbols)
  BY <1>1
<1>3. ASSUME NEW sep \in Seq(Symbols)
      PROVE  text \o sep \o <<"(", h, ")">> \in Seq(Symbols)
  BY <1>2
<1> QED
  BY <1>2, <1>3 DEF AddHost

\* A part more does, too.
LEMMA AddPartType ==
    ASSUME NEW text \in Seq(Symbols), NEW p \in Seq(Symbols)
    PROVE  AddPart(text, p) \in Seq(Symbols)
<1>1. /\ <<"&&">> \in Seq(Symbols) /\ <<"(">> \in Seq(Symbols) /\ <<")">> \in Seq(Symbols)
      /\ <<>> \in Seq(Symbols)
  BY DEF Symbols, Tokens
<1> QED
  BY <1>1 DEF AddPart

\* HostsText is the fold of the hosts.
LEMMA HostsFolded ==
    ASSUME NEW hosts \in Seq(HostNames)
    PROVE  /\ Naming \in [HostNames -> [Seq(Symbols) -> Seq(Symbols)]]
           /\ HostsText(hosts) = Folded(Naming, <<>>, hosts)
<1> DEFINE A == Seq(Symbols)
           b == <<>>
           IsIter(f) == f = [x \in SUBSET DOMAIN hosts |->
                                IF x = {} THEN b ELSE AddHost(f[x \ {Max(x)}], hosts[Max(x)])]
<1>1. Naming \in [HostNames -> [A -> A]] /\ b \in A
  BY AddHostType DEF Naming
<1>2. \E f : IsIter(f)
  <2> HIDE DEF b
  <2>1. PICK f : f \in Iterators(Naming, A, b, hosts)
    BY <1>1, IteratorExists
  <2>2. IsIter(f)
    BY <2>1, LastOf DEF Naming, Iterators
  <2> HIDE DEF IsIter
  <2> QED
    BY <2>2
<1>3. PICK f : IsIter(f) /\ HostsText(hosts) = f[DOMAIN hosts]
  BY <1>2 DEF HostsText, FoldLeft, MapThenFoldSet
<1> HIDE DEF b
<1>4. Iterates(Naming, A, b, hosts, f)
  BY <1>3, LastOf DEF Naming, Iterates
<1> HIDE DEF IsIter, A
<1>5. f[DOMAIN hosts] = Folded(Naming, b, hosts)
  BY <1>1, <1>4, LastOf, IteratorFolds
<1> QED
  BY <1>1, <1>3, <1>5 DEF A, b

\* Conjunction is the fold of the parts.
LEMMA PartsFolded ==
    ASSUME NEW parts \in Seq(Seq(Symbols))
    PROVE  /\ Joining \in [Seq(Symbols) -> [Seq(Symbols) -> Seq(Symbols)]]
           /\ Conjunction(parts) = Folded(Joining, <<>>, parts)
<1> DEFINE A == Seq(Symbols)
           b == <<>>
           IsIter(f) == f = [x \in SUBSET DOMAIN parts |->
                                IF x = {} THEN b ELSE AddPart(f[x \ {Max(x)}], parts[Max(x)])]
<1>1. Joining \in [A -> [A -> A]] /\ b \in A /\ parts \in Seq(A)
  BY AddPartType DEF Joining
<1>2. Joining = [p \in A |-> [text \in A |-> AddPart(text, p)]]
  BY DEF Joining
<1>3. \E f : IsIter(f)
  <2> HIDE DEF A, b
  <2>1. PICK f : f \in Iterators(Joining, A, b, parts)
    BY <1>1, IteratorExists
  <2>2. IsIter(f)
    BY <1>1, <1>2, <2>1, LastOf DEF Iterators
  <2> HIDE DEF IsIter
  <2> QED
    BY <2>2
<1>4. PICK f : IsIter(f) /\ Conjunction(parts) = f[DOMAIN parts]
  BY <1>3 DEF Conjunction, FoldLeft, MapThenFoldSet
<1> HIDE DEF A, b
<1>5. Iterates(Joining, A, b, parts, f)
  BY <1>1, <1>4, <1>2, LastOf DEF Iterates
<1> HIDE DEF IsIter
<1>6. f[DOMAIN parts] = Folded(Joining, b, parts)
  BY <1>1, <1>5, LastOf, IteratorFolds
<1> QED
  BY <1>1, <1>4, <1>6 DEF A, b

\* One of the machines that s names is there.
HostAmong(facts, s) == \E h \in Range(s) \ {""} : h \in facts

\* The text of the names in s, as long as there are any.
HostsMean(facts, s, text) ==
    /\ text \in Seq(Symbols)
    /\ text = <<>> <=> Range(s) \ {""} = {}
    /\ text # <<>> => IsPart(facts, text) /\ PartValue(facts, text) = HostAmong(facts, s)

\* The name of a machine in parentheses.
LEMMA NameRead ==
    ASSUME NEW facts, NEW h \in Hosts, NEW l \in Levels, NEW st \in Stacks
    PROVE  /\ <<"(", h, ")">> \in Seq(Symbols)
           /\ Read(facts, <<l>> \o st, <<"(", h, ")">>) =
                 <<Anded(l, PartValue(facts, <<h>>))>> \o st
<1>1. h \in Atoms /\ h \in Symbols /\ "(" \in Symbols /\ ")" \in Symbols
  BY DEF Atoms, Symbols, Tokens
<1>2. <<"(">> \o <<h>> \o <<")">> = <<"(", h, ")">>
  <2> DEFINE u == <<"(", h, ")">>
             v == <<"(">> \o <<h>> \o <<")">>
  <2>1. /\ u \in Seq(Symbols) /\ Len(u) = 3
        /\ u[1] = "(" /\ u[2] = h /\ u[3] = ")"
    BY <1>1
  <2>2. /\ v \in Seq(Symbols) /\ Len(v) = 3
        /\ v[1] = "(" /\ v[2] = h /\ v[3] = ")"
    <3>1. /\ <<"(">> \o <<h>> \in Seq(Symbols) /\ Len(<<"(">> \o <<h>>) = 2
          /\ (<<"(">> \o <<h>>)[1] = "(" /\ (<<"(">> \o <<h>>)[2] = h
      BY <1>1
    <3> QED
      BY <1>1, <3>1
  <2> HIDE DEF u, v
  <2>3. \A i \in 1..3 : u[i] = v[i]
    BY <2>1, <2>2
  <2> QED
    BY <2>1, <2>2, <2>3, SeqEqual DEF u, v
<1> DEFINE p == <<h>>
<1>3. IsPart(facts, p)
  BY <1>1, AtomPart
<1> HIDE DEF p
<1>4. /\ <<"(">> \o p \o <<")">> \in Seq(Symbols)
      /\ Read(facts, <<l>> \o st, <<"(">> \o p \o <<")">>) =
            <<Anded(l, PartValue(facts, p))>> \o st
  BY <1>3, ParenthesesRead
<1> QED
  BY <1>2, <1>4 DEF p

\* What such a name says.
LEMMA NameValue ==
    ASSUME NEW facts, NEW h \in Hosts, NEW l \in Levels
    PROVE  /\ Anded(l, PartValue(facts, <<h>>)) \in Levels
           /\ l.and = TRUE => ValueOf(Anded(l, PartValue(facts, <<h>>))) = (l.or \/ h \in facts)
<1>1. PartValue(facts, <<h>>) = (h \in facts)
  BY AtomPart DEF Atoms
<1> DEFINE v == PartValue(facts, <<h>>)
           w == h \in facts
<1>2. v \in BOOLEAN /\ w \in BOOLEAN /\ v = w
  BY <1>1
<1> HIDE DEF v, w
<1>3. Anded(l, v) \in Levels /\ (l.and = TRUE => ValueOf(Anded(l, v)) = (l.or \/ w))
  BY <1>2 DEF Anded, Levels, ValueOf
<1> QED
  BY <1>3 DEF v, w

\* The first name makes a part.
LEMMA FirstName ==
    ASSUME NEW facts, NEW h \in Hosts
    PROVE  IsPart(facts, <<"(", h, ")">>) /\ PartValue(facts, <<"(", h, ")">>) = (h \in facts)
<1> DEFINE v == h \in facts
           p == <<"(", h, ")">>
           l == Anded(Level, PartValue(facts, <<h>>))
<1>1. Level \in Levels /\ v \in BOOLEAN /\ Level.or = FALSE /\ Level.and = TRUE
  BY DEF Level, Levels
<1>2. l \in Levels /\ ValueOf(l) = v
  BY <1>1, NameValue
<1>3. ASSUME NEW st \in Stacks
      PROVE  p \in Seq(Symbols) /\ Read(facts, <<Level>> \o st, p) = <<l>> \o st
  BY <1>1, NameRead
<1>4. <<>> \in Stacks
  BY DEF Stacks
<1> HIDE DEF v, p, l
<1>5. IsPart(facts, p) /\ PartValue(facts, p) = v
  BY <1>1, <1>2, <1>3, <1>4, PartMeans
<1> QED
  BY <1>5 DEF v, p

\* A name more makes another machine do.
LEMMA NextName ==
    ASSUME NEW facts, NEW text, IsPart(facts, text), NEW h \in Hosts
    PROVE  /\ IsPart(facts, text \o <<"||">> \o <<"(", h, ")">>)
           /\ PartValue(facts, text \o <<"||">> \o <<"(", h, ")">>)
                 <=> PartValue(facts, text) \/ h \in facts
<1> DEFINE v == PartValue(facts, text)
           w == h \in facts
           p == <<"(", h, ")">>
           sep == <<"||">>
           all == text \o sep \o p
           m == [or |-> v, and |-> TRUE]
           l == Anded(m, PartValue(facts, <<h>>))
<1>1. v \in BOOLEAN /\ w \in BOOLEAN /\ text \in Seq(Symbols) /\ Level \in Levels
  BY DEF IsPart, Level, Levels
<1>2. l \in Levels /\ m \in Levels /\ ValueOf(l) = (v \/ w)
  <2> HIDE DEF v
  <2>1. m \in Levels /\ m.or = v /\ m.and = TRUE
    BY <1>1 DEF Levels
  <2> HIDE DEF m
  <2> QED
    BY <2>1, NameValue
<1>3. "||" \in Symbols /\ sep \in Seq(Symbols) /\ p \in Seq(Symbols)
  <2>1. "||" \in Symbols
    BY DEF Symbols, Tokens
  <2>2. <<>> \in Stacks
    BY DEF Stacks
  <2>3. p \in Seq(Symbols)
    BY <1>1, <2>2, NameRead
  <2> QED
    BY <2>1, <2>3
<1>4. text \o sep \in Seq(Symbols) /\ all \in Seq(Symbols)
  <2> HIDE DEF sep, p
  <2> QED
    BY <1>1, <1>3
<1>5. ASSUME NEW st \in Stacks
      PROVE  Read(facts, <<Level>> \o st, all) = <<l>> \o st
  <2> DEFINE u == <<Level>> \o st
  <2>1. u \in Stacks
    BY <1>1, OnTop
  <2>2. PICK k \in Levels : ValueOf(k) = v /\ Read(facts, u, text) = <<k>> \o st
    BY DEF IsPart
  <2> DEFINE x == <<k>> \o st
             y == <<m>> \o st
  <2>3. x \in Stacks /\ y \in Stacks
    BY <1>2, OnTop
  <2>4. Read(facts, x, sep) = y
    <3>1. ReadToken(x, "||", facts) = <<[or |-> ValueOf(k), and |-> TRUE]>> \o st
      BY OperatorRead
    <3>2. ReadToken(x, "||", facts) = y
      <4> HIDE DEF x, v
      <4> QED
        BY <2>2, <3>1
    <3> HIDE DEF x, y
    <3>3. Read(facts, x, sep) = ReadToken(x, "||", facts)
      BY <1>3, <2>3, ReadOne
    <3> QED
      BY <3>2, <3>3
  <2>5. Read(facts, y, p) = <<l>> \o st
    <3> HIDE DEF m
    <3> QED
      BY <1>2, NameRead
  <2>7. Read(facts, u, text) = x
    BY <2>2
  <2> HIDE DEF u, sep, p, x, y
  <2>6. Read(facts, u, text \o sep) = y
    BY <1>1, <1>3, <2>1, <2>4, <2>7, ReadOn
  <2>8. Read(facts, u, text \o sep \o p) = Read(facts, y, p)
    BY <1>3, <1>4, <2>1, <2>6, ReadOn
  <2> QED
    BY <2>5, <2>8 DEF u
<1> DEFINE vw == v \/ w
<1>6. vw \in BOOLEAN /\ ValueOf(l) = vw
  BY <1>1, <1>2
<1> HIDE DEF all, l, vw
<1>7. IsPart(facts, all) /\ PartValue(facts, all) = vw
  BY <1>2, <1>4, <1>5, <1>6, PartMeans
<1> QED
  BY <1>7 DEF all, vw

\* The names of machines, one after the other.
LEMMA HostsWritten ==
    ASSUME NEW facts, NEW hosts \in Seq(HostNames)
    PROVE  HostsMean(facts, hosts, HostsText(hosts))
<1> DEFINE A == Seq(Symbols)
           b == <<>>
           text(s) == Folded(Naming, b, s)
           S == {s \in Seq(HostNames) : HostsMean(facts, s, text(s))}
<1>0. Naming \in [HostNames -> [A -> A]] /\ b \in A
  <2>1. Naming \in [HostNames -> [A -> A]]
    BY HostsFolded
  <2> QED
    BY <2>1
<1>1. <<>> \in S
  <2>1. text(<<>>) = <<>>
    BY FoldedEmpty
  <2>2. Range(<<>>) = {}
    <3>1. DOMAIN <<>> = {}
      OBVIOUS
    <3> QED
      BY <3>1, Zenon DEF Range
  <2>3. HostsMean(facts, <<>>, <<>>)
    <3>1. Range(<<>>) \ {""} = {}
      BY <2>2, Zenon
    <3>2. <<>> \in Seq(Symbols)
      OBVIOUS
    <3> QED
      BY <3>1, <3>2, Zenon DEF HostsMean
  <2> QED
    BY <2>1, <2>3
<1>2. ASSUME NEW s \in Seq(HostNames), NEW h \in HostNames, s \in S
      PROVE  Append(s, h) \in S
  <2> DEFINE t == text(s)
             u == Append(s, h)
  <2>1. t \in A /\ text(u) = AddHost(t, h) /\ u \in Seq(HostNames)
    <3>1. t \in A /\ text(u) = Naming[h][t]
      <4> HIDE DEF A, b
      <4> QED
        BY <1>0, FoldedAppend
    <3> QED
      BY <3>1 DEF Naming
  <2>2. HostsMean(facts, s, t)
    BY <1>2
  <2>3. Range(u) = Range(s) \cup {h}
    BY RangeAppend
  <2> HIDE DEF t, u, text
  <2>4. AddHost(t, h) \in A
    BY <2>1, AddHostType
  <2>5. HostsMean(facts, u, AddHost(t, h))
    <3>1. CASE h = ""
      <4>1. AddHost(t, h) = t /\ Range(u) \ {""} = Range(s) \ {""}
        BY <2>3, <3>1 DEF AddHost
      <4> QED
        BY <2>2, <4>1 DEF HostsMean, HostAmong
    <3>2. CASE h # ""
      <4>1. h \in Hosts /\ Range(u) \ {""} = (Range(s) \ {""}) \cup {h}
        BY <2>3, <3>2 DEF HostNames
      <4>2. HostAmong(facts, u) = (HostAmong(facts, s) \/ h \in facts)
        BY <4>1 DEF HostAmong
      <4> DEFINE p == <<"(", h, ")">>
      <4>3. CASE t = <<>>
        <5>1. AddHost(t, h) = p
          <6>1. <<>> \o <<>> \o p = p
            OBVIOUS
          <6> QED
            BY <3>2, <4>3, <6>1 DEF AddHost
        <5>2. IsPart(facts, p) /\ PartValue(facts, p) = (h \in facts)
          BY <4>1, FirstName
        <5>3. p # <<>>
          OBVIOUS
        <5>4. ~HostAmong(facts, s)
          BY <2>2, <4>3 DEF HostsMean, HostAmong
        <5>5. PartValue(facts, p) = HostAmong(facts, u)
          BY <4>2, <5>2, <5>4
        <5>6. p \in A /\ Range(u) \ {""} # {}
          BY <2>4, <4>1, <5>1
        <5> HIDE DEF p, A
        <5>7. HostsMean(facts, u, p)
          BY <5>2, <5>3, <5>5, <5>6 DEF HostsMean, A
        <5> QED
          BY <5>1, <5>7
      <4>4. CASE t # <<>>
        <5> DEFINE all == t \o <<"||">> \o p
        <5>1. AddHost(t, h) = all
          BY <3>2, <4>4 DEF AddHost
        <5>2. IsPart(facts, t) /\ PartValue(facts, t) = HostAmong(facts, s)
          BY <2>2, <4>4 DEF HostsMean
        <5>3. IsPart(facts, all) /\ (PartValue(facts, all) <=> PartValue(facts, t) \/ h \in facts)
          BY <4>1, <5>2, NextName, Zenon
        <5>4. all # <<>>
          BY <2>1, <4>4
        <5>5. PartValue(facts, all) = HostAmong(facts, u)
          BY <4>2, <5>2, <5>3 DEF IsPart
        <5>6. all \in A /\ Range(u) \ {""} # {}
          BY <2>4, <4>1, <5>1
        <5> HIDE DEF all, A
        <5>7. HostsMean(facts, u, all)
          BY <5>3, <5>4, <5>5, <5>6 DEF HostsMean, A
        <5> QED
          BY <5>1, <5>7
      <4> QED
        BY <4>3, <4>4
    <3> QED
      BY <3>1, <3>2
  <2> QED
    BY <2>1, <2>5 DEF u
<1>3. hosts \in S
  <2> HIDE DEF S
  <2> QED
    BY <1>1, <1>2, SeqInduction
<1>4. HostsText(hosts) = text(hosts)
  BY HostsFolded
<1> QED
  BY <1>3, <1>4

\* What is in a text that is put together.
LEMMA ContainsJoined ==
    ASSUME NEW A, NEW s \in Seq(A), NEW t \in Seq(A), NEW e
    PROVE  Contains(s \o t, e) <=> Contains(s, e) \/ Contains(t, e)
<1> DEFINE u == s \o t
<1>1. /\ Len(s) \in Nat /\ Len(t) \in Nat /\ Len(u) = Len(s) + Len(t)
      /\ \A i \in 1..Len(s) : u[i] = s[i]
      /\ \A i \in 1..Len(t) : u[Len(s) + i] = t[i]
  OBVIOUS
<1> HIDE DEF u
<1>2. ASSUME NEW i \in 1..Len(u), u[i] = e
      PROVE  Contains(s, e) \/ Contains(t, e)
  <2>1. CASE i <= Len(s)
    <3>1. i \in 1..Len(s)
      BY <1>1, <2>1
    <3> QED
      BY <1>1, <1>2, <3>1 DEF Contains
  <2>2. CASE ~(i <= Len(s))
    <3>1. i - Len(s) \in 1..Len(t) /\ Len(s) + (i - Len(s)) = i
      BY <1>1, <2>2
    <3>2. u[i] = t[i - Len(s)]
      BY <1>1, <3>1
    <3> QED
      BY <1>2, <3>1, <3>2 DEF Contains
  <2> QED
    BY <2>1, <2>2
<1>3. ASSUME NEW i \in 1..Len(s), s[i] = e
      PROVE  Contains(u, e)
  <2>1. i \in 1..Len(u)
    BY <1>1
  <2> QED
    BY <1>1, <1>3, <2>1 DEF Contains
<1>4. ASSUME NEW i \in 1..Len(t), t[i] = e
      PROVE  Contains(u, e)
  <2>1. Len(s) + i \in 1..Len(u)
    BY <1>1
  <2> QED
    BY <1>1, <1>4, <2>1 DEF Contains
<1> QED
  BY <1>2, <1>3, <1>4 DEF Contains, u

\* Text is refused if a part of it is.
LEMMA RefusesJoined ==
    ASSUME NEW s \in Seq(Symbols), NEW t \in Seq(Symbols)
    PROVE  /\ s \o t \in Seq(Symbols)
           /\ Refuses(s \o t) <=> Refuses(s) \/ Refuses(t)
<1> DEFINE assigns == "="
<1> HIDE DEF assigns
<1>1. s \o t \in Seq(Symbols)
  OBVIOUS
<1>2. Contains(s \o t, assigns) <=> Contains(s, assigns) \/ Contains(t, assigns)
  BY ContainsJoined
<1> QED
  BY <1>1, <1>2, Zenon DEF Refuses, assigns

\* The names of machines assign nothing.
LEMMA NamesPlain ==
    ASSUME NEW hosts \in Seq(HostNames)
    PROVE  HostsText(hosts) \in Seq(Symbols) /\ ~Refuses(HostsText(hosts))
<1> DEFINE A == Seq(Symbols)
           b == <<>>
           text(s) == Folded(Naming, b, s)
           S == {s \in Seq(HostNames) : ~Refuses(text(s))}
<1>0. Naming \in [HostNames -> [A -> A]] /\ b \in A
  <2>1. Naming \in [HostNames -> [A -> A]]
    BY HostsFolded
  <2> QED
    BY <2>1
<1>1. <<>> \in S
  <2>1. text(<<>>) = <<>> /\ <<>> \in Seq(HostNames)
    BY FoldedEmpty
  <2>2. ~Refuses(<<>>)
    BY DEF Refuses, Contains
  <2> QED
    BY <2>1, <2>2
<1>2. ASSUME NEW s \in Seq(HostNames), NEW h \in HostNames, s \in S
      PROVE  Append(s, h) \in S
  <2> DEFINE t == text(s)
             u == Append(s, h)
  <2>1. t \in A /\ text(u) = AddHost(t, h) /\ u \in Seq(HostNames)
    <3>1. t \in A /\ text(u) = Naming[h][t]
      <4> HIDE DEF A, b
      <4> QED
        BY <1>0, FoldedAppend
    <3> QED
      BY <3>1 DEF Naming
  <2>2. ~Refuses(t)
    BY <1>2
  <2> HIDE DEF t, u, text
  <2>3. ~Refuses(AddHost(t, h))
    <3>1. CASE h = ""
      BY <2>2, <3>1 DEF AddHost
    <3>2. CASE h # ""
      <4> DEFINE sep == IF t = <<>> THEN <<>> ELSE <<"||">>
                 name == <<"(", h, ")">>
      <4>1. h \in Hosts /\ h \in Symbols /\ h # "="
        BY <3>2, HostsAssumption DEF HostNames, Symbols, Atoms, Tokens
      <4>2. sep \in A /\ ~Refuses(sep)
        <5>1. CASE t = <<>>
          BY <5>1 DEF Refuses, Contains
        <5>2. CASE t # <<>>
          BY <5>2 DEF Refuses, Contains, Symbols, Tokens
        <5> QED
          BY <5>1, <5>2
      <4>3. name \in A /\ ~Refuses(name)
        BY <4>1 DEF Refuses, Contains, Symbols, Tokens
      <4>4. AddHost(t, h) = t \o sep \o name
        BY <3>2 DEF AddHost
      <4> HIDE DEF sep, name, A
      <4> DEFINE v == t \o sep
      <4>5. v \in A /\ ~Refuses(v)
        BY <2>1, <2>2, <4>2, RefusesJoined DEF A
      <4> HIDE DEF v
      <4>6. ~Refuses(v \o name)
        BY <4>3, <4>5, RefusesJoined DEF A
      <4> QED
        BY <4>4, <4>6 DEF v
    <3> QED
      BY <3>1, <3>2
  <2> QED
    BY <2>1, <2>3 DEF u
<1>3. hosts \in S
  <2> HIDE DEF S
  <2> QED
    BY <1>1, <1>2, SeqInduction
<1>4. HostsText(hosts) = text(hosts) /\ text(hosts) \in A
  <2>1. HostsText(hosts) = text(hosts)
    BY HostsFolded
  <2>2. HostsMean({}, hosts, HostsText(hosts))
    BY HostsWritten
  <2> QED
    BY <2>1, <2>2 DEF HostsMean
<1> QED
  BY <1>3, <1>4

\* A part is between parentheses, and what assigns is of a part.
LEMMA PartAdded ==
    ASSUME NEW text \in Seq(Symbols), NEW p \in Seq(Symbols)
    PROVE  Refuses(AddPart(text, p)) <=> Refuses(text) \/ Refuses(p)
<1> DEFINE sep == IF text = <<>> THEN <<>> ELSE <<"&&">>
           open == <<"(">>
           close == <<")">>
<1>1. sep \in Seq(Symbols) /\ ~Refuses(sep)
  <2>1. CASE text = <<>>
    BY <2>1 DEF Refuses, Contains
  <2>2. CASE text # <<>>
    BY <2>2 DEF Refuses, Contains, Symbols, Tokens
  <2> QED
    BY <2>1, <2>2
<1>2. /\ open \in Seq(Symbols) /\ ~Refuses(open)
      /\ close \in Seq(Symbols) /\ ~Refuses(close)
  BY DEF Refuses, Contains, Symbols, Tokens
<1>3. AddPart(text, p) = text \o sep \o open \o p \o close
  BY DEF AddPart
<1> HIDE DEF sep, open, close
<1>4. text \o sep \in Seq(Symbols) /\ (Refuses(text \o sep) <=> Refuses(text))
  BY <1>1, RefusesJoined
<1> DEFINE t == text \o sep
<1> HIDE DEF t
<1>5. t \o open \in Seq(Symbols) /\ (Refuses(t \o open) <=> Refuses(text))
  BY <1>2, <1>4, RefusesJoined DEF t
<1> DEFINE u == t \o open
<1> HIDE DEF u
<1>6. u \o p \in Seq(Symbols) /\ (Refuses(u \o p) <=> Refuses(text) \/ Refuses(p))
  BY <1>5, RefusesJoined DEF u
<1> DEFINE v == u \o p
<1> HIDE DEF v
<1>7. Refuses(v \o close) <=> Refuses(text) \/ Refuses(p)
  BY <1>2, <1>6, RefusesJoined DEF v
<1> QED
  BY <1>3, <1>7 DEF t, u, v

\* A part that assigns has the text refused.
LEMMA PartRefused ==
    ASSUME NEW parts \in Seq(Seq(Symbols)), NEW n \in DOMAIN parts, Refuses(parts[n])
    PROVE  Refuses(Conjunction(parts))
<1> DEFINE A == Seq(Symbols)
           b == <<>>
           text(s) == Folded(Joining, b, s)
           S == {s \in Seq(A) : (\E i \in DOMAIN s : Refuses(s[i])) => Refuses(text(s))}
<1>0. Joining \in [A -> [A -> A]] /\ b \in A
  <2>1. b \in Seq(A)
    OBVIOUS
  <2> QED
    BY <2>1, PartsFolded
<1>1. <<>> \in S
  <2>1. DOMAIN <<>> = {} /\ <<>> \in Seq(A)
    OBVIOUS
  <2> QED
    BY <2>1
<1>2. ASSUME NEW s \in Seq(A), NEW p \in A, s \in S
      PROVE  Append(s, p) \in S
  <2> DEFINE u == Append(s, p)
             t == text(s)
  <2>1. t \in A /\ text(u) = AddPart(t, p) /\ u \in Seq(A)
    <3>1. t \in A /\ text(u) = Joining[p][t]
      <4> HIDE DEF A, b
      <4> QED
        BY <1>0, FoldedAppend
    <3>2. u \in Seq(A)
      OBVIOUS
    <3> QED
      BY <3>1, <3>2 DEF Joining
  <2>2. (\E i \in DOMAIN s : Refuses(s[i])) => Refuses(t)
    BY <1>2
  <2>3. ASSUME NEW i \in DOMAIN u, Refuses(u[i])
        PROVE  (\E j \in DOMAIN s : Refuses(s[j])) \/ Refuses(p)
    <3>1. u[i] = p \/ (i \in DOMAIN s /\ u[i] = s[i])
      <4>1. CASE i = Len(s) + 1
        BY <4>1
      <4>2. CASE i # Len(s) + 1
        BY <4>2
      <4> QED
        BY <4>1, <4>2
    <3> HIDE DEF u
    <3> QED
      BY <2>3, <3>1
  <2> HIDE DEF t, u, text
  <2>4. (\E i \in DOMAIN u : Refuses(u[i])) => Refuses(AddPart(t, p))
    BY <2>1, <2>2, <2>3, PartAdded
  <2> QED
    BY <2>1, <2>4 DEF u
<1>3. parts \in S
  <2> HIDE DEF S
  <2> QED
    BY <1>1, <1>2, SeqInduction
<1>4. Conjunction(parts) = text(parts)
  BY PartsFolded
<1> HIDE DEF text, A
<1> QED
  BY <1>3, <1>4

\* A text that reads as one part, in parentheses, allows what the part does.
LEMMA PartAllows ==
    ASSUME NEW facts, NEW p, IsPart(facts, p)
    PROVE  Allows(<<"(">> \o p \o <<")">>, facts) <=> PartValue(facts, p)
<1> DEFINE none == <<>>
           text == <<"(">> \o p \o <<")">>
           v == PartValue(facts, p)
           l == Anded(Level, v)
<1>1. /\ none \in Stacks /\ Level \in Levels /\ v \in BOOLEAN
      /\ p \in Seq(Symbols)
  BY DEF Stacks, Level, Levels, IsPart
<1>2. \A k \in Levels : <<k>> \o none = <<k>> /\ Head(<<k>>) = k
  OBVIOUS
<1>3. l \in Levels /\ (ValueOf(l) <=> v)
  <2> HIDE DEF v
  <2> QED
    BY <1>1 DEF Anded, Level, Levels, ValueOf
<1>4. text \in Seq(Symbols) /\ Read(facts, <<Level>> \o none, text) = <<l>> \o none
  <2> HIDE DEF none
  <2> QED
    BY <1>1, ParenthesesRead
<1>5. text # <<>>
  BY <1>1
<1> HIDE DEF none, text, v, l
<1>6. ValueOf(Head(Read(facts, <<Level>>, text))) <=> v
  BY <1>1, <1>2, <1>3, <1>4
<1>7. Allows(text, facts) <=> v
  BY <1>4, <1>5, <1>6, AllowsReads
<1> QED
  BY <1>7 DEF text, v

\* No test: what the hosts allow, or everything.
LEMMA HostsChosen ==
    ASSUME NEW hosts \in Seq(HostNames), NEW machine \in Hosts
    PROVE  Chosen(Conjunction(Parts(hosts, <<>>)), machine) =
               IF Range(hosts) \ {""} = {} \/ machine \in Range(hosts) \ {""}
                 THEN "taken" ELSE "passed over"
<1> DEFINE named == Range(hosts) \ {""}
           t == HostsText(hosts)
           parts == Parts(hosts, <<>>)
           facts == {machine}
           text == Conjunction(parts)
<1>1. HostsMean(facts, hosts, t)
  BY HostsWritten
<1>2. HostAmong(facts, hosts) <=> machine \in named
  BY DEF HostAmong
<1>3. t \in Seq(Symbols) /\ ~Refuses(t)
  BY NamesPlain
<1>4. parts = IF t = <<>> THEN <<>> ELSE <<t>>
  <2>1. [i \in DOMAIN <<>> |-> TestText(<<>>[i])] = <<>>
    OBVIOUS
  <2>2. <<>> \o <<>> = <<>> /\ <<t>> \o <<>> = <<t>>
    OBVIOUS
  <2> HIDE DEF t
  <2>3. Parts(hosts, <<>>) = (IF t = <<>> THEN <<>> ELSE <<t>>) \o <<>>
    BY <2>1, Zenon DEF Parts, t
  <2> QED
    BY <2>2, <2>3
<1>5. ASSUME t = <<>>
      PROVE  ~Refuses(text) /\ (Allows(text, facts) <=> named = {} \/ machine \in named)
  <2>1. named = {}
    BY <1>1, <1>5 DEF HostsMean
  <2>2. text = <<>>
    <3>1. Conjunction(<<>>) = Folded(Joining, <<>>, <<>>)
      <4>1. <<>> \in Seq(Seq(Symbols))
        OBVIOUS
      <4> QED
        BY <4>1, PartsFolded
    <3>2. Conjunction(<<>>) = <<>>
      BY <3>1, FoldedEmpty
    <3> QED
      BY <1>4, <1>5, <3>2
  <2>3. <<>> \in Seq(Symbols) /\ ~Refuses(<<>>)
    BY DEF Refuses, Contains
  <2> HIDE DEF text, named
  <2>4. Allows(<<>>, facts)
    BY <2>3, AllowsReads
  <2> QED
    BY <2>1, <2>2, <2>3, <2>4
<1>6. ASSUME t # <<>>
      PROVE  ~Refuses(text) /\ (Allows(text, facts) <=> named = {} \/ machine \in named)
  <2> DEFINE paren == <<"(">> \o t \o <<")">>
  <2>1. named # {} /\ IsPart(facts, t) /\ PartValue(facts, t) = HostAmong(facts, hosts)
    BY <1>1, <1>6 DEF HostsMean
  <2>2. text = AddPart(<<>>, t)
    <3> DEFINE A == Seq(Symbols)
               b == <<>>
               one == <<t>>
    <3>1. b \in Seq(A) /\ one \in Seq(A) /\ one = Append(b, t) /\ b \in A /\ t \in A
      BY <1>3
    <3>2. parts = one
      BY <1>4, <1>6
    <3> HIDE DEF one, t, parts
    <3>3. Joining \in [A -> [A -> A]] /\ Conjunction(one) = Folded(Joining, b, one)
      BY <3>1, PartsFolded
    <3>4. Folded(Joining, b, b) = b
      BY FoldedEmpty
    <3> HIDE DEF A, b
    <3>5. Folded(Joining, b, one) = Joining[t][Folded(Joining, b, b)]
      BY <3>1, <3>3, FoldedAppend
    <3>6. Joining[t][b] = AddPart(b, t)
      BY <3>1 DEF Joining, A
    <3> QED
      BY <3>2, <3>3, <3>4, <3>5, <3>6 DEF b
  <2>3. AddPart(<<>>, t) = paren
    <3>1. <<>> \o <<>> \o <<"(">> = <<"(">>
      OBVIOUS
    <3> HIDE DEF t
    <3> QED
      BY <3>1 DEF AddPart
  <2>4. ~Refuses(text)
    <3>1. ~Refuses(<<>>) /\ <<>> \in Seq(Symbols)
      BY DEF Refuses, Contains
    <3> HIDE DEF t, text
    <3> QED
      BY <1>3, <2>2, <3>1, PartAdded
  <2>5. Allows(text, facts) <=> machine \in named
    <3>1. Allows(paren, facts) <=> PartValue(facts, t)
      <4> HIDE DEF t, facts
      <4> QED
        BY <2>1, PartAllows
    <3> HIDE DEF t, text, facts, paren, named
    <3> QED
      BY <1>2, <2>1, <2>2, <2>3, <3>1
  <2> HIDE DEF text, named
  <2> QED
    BY <2>1, <2>4, <2>5
<1>7. ~Refuses(text) /\ (Allows(text, facts) <=> named = {} \/ machine \in named)
  BY <1>5, <1>6
<1>8. Chosen(text, machine) = IF Refuses(text) THEN "refused"
                              ELSE IF Allows(text, facts) THEN "taken" ELSE "passed over"
  <2> HIDE DEF text
  <2> QED
    BY Zenon DEF Chosen
<1> DEFINE chosen == Chosen(text, machine)
           allowed == Allows(text, facts)
<1>9. chosen = IF allowed THEN "taken" ELSE "passed over"
  BY <1>7, <1>8
<1> HIDE DEF chosen, allowed, named
<1>10. chosen = IF named = {} \/ machine \in named THEN "taken" ELSE "passed over"
  BY <1>7, <1>9 DEF allowed
<1> QED
  BY <1>10 DEF chosen, named

\* MachinesChosen for one input.
LEMMA MachinesOfInput ==
    ASSUME NEW hosts \in Seq(HostNames), NEW tests \in Seq(Tests), NEW machine \in Hosts,
           Translated("requirements", [hosts |-> hosts, tests |-> tests, machine |-> machine],
                      Chosen(Conjunction(Parts(hosts, tests)), machine))
    PROVE  MachinesChosen'
<1>1. /\ given'.hosts = hosts /\ given'.tests = tests /\ given'.machine = machine
      /\ got' = Chosen(Conjunction(Parts(hosts, tests)), machine)
  BY DEF Translated
<1>2. CASE tests = <<>>
  <2>0. got' = Chosen(Conjunction(Parts(hosts, <<>>)), machine)
    BY <1>1, <1>2
  <2>1. got' = IF Range(hosts) \ {""} = {} \/ machine \in Range(hosts) \ {""}
                 THEN "taken" ELSE "passed over"
    <3>1. Chosen(Conjunction(Parts(hosts, <<>>)), machine) =
              IF Range(hosts) \ {""} = {} \/ machine \in Range(hosts) \ {""}
                THEN "taken" ELSE "passed over"
      BY HostsChosen
    <3> QED
      BY <2>0, <3>1, Zenon
  <2> QED
    BY <1>1, <1>2, <2>1, Zenon DEF MachinesChosen
<1>3. CASE tests # <<>>
  <2> DEFINE parts == Parts(hosts, tests)
             t == HostsText(hosts)
             first == IF t = <<>> THEN <<>> ELSE <<t>>
             second == [i \in DOMAIN tests |-> TestText(tests[i])]
             A == Seq(Symbols)
  <2>1. first \in Seq(A)
    BY NamesPlain
  <2>2. ASSUME NEW a \in Tests
        PROVE  TestText(a) \in A /\ Refuses(TestText(a))
    <3> DEFINE assigns == "="
               value == "value"
               test == <<a, assigns, value>>
    <3>1. a \in Symbols /\ assigns \in Symbols /\ value \in Symbols
      BY Zenon DEF Symbols, Atoms, Tokens
    <3>2. TestText(a) = test
      BY Zenon DEF TestText
    <3> HIDE DEF assigns, value
    <3>3. test \in A /\ Len(test) = 3 /\ test[2] = assigns
      BY <3>1
    <3> HIDE DEF test
    <3>4. Contains(test, assigns)
      BY <3>3 DEF Contains
    <3> QED
      BY <3>2, <3>3, <3>4, Zenon DEF Refuses, assigns
  <2>3. Len(tests) \in Nat /\ Len(tests) > 0 /\ DOMAIN tests = 1..Len(tests)
    BY <1>3
  <2>4. second \in Seq(A) /\ Len(second) = Len(tests) /\ Refuses(second[1])
    <3>1. \A i \in 1..Len(tests) : tests[i] \in Tests
      OBVIOUS
    <3>2. second \in [1..Len(tests) -> A] /\ second[1] = TestText(tests[1])
      BY <2>2, <2>3, <3>1
    <3> HIDE DEF second, A
    <3> QED
      BY <2>2, <2>3, <3>1, <3>2, FunctionSeq
  <2>5. parts = first \o second
    BY DEF Parts
  <2> HIDE DEF first, second, parts, A
  <2>6. /\ parts \in Seq(A) /\ Len(first) + 1 \in DOMAIN parts
        /\ parts[Len(first) + 1] = second[1]
    BY <2>1, <2>3, <2>4, <2>5
  <2>7. Refuses(Conjunction(parts))
    BY <2>4, <2>6, PartRefused DEF A
  <2>8. got' = "refused"
    BY <1>1, <2>7 DEF Chosen, parts
  <2> QED
    BY <1>1, <1>3, <2>8 DEF MachinesChosen
<1> QED
  BY <1>2, <1>3

-----------------------------------------------------------------------------
(* Arguments: what is doubled and put in quotes on the one side is read     *)
(* singly, and kept together, on the other.                                 *)

\* The characters of the texts of a run, and those that are special.
TextChars == UNION {Range(t) : t \in Texts \cup Words}

Specials == {"\"", "'", " ", "tab", "&", "<", ">"} \cup EntityNames

Chars == TextChars \cup Specials

\* A double quote, which the provers keep from getting at.
Dq == "\""

\* The special characters are characters, and differ.
LEMMA SomeChars ==
    /\ Specials \subseteq Chars
    /\ Dq \in Chars /\ "'" \in Chars /\ " " \in Chars /\ "tab" \in Chars
    /\ Dq # "'" /\ Dq # " "
BY DEF Chars, Specials, Dq

\* The texts of a run are sequences of them.
LEMMA TextsOfChars ==
    ASSUME NEW t \in Texts \cup Words
    PROVE  t \in Seq(Chars)
<1>1. t \in Seq(Range(t))
  BY TextAssumption
<1>2. Range(t) \subseteq Chars
  BY DEF Chars, TextChars
<1> HIDE DEF Chars
<1> QED
  BY <1>1, <1>2, SeqMonotonic

\* The tables of Doubled, and of what is left as it is.
Doubling(ch) == [c \in Chars |-> IF c = ch THEN <<ch, ch>> ELSE <<c>>]

Single == [c \in Chars |-> <<c>>]

\* Both are tables of pieces.
LEMMA TablesOfChars ==
    ASSUME NEW ch \in Chars
    PROVE  Doubling(ch) \in [Chars -> Seq(Chars)] /\ Single \in [Chars -> Seq(Chars)]
<1>1. \A c \in Chars : <<c>> \in Seq(Chars) /\ <<ch, ch>> \in Seq(Chars)
  OBVIOUS
<1> QED
  BY <1>1 DEF Doubling, Single

\* A character in a row after a text, or after another one.
LEMMA OneMore ==
    \A c \in Chars : /\ <<c>> \in Seq(Chars)
                     /\ \A w \in Seq(Chars) : /\ Append(w, c) \in Seq(Chars)
                                              /\ Append(w, c) = w \o <<c>>
OBVIOUS

\* Two characters in a row.
LEMMA Pair ==
    \A a \in Chars, b \in Chars : <<a>> \o <<b>> = <<a, b>>
<1>1. SUFFICES ASSUME NEW a \in Chars, NEW b \in Chars
               PROVE  <<a>> \o <<b>> = <<a, b>>
  OBVIOUS
<1> DEFINE x == <<a>>
           y == <<b>>
           z == <<a, b>>
<1>2. /\ x \in Seq(Chars) /\ Len(x) = 1 /\ x[1] = a
      /\ y \in Seq(Chars) /\ Len(y) = 1 /\ y[1] = b
  OBVIOUS
<1>3. z \in Seq(Chars) /\ Len(z) = 2 /\ z[1] = a /\ z[2] = b
  OBVIOUS
<1> HIDE DEF x, y, z
<1>7. \A s \in Seq(Chars), t \in Seq(Chars) :
         /\ s \o t \in Seq(Chars) /\ Len(s \o t) = Len(s) + Len(t)
         /\ \A i \in 1..Len(s) : (s \o t)[i] = s[i]
         /\ \A i \in 1..Len(t) : (s \o t)[Len(s) + i] = t[i]
  OBVIOUS
<1>4. x \o y \in Seq(Chars) /\ Len(x \o y) = 2
  BY <1>2, <1>7
<1>5. (x \o y)[1] = a /\ (x \o y)[2] = b
  <2>1. /\ \A i \in 1..Len(x) : (x \o y)[i] = x[i]
        /\ \A i \in 1..Len(y) : (x \o y)[Len(x) + i] = y[i]
    BY <1>2, <1>7
  <2>2. 1 \in 1..Len(x) /\ 1 \in 1..Len(y) /\ Len(x) + 1 = 2
    BY <1>2
  <2> QED
    BY <1>2, <2>1, <2>2
<1>6. x \o y = z
  BY <1>3, <1>4, <1>5, SeqEqual
<1> QED
  BY <1>6 DEF x, y, z

\* Doubled puts the pieces of the first together.
LEMMA DoubledSpreads ==
    ASSUME NEW ch \in Chars, NEW w \in Seq(Chars)
    PROVE  Doubled(w, ch) = Spread(Doubling(ch), w) /\ Doubled(w, ch) \in Seq(Chars)
<1>1. \A i \in DOMAIN w : w[i] \in Chars
  OBVIOUS
<1>2. [i \in DOMAIN w |-> IF w[i] = ch THEN <<ch, ch>> ELSE <<w[i]>>]
        = [i \in DOMAIN w |-> Doubling(ch)[w[i]]]
  BY <1>1 DEF Doubling
<1>3. Doubled(w, ch) = Spread(Doubling(ch), w)
  BY <1>2 DEF Doubled, Spread
<1>4. Spreads(Chars, Chars, Doubling(ch))
  BY TablesOfChars, SpreadAll
<1> QED
  BY <1>3, <1>4 DEF Spreads

\* The second changes nothing.
LEMMA SpreadSingle ==
    ASSUME NEW w \in Seq(Chars)
    PROVE  Spread(Single, w) = w
<1> DEFINE N == {x \in Seq(Chars) : Spread(Single, x) = x}
<1>1. <<>> \in N
  BY SpreadEmpty
<1>2. ASSUME NEW x \in Seq(Chars), NEW c \in Chars, x \in N
      PROVE  Append(x, c) \in N
  <2>1. Single[c] = <<c>> /\ Spreads(Chars, Chars, Single)
    BY TablesOfChars, SpreadAll DEF Single
  <2>2. Spread(Single, Append(x, c)) = Spread(Single, x) \o Single[c]
    BY <2>1 DEF Spreads
  <2>3. x \o <<c>> = Append(x, c) /\ Append(x, c) \in Seq(Chars)
    OBVIOUS
  <2> QED
    BY <1>2, <2>1, <2>2, <2>3
<1>3. w \in N
  <2> HIDE DEF N
  <2> QED
    BY <1>1, <1>2, SeqInduction
<1> QED
  BY <1>3

\* What is in a text with one character more, and in one after another.
LEMMA ContainsMore ==
    ASSUME NEW s \in Seq(Chars), NEW e
    PROVE  /\ \A c \in Chars : Contains(Append(s, c), e) <=> Contains(s, e) \/ c = e
           /\ \A t \in Seq(Chars) : Contains(s \o t, e) <=> Contains(s, e) \/ Contains(t, e)
<1>1. \A t \in Seq(Chars) : Contains(s \o t, e) <=> Contains(s, e) \/ Contains(t, e)
  BY ContainsJoined
<1>2. ASSUME NEW c \in Chars
      PROVE  Contains(Append(s, c), e) <=> Contains(s, e) \/ c = e
  <2> DEFINE one == <<c>>
  <2>1. one \in Seq(Chars) /\ Append(s, c) = s \o one /\ Len(one) = 1 /\ one[1] = c
    OBVIOUS
  <2> HIDE DEF one
  <2>2. Contains(one, e) <=> c = e
    BY <2>1 DEF Contains
  <2> QED
    BY <1>1, <2>1, <2>2
<1> QED
  BY <1>1, <1>2

\* Doubling puts nothing in that was not there.
LEMMA ContainsDoubled ==
    ASSUME NEW ch \in Chars, NEW w \in Seq(Chars), NEW e
    PROVE  Contains(Doubled(w, ch), e) <=> Contains(w, e)
<1> DEFINE D == Doubling(ch)
           N == {x \in Seq(Chars) : Contains(Spread(D, x), e) <=> Contains(x, e)}
<1>1. D \in [Chars -> Seq(Chars)] /\ \A c \in Chars : D[c] = IF c = ch THEN <<ch, ch>> ELSE <<c>>
  BY TablesOfChars DEF Doubling
<1> HIDE DEF D
<1>2. <<>> \in N
  BY SpreadEmpty
<1>3. ASSUME NEW x \in Seq(Chars), NEW c \in Chars, x \in N
      PROVE  Append(x, c) \in N
  <2>1. Spread(D, x) \in Seq(Chars) /\ Spread(D, Append(x, c)) = Spread(D, x) \o D[c]
    <3>1. Spreads(Chars, Chars, D)
      BY <1>1, SpreadAll
    <3> QED
      BY <3>1 DEF Spreads
  <2>2. Contains(D[c], e) <=> c = e
    <3> DEFINE p == D[c]
    <3>1. p[1] = c /\ (Len(p) = 1 \/ (Len(p) = 2 /\ p[2] = c))
      BY <1>1
    <3> HIDE DEF p
    <3>2. Contains(p, e) <=> c = e
      BY <3>1 DEF Contains
    <3> QED
      BY <3>2 DEF p
  <2>3. D[c] \in Seq(Chars)
    BY <1>1
  <2>4. Contains(Spread(D, x) \o D[c], e) <=> Contains(Spread(D, x), e) \/ Contains(D[c], e)
    BY <2>1, <2>3, ContainsMore
  <2>5. Contains(Append(x, c), e) <=> Contains(x, e) \/ c = e
    BY ContainsMore
  <2>6. Append(x, c) \in Seq(Chars)
    OBVIOUS
  <2> QED
    BY <1>3, <2>1, <2>2, <2>4, <2>5, <2>6
<1>4. w \in N
  <2> HIDE DEF N
  <2> QED
    BY <1>2, <1>3, SeqInduction
<1> QED
  BY <1>4, DoubledSpreads DEF D

\* Condor's reading of double quotes, as a fold.
Halves == [half : BOOLEAN, out : Seq(Chars)]

Whole(out) == [half |-> FALSE, out |-> out]

Undoubling == [c \in Chars |-> [acc \in Halves |-> UndoubleStep(acc, c)]]

\* A character takes what has been read so far to what has been read then.
LEMMA UndoublingType ==
    /\ Undoubling \in [Chars -> [Halves -> Halves]]
    /\ \A out \in Seq(Chars) : Whole(out) \in Halves
<1>1. ASSUME NEW c \in Chars, NEW acc \in Halves
      PROVE  UndoubleStep(acc, c) \in Halves
  <2>1. Append(acc.out, c) \in Seq(Chars)
    BY DEF Halves
  <2> QED
    BY <2>1 DEF Halves, UndoubleStep
<1> QED
  BY <1>1 DEF Undoubling, Halves, Whole

\* Undoubled is the fold of that table.
LEMMA UndoubledFolded ==
    ASSUME NEW text \in Seq(Chars)
    PROVE  Undoubled(text) = Folded(Undoubling, Whole(<<>>), text).out
<1> DEFINE b == [half |-> FALSE, out |-> <<>>]
           IsIter(f) == f = [x \in SUBSET DOMAIN text |->
                                IF x = {} THEN b ELSE UndoubleStep(f[x \ {Max(x)}], text[Max(x)])]
<1>1. Undoubling \in [Chars -> [Halves -> Halves]] /\ b \in Halves /\ b = Whole(<<>>)
  <2>1. <<>> \in Seq(Chars)
    OBVIOUS
  <2> QED
    BY <2>1, UndoublingType DEF Whole
<1>2. \E f : IsIter(f)
  <2> HIDE DEF b
  <2>1. PICK f : f \in Iterators(Undoubling, Halves, b, text)
    BY <1>1, IteratorExists
  <2>2. IsIter(f)
    BY <2>1, LastOf DEF Undoubling, Iterators
  <2> HIDE DEF IsIter
  <2> QED
    BY <2>2
<1>3. PICK f : IsIter(f) /\ Undoubled(text) = f[DOMAIN text].out
  BY <1>2 DEF Undoubled, FoldLeft, MapThenFoldSet
<1> HIDE DEF b
<1>4. Iterates(Undoubling, Halves, b, text, f)
  BY <1>3, LastOf DEF Undoubling, Iterates
<1> HIDE DEF IsIter
<1>5. f[DOMAIN text] = Folded(Undoubling, b, text)
  BY <1>1, <1>4, LastOf, IteratorFolds
<1> QED
  BY <1>1, <1>3, <1>5

\* What it does with a double quote, and with another character.
LEMMA QuoteStep ==
    ASSUME NEW out \in Seq(Chars)
    PROVE  /\ [half |-> TRUE, out |-> out] \in Halves
           /\ UndoubleStep(Whole(out), Dq) = [half |-> TRUE, out |-> out]
           /\ UndoubleStep([half |-> TRUE, out |-> out], Dq) = Whole(Append(out, Dq))
           /\ \A c \in Chars : c # Dq => UndoubleStep(Whole(out), c) = Whole(Append(out, c))
<1>1. [half |-> TRUE, out |-> out] \in Halves
  BY DEF Halves
<1>2. UndoubleStep(Whole(out), Dq) = [half |-> TRUE, out |-> out]
  BY DEF UndoubleStep, Whole, Dq
<1>3. UndoubleStep([half |-> TRUE, out |-> out], Dq) = Whole(Append(out, Dq))
  BY DEF UndoubleStep, Whole
<1>4. \A c \in Chars : c # Dq => UndoubleStep(Whole(out), c) = Whole(Append(out, c))
  BY DEF UndoubleStep, Whole, Dq
<1> QED
  BY <1>1, <1>2, <1>3, <1>4

\* Text that is written as from and read as to, from outside of an escape.
ReadAs(from, to) ==
    \A out \in Seq(Chars) : Folded(Undoubling, Whole(out), from) = Whole(out \o to)

\* One character more, and one text after the other.
LEMMA ReadsOn ==
    /\ ReadAs(<<>>, <<>>)
    /\ \A c \in Chars : c # Dq => ReadAs(<<c>>, <<c>>)
    /\ ReadAs(<<Dq, Dq>>, <<Dq>>)
    /\ \A s \in Seq(Chars), t \in Seq(Chars), x \in Seq(Chars), y \in Seq(Chars) :
          ReadAs(s, x) /\ ReadAs(t, y) => ReadAs(s \o t, x \o y)
<1>1. /\ Undoubling \in [Chars -> [Halves -> Halves]]
      /\ \A out \in Seq(Chars) : Whole(out) \in Halves
      /\ Dq \in Chars
  BY UndoublingType, SomeChars
<1>2. Folds(Chars, Halves, Undoubling)
  BY <1>1, FoldedAll
<1>3. \A acc \in Halves, c \in Chars : Folded(Undoubling, acc, <<c>>) = UndoubleStep(acc, c)
  BY <1>2 DEF Folds, Undoubling
<1>4. \A acc \in Halves, s \in Seq(Chars), t \in Seq(Chars) :
         Folded(Undoubling, acc, s \o t) = Folded(Undoubling, Folded(Undoubling, acc, s), t)
  BY <1>2 DEF Folds
<1>5. ReadAs(<<>>, <<>>)
  <2>1. \A out \in Seq(Chars) : out \o <<>> = out
    OBVIOUS
  <2> QED
    BY <2>1, FoldedEmpty DEF ReadAs
<1>6. ASSUME NEW c \in Chars, c # Dq
      PROVE  ReadAs(<<c>>, <<c>>)
  <2>1. ASSUME NEW out \in Seq(Chars)
        PROVE  Folded(Undoubling, Whole(out), <<c>>) = Whole(out \o <<c>>)
    <3>1. UndoubleStep(Whole(out), c) = Whole(Append(out, c))
      BY <1>6, QuoteStep
    <3>2. Append(out, c) = out \o <<c>>
      OBVIOUS
    <3> QED
      BY <1>1, <1>3, <3>1, <3>2
  <2> QED
    BY <2>1 DEF ReadAs
<1>7. ASSUME NEW s \in Seq(Chars), NEW t \in Seq(Chars), NEW x \in Seq(Chars), NEW y \in Seq(Chars),
             ReadAs(s, x), ReadAs(t, y)
      PROVE  ReadAs(s \o t, x \o y)
  <2>1. ASSUME NEW out \in Seq(Chars)
        PROVE  Folded(Undoubling, Whole(out), s \o t) = Whole(out \o (x \o y))
    <3> DEFINE z == out \o x
    <3>1. z \in Seq(Chars) /\ z \o y = out \o (x \o y)
      <4>1. z \in Seq(Chars)
        OBVIOUS
      <4>2. z \o y = out \o (x \o y)
        <5>1. Associates(Chars)
          BY AssociatesAll
        <5> QED
          BY <5>1 DEF Associates
      <4> QED
        BY <4>1, <4>2
    <3>2. Folded(Undoubling, Whole(out), s) = Whole(z)
      BY <1>7 DEF ReadAs
    <3> HIDE DEF z
    <3>3. Folded(Undoubling, Whole(z), t) = Whole(z \o y)
      BY <1>7, <3>1 DEF ReadAs
    <3>4. Whole(out) \in Halves
      BY <1>1
    <3>5. Folded(Undoubling, Whole(out), s \o t) = Folded(Undoubling, Whole(z), t)
      BY <1>4, <3>2, <3>4
    <3> QED
      BY <3>1, <3>3, <3>5
  <2> QED
    BY <2>1 DEF ReadAs
<1>8. ReadAs(<<Dq, Dq>>, <<Dq>>)
  <2>1. ASSUME NEW out \in Seq(Chars)
        PROVE  Folded(Undoubling, Whole(out), <<Dq, Dq>>) = Whole(out \o <<Dq>>)
    <3> DEFINE half == [half |-> TRUE, out |-> out]
               one == <<Dq>>
    <3>1. /\ half \in Halves
          /\ UndoubleStep(Whole(out), Dq) = half
          /\ UndoubleStep(half, Dq) = Whole(Append(out, Dq))
      BY QuoteStep
    <3>2. Append(out, Dq) = out \o one /\ one \in Seq(Chars) /\ <<Dq, Dq>> = one \o one
      BY <1>1
    <3> HIDE DEF half
    <3>3. Folded(Undoubling, Whole(out), one) = half
      BY <1>1, <1>3, <3>1
    <3>4. Folded(Undoubling, half, one) = Whole(Append(out, Dq))
      BY <1>1, <1>3, <3>1
    <3> HIDE DEF one
    <3>5. Folded(Undoubling, Whole(out), one \o one) = Folded(Undoubling, half, one)
      BY <1>1, <1>4, <3>2, <3>3
    <3> QED
      BY <3>2, <3>4, <3>5 DEF one
  <2> QED
    BY <2>1 DEF ReadAs
<1> QED
  BY <1>5, <1>6, <1>7, <1>8

\* What holds of the pieces holds of the text.
LEMMA SpreadReadAs ==
    ASSUME NEW S, NEW P \in [S -> Seq(Chars)], NEW Q \in [S -> Seq(Chars)],
           \A c \in S : ReadAs(P[c], Q[c])
    PROVE  \A w \in Seq(S) : ReadAs(Spread(P, w), Spread(Q, w))
<1> DEFINE N == {w \in Seq(S) : ReadAs(Spread(P, w), Spread(Q, w))}
<1>1. Spreads(S, Chars, P) /\ Spreads(S, Chars, Q)
  BY SpreadAll
<1>2. <<>> \in N
  <2>1. Spread(P, <<>>) = <<>> /\ Spread(Q, <<>>) = <<>> /\ <<>> \in Seq(S)
    BY SpreadEmpty
  <2> QED
    BY <2>1, ReadsOn
<1>3. ASSUME NEW w \in Seq(S), NEW c \in S, w \in N
      PROVE  Append(w, c) \in N
  <2> DEFINE x == Spread(P, w)
             y == Spread(Q, w)
  <2>1. /\ x \in Seq(Chars) /\ P[c] \in Seq(Chars) /\ Spread(P, Append(w, c)) = x \o P[c]
        /\ y \in Seq(Chars) /\ Q[c] \in Seq(Chars) /\ Spread(Q, Append(w, c)) = y \o Q[c]
    BY <1>1 DEF Spreads
  <2>2. ReadAs(x, y) /\ ReadAs(P[c], Q[c])
    BY <1>3
  <2>3. Append(w, c) \in Seq(S)
    OBVIOUS
  <2> HIDE DEF x, y
  <2>4. ReadAs(x \o P[c], y \o Q[c])
    BY <2>1, <2>2, ReadsOn
  <2> QED
    BY <2>1, <2>3, <2>4
<1> HIDE DEF N
<1>4. \A w \in Seq(S) : w \in N
  BY <1>2, <1>3, SeqInduction
<1> QED
  BY <1>4 DEF N

\* A word for Condor, once double quotes are read: in single quotes, or not.
InQuotes(w) == Contains(w, "'") \/ Contains(w, " ")

SingleQuoted(w) == <<"'">> \o Doubled(w, "'") \o <<"'">>

Kept(w) == IF InQuotes(w) THEN SingleQuoted(w) ELSE w

\* Doubled double quotes are read singly, whether or not single ones are doubled, too.
LEMMA DoubledReadAs ==
    ASSUME NEW w \in Seq(Chars)
    PROVE  /\ Doubled(w, Dq) \in Seq(Chars) /\ Doubled(w, "'") \in Seq(Chars)
           /\ Doubled(Doubled(w, Dq), "'") \in Seq(Chars)
           /\ ReadAs(Doubled(w, Dq), w)
           /\ ReadAs(Doubled(Doubled(w, Dq), "'"), Doubled(w, "'"))
<1> DEFINE d == Doubled(w, Dq)
           P == Doubling(Dq)
           R == Doubling("'")
           Q == [c \in Chars |-> Spread(R, P[c])]
<1>1. /\ Dq \in Chars /\ "'" \in Chars /\ Dq # "'"
      /\ P \in [Chars -> Seq(Chars)] /\ R \in [Chars -> Seq(Chars)]
      /\ Single \in [Chars -> Seq(Chars)]
  BY TablesOfChars, SomeChars
<1>2. /\ \A c \in Chars : c # Dq => P[c] = <<c>> /\ (c # "'" => R[c] = <<c>>)
      /\ P[Dq] = <<Dq, Dq>> /\ R["'"] = <<"'", "'">> /\ R[Dq] = <<Dq>>
      /\ \A c \in Chars : Single[c] = <<c>>
      /\ \A c \in Chars : Q[c] = Spread(R, P[c])
  BY <1>1 DEF Doubling, Single
<1>3. d = Spread(P, w) /\ d \in Seq(Chars)
  BY <1>1, DoubledSpreads
<1>4. Doubled(w, "'") = Spread(R, w) /\ Doubled(w, "'") \in Seq(Chars)
  BY <1>1, DoubledSpreads
<1>5. Doubled(d, "'") = Spread(R, d) /\ Doubled(d, "'") \in Seq(Chars)
  <2> HIDE DEF d
  <2> QED
    BY <1>1, <1>3, DoubledSpreads
<1>6. Q \in [Chars -> Seq(Chars)]
  <2>1. Spreads(Chars, Chars, R) /\ \A c \in Chars : P[c] \in Seq(Chars)
    BY <1>1, SpreadAll
  <2>2. \A c \in Chars : Spread(R, P[c]) \in Seq(Chars)
    BY <2>1 DEF Spreads
  <2> QED
    BY <2>2
<1> HIDE DEF d, P, R, Q
<1>9. \A c \in Chars : Spread(R, <<c>>) = R[c]
  BY <1>1, SpreadOne
<1>7. ReadAs(d, w)
  <2>1. \A c \in Chars : ReadAs(P[c], Single[c])
    BY <1>1, <1>2, ReadsOn
  <2>2. ReadAs(Spread(P, w), Spread(Single, w))
    BY <1>1, <2>1, SpreadReadAs
  <2> QED
    BY <1>3, <2>2, SpreadSingle
<1>8. ReadAs(Doubled(d, "'"), Doubled(w, "'"))
  <2>1. Spread(R, Spread(P, w)) = Spread(Q, w)
    <3>1. Joins(Chars, Chars, P, R, Q)
      BY <1>1, <1>2 DEF Joins
    <3>2. Spreads(Chars, Chars, P) /\ Spreads(Chars, Chars, R) /\ Spreads(Chars, Chars, Q)
      BY <1>1, <1>6, SpreadAll
    <3> QED
      BY <3>1, <3>2, SpreadTwice
  <2>2. ASSUME NEW c \in Chars
        PROVE  ReadAs(Q[c], R[c])
    <3>1. CASE c = Dq
      <4> DEFINE one == <<Dq>>
      <4>1. /\ one \in Seq(Chars) /\ Append(one, Dq) = <<Dq, Dq>>
            /\ one \o one = <<Dq, Dq>>
        BY <1>1, OneMore, Pair
      <4>2. Spread(R, one) = one
        BY <1>1, <1>2, <1>9
      <4> HIDE DEF one
      <4>3. Spread(R, Append(one, Dq)) = one \o R[Dq]
        <5>1. Spreads(Chars, Chars, R)
          BY <1>1, SpreadAll
        <5> QED
          BY <1>1, <4>1, <4>2, <5>1 DEF Spreads
      <4>4. Q[c] = <<Dq, Dq>> /\ R[c] = one
        BY <1>2, <3>1, <4>1, <4>3 DEF one
      <4>5. ReadAs(<<Dq, Dq>>, one)
        BY ReadsOn DEF one
      <4> QED
        BY <4>4, <4>5
    <3>2. CASE c # Dq
      <4>1. Q[c] = R[c]
        BY <1>2, <1>9, <3>2
      <4>2. ReadAs(<<c>>, <<c>>)
        BY <3>2, ReadsOn
      <4>3. ReadAs(<<c, c>>, <<c, c>>)
        <5>1. <<c, c>> = <<c>> \o <<c>> /\ <<c>> \in Seq(Chars)
          OBVIOUS
        <5> QED
          BY <4>2, <5>1, ReadsOn
      <4>4. R[c] = <<c>> \/ R[c] = <<c, c>>
        BY <1>2, <3>2
      <4> QED
        BY <4>1, <4>2, <4>3, <4>4
    <3> QED
      BY <3>1, <3>2
  <2>3. ReadAs(Spread(Q, w), Spread(R, w))
    BY <1>1, <1>6, <2>2, SpreadReadAs
  <2> QED
    BY <1>3, <1>4, <1>5, <2>1, <2>3
<1> QED
  BY <1>3, <1>4, <1>5, <1>7, <1>8 DEF d

\* So what the adaptor writes for a word reads as the word, in single quotes or not.
LEMMA QuotedReadAs ==
    ASSUME NEW w \in Seq(Chars)
    PROVE  Quoted(w) \in Seq(Chars) /\ Kept(w) \in Seq(Chars) /\ ReadAs(Quoted(w), Kept(w))
<1> DEFINE d == Doubled(w, Dq)
           x == Doubled(d, "'")
           y == Doubled(w, "'")
           quote == <<"'">>
<1>1. "'" \in Chars /\ Dq \in Chars /\ "'" # Dq
  BY SomeChars
<1>2. quote \in Seq(Chars) /\ ReadAs(quote, quote)
  BY <1>1, ReadsOn
<1>3. /\ d \in Seq(Chars) /\ x \in Seq(Chars) /\ y \in Seq(Chars)
      /\ ReadAs(d, w) /\ ReadAs(x, y)
  BY DoubledReadAs
<1>4. (Contains(d, "'") \/ Contains(d, " ")) <=> InQuotes(w)
  BY <1>1, ContainsDoubled DEF InQuotes
<1>5. Quoted(w) = IF Contains(d, "'") \/ Contains(d, " ") THEN quote \o x \o quote ELSE d
  BY Zenon DEF Quoted, Dq
<1> HIDE DEF d, x, y, quote
<1>6. quote \o x \in Seq(Chars) /\ quote \o y \in Seq(Chars)
  BY <1>2, <1>3
<1>7. quote \o x \o quote \in Seq(Chars) /\ quote \o y \o quote \in Seq(Chars)
  BY <1>2, <1>6
<1>8. ReadAs(quote \o x, quote \o y)
  BY <1>2, <1>3, ReadsOn
<1>9. ReadAs(quote \o x \o quote, quote \o y \o quote)
  BY <1>2, <1>6, <1>8, ReadsOn
<1>10. Kept(w) = IF InQuotes(w) THEN quote \o y \o quote ELSE w
  BY DEF Kept, SingleQuoted, quote, y
<1> QED
  BY <1>3, <1>4, <1>5, <1>7, <1>9, <1>10

-----------------------------------------------------------------------------
(* How Condor splits the text into words, as a fold.                        *)

Splits == [in : {"gap", "word", "quotes", "close"}, word : Seq(Chars), done : Seq(Seq(Chars))]

At(where, word, done) == [in |-> where, word |-> word, done |-> done]

Splitting == [c \in Chars |-> [acc \in Splits |-> SplitStep(acc, c)]]

Cut(acc, text) == Folded(Splitting, acc, text)

\* The fields of a place.
LEMMA AtType ==
    ASSUME NEW where \in {"gap", "word", "quotes", "close"}, NEW word \in Seq(Chars),
           NEW done \in Seq(Seq(Chars))
    PROVE  /\ At(where, word, done) \in Splits
           /\ At(where, word, done).in = where
           /\ At(where, word, done).word = word
           /\ At(where, word, done).done = done
BY DEF At, Splits

\* A place with one field or two changed.
LEMMA AtExcept ==
    ASSUME NEW acc \in Splits, NEW x \in {"gap", "word", "quotes", "close"}, NEW y \in Seq(Chars)
    PROVE  /\ [acc EXCEPT !.in = x] = At(x, acc.word, acc.done)
           /\ [acc EXCEPT !.word = y] = At(acc.in, y, acc.done)
           /\ [acc EXCEPT !.in = x, !.word = y] = At(x, y, acc.done)
<1>1. [acc EXCEPT !.in = x] = At(x, acc.word, acc.done)
  BY DEF At, Splits
<1>2. [acc EXCEPT !.word = y] = At(acc.in, y, acc.done)
  BY DEF At, Splits
<1>3. [acc EXCEPT !.in = x, !.word = y] = At(x, y, acc.done)
  <2> DEFINE r == [acc EXCEPT !.in = x, !.word = y]
  <2>1. r \in Splits
    BY DEF Splits
  <2>2. r.in = x /\ r.word = y /\ r.done = acc.done
    BY DEF Splits
  <2> HIDE DEF r
  <2>3. r = At(x, y, acc.done)
    BY <2>1, <2>2 DEF At, Splits
  <2> QED
    BY <2>3 DEF r
<1> QED
  BY <1>1, <1>2, <1>3

\* One step of it, from wherever it is.
LEMMA SplitSteps ==
    ASSUME NEW where \in {"gap", "word", "quotes", "close"}, NEW word \in Seq(Chars),
           NEW done \in Seq(Seq(Chars)), NEW c \in Chars
    PROVE  SplitStep(At(where, word, done), c)
             = IF where = "quotes" THEN
                   IF c = "'" THEN At("close", word, done)
                   ELSE At(where, Append(word, c), done)
               ELSE IF c = "'" THEN
                   IF where = "close" THEN At("quotes", Append(word, c), done)
                   ELSE At("quotes", word, done)
               ELSE IF c \notin Space THEN At("word", Append(word, c), done)
               ELSE IF where = "gap" THEN At(where, word, done)
               ELSE At("gap", <<>>, Append(done, word))
<1> DEFINE acc == At(where, word, done)
           more == Append(word, c)
<1>1. /\ acc \in Splits /\ acc.in = where /\ acc.word = word /\ acc.done = done
      /\ Append(acc.word, c) = more
  BY AtType
<1>2. more \in Seq(Chars)
  OBVIOUS
<1> HIDE DEF acc, more
<1>3. /\ [acc EXCEPT !.in = "close"] = At("close", word, done)
      /\ [acc EXCEPT !.word = more] = At(where, more, done)
      /\ [acc EXCEPT !.in = "quotes", !.word = more] = At("quotes", more, done)
      /\ [acc EXCEPT !.in = "quotes", !.word = word] = At("quotes", word, done)
      /\ [acc EXCEPT !.in = "word", !.word = more] = At("word", more, done)
  BY <1>1, <1>2, AtExcept
<1>4. SplitStep(acc, c)
        = IF where = "quotes" THEN
              IF c = "'" THEN [acc EXCEPT !.in = "close"] ELSE [acc EXCEPT !.word = more]
          ELSE IF c = "'" THEN
              [acc EXCEPT !.in = "quotes", !.word = IF where = "close" THEN more ELSE word]
          ELSE IF c \notin Space THEN [acc EXCEPT !.in = "word", !.word = more]
          ELSE IF where = "gap" THEN acc
          ELSE [in |-> "gap", word |-> <<>>, done |-> Append(done, word)]
  BY <1>1, Zenon DEF SplitStep
<1>5. CASE where = "quotes"
  BY <1>3, <1>4, <1>5 DEF acc, more
<1>6. CASE where # "quotes" /\ c = "'" /\ where = "close"
  BY <1>3, <1>4, <1>6 DEF acc, more
<1>7. CASE where # "quotes" /\ c = "'" /\ where # "close"
  BY <1>3, <1>4, <1>7 DEF acc, more
<1>8. CASE where # "quotes" /\ c # "'" /\ c \notin Space
  BY <1>3, <1>4, <1>8 DEF acc, more
<1>9. CASE where # "quotes" /\ c # "'" /\ c \in Space
  BY <1>3, <1>4, <1>9 DEF acc, At
<1> QED
  BY <1>5, <1>6, <1>7, <1>8, <1>9

\* A character takes a place to a place.
LEMMA SplittingType == Splitting \in [Chars -> [Splits -> Splits]]
<1>1. ASSUME NEW c \in Chars, NEW acc \in Splits
      PROVE  SplitStep(acc, c) \in Splits
  <2>1. PICK where \in {"gap", "word", "quotes", "close"}, word \in Seq(Chars),
             done \in Seq(Seq(Chars)) : acc = At(where, word, done)
    BY DEF At, Splits
  <2>2. /\ Append(word, c) \in Seq(Chars) /\ <<>> \in Seq(Chars)
        /\ Append(done, word) \in Seq(Seq(Chars))
    OBVIOUS
  <2> DEFINE more == Append(word, c)
             over == Append(done, word)
  <2>3. /\ SplitStep(acc, c) \in {At("close", word, done), At(where, more, done),
                                  At("quotes", more, done), At("quotes", word, done),
                                  At("word", more, done), At(where, word, done),
                                  At("gap", <<>>, over)}
    BY <2>1, SplitSteps
  <2>4. /\ At("close", word, done) \in Splits /\ At(where, more, done) \in Splits
        /\ At("quotes", more, done) \in Splits /\ At("quotes", word, done) \in Splits
        /\ At("word", more, done) \in Splits /\ At(where, word, done) \in Splits
        /\ At("gap", <<>>, over) \in Splits
    <3> HIDE DEF more, over
    <3> QED
      BY <2>2, AtType DEF more, over
  <2> HIDE DEF more, over
  <2> QED
    BY <2>3, <2>4
<1> QED
  BY <1>1 DEF Splitting

\* The words: those that are done, and one that no white space follows.
Ended(end) == IF end.in = "gap" THEN end.done ELSE Append(end.done, end.word)

\* Arguments is the fold of that table, over what double quotes leave.
LEMMA ArgumentsFolded ==
    ASSUME NEW text, Undoubled(text) \in Seq(Chars)
    PROVE  Arguments(text) = Ended(Cut(At("gap", <<>>, <<>>), Undoubled(text)))
<1> DEFINE s == Undoubled(text)
           b == [in |-> "gap", word |-> <<>>, done |-> <<>>]
           IsIter(f) == f = [x \in SUBSET DOMAIN s |->
                                IF x = {} THEN b ELSE SplitStep(f[x \ {Max(x)}], s[Max(x)])]
<1>1. Splitting \in [Chars -> [Splits -> Splits]] /\ b \in Splits /\ b = At("gap", <<>>, <<>>)
  <2>1. <<>> \in Seq(Chars) /\ <<>> \in Seq(Seq(Chars))
    OBVIOUS
  <2>2. b = At("gap", <<>>, <<>>)
    BY DEF At
  <2>3. At("gap", <<>>, <<>>) \in Splits
    BY <2>1, AtType
  <2> HIDE DEF b
  <2> QED
    BY <2>2, <2>3, SplittingType
<1>2. \E f : IsIter(f)
  <2> HIDE DEF b, s
  <2>0. s \in Seq(Chars)
    BY DEF s
  <2>1. PICK f : f \in Iterators(Splitting, Splits, b, s)
    BY <1>1, <2>0, IteratorExists
  <2>2. IsIter(f)
    BY <2>0, <2>1, LastOf DEF Splitting, Iterators
  <2> HIDE DEF IsIter
  <2> QED
    BY <2>2
<1>3. PICK f : IsIter(f) /\ Arguments(text) = Ended(f[DOMAIN s])
  BY <1>2 DEF Arguments, FoldLeft, MapThenFoldSet, Ended
<1> HIDE DEF b, s
<1>0. s \in Seq(Chars)
  BY DEF s
<1>4. Iterates(Splitting, Splits, b, s, f)
  BY <1>0, <1>3, LastOf DEF Splitting, Iterates
<1> HIDE DEF IsIter
<1>5. f[DOMAIN s] = Folded(Splitting, b, s)
  BY <1>0, <1>1, <1>4, LastOf, IteratorFolds
<1> QED
  BY <1>1, <1>3, <1>5 DEF Cut, s

\* Splitting on: nothing, one character, one more, one text after the other.
LEMMA CutOn ==
    ASSUME NEW acc \in Splits
    PROVE  /\ Cut(acc, <<>>) = acc
           /\ \A c \in Chars : Cut(acc, <<c>>) = SplitStep(acc, c)
           /\ \A s \in Seq(Chars) : Cut(acc, s) \in Splits
           /\ \A s \in Seq(Chars), c \in Chars : Cut(acc, Append(s, c)) = SplitStep(Cut(acc, s), c)
           /\ \A s \in Seq(Chars), t \in Seq(Chars) : Cut(acc, s \o t) = Cut(Cut(acc, s), t)
<1>1. Folds(Chars, Splits, Splitting)
  BY SplittingType, FoldedAll, SomeChars
<1>2. \A x \in Splits, c \in Chars : Splitting[c][x] = SplitStep(x, c)
  BY DEF Splitting
<1> QED
  BY <1>1, <1>2 DEF Folds, Cut

\* Inside of single quotes everything is kept, and two of them are one.
LEMMA CutQuoted ==
    ASSUME NEW x \in Seq(Chars), NEW done \in Seq(Seq(Chars)), NEW w \in Seq(Chars)
    PROVE  Cut(At("quotes", x, done), Doubled(w, "'")) = At("quotes", x \o w, done)
<1> DEFINE R == Doubling("'")
           acc == At("quotes", x, done)
           N == {u \in Seq(Chars) : Cut(acc, Spread(R, u)) = At("quotes", x \o u, done)}
<1>1. "'" \in Chars /\ Spreads(Chars, Chars, R)
  BY SomeChars, TablesOfChars, SpreadAll
<1>2. \A c \in Chars : R[c] = IF c = "'" THEN <<"'", "'">> ELSE <<c>>
  BY DEF Doubling
<1>3. \A u \in Seq(Chars) : At("quotes", u, done) \in Splits /\ At("close", u, done) \in Splits
  BY AtType
<1> HIDE DEF R
<1>4. <<>> \in N
  <2>1. x \o <<>> = x /\ <<>> \in Seq(Chars) /\ Spread(R, <<>>) = <<>>
    BY SpreadEmpty
  <2>2. acc \in Splits
    BY <1>3
  <2> HIDE DEF acc
  <2>3. Cut(acc, <<>>) = acc
    BY <2>2, CutOn
  <2> QED
    BY <2>1, <2>3 DEF acc
<1>5. ASSUME NEW u \in Seq(Chars), NEW c \in Chars, u \in N
      PROVE  Append(u, c) \in N
  <2> DEFINE y == x \o u
             now == At("quotes", y, done)
             read == Spread(R, u)
  <2>1. y \in Seq(Chars) /\ x \o Append(u, c) = Append(y, c) /\ Append(u, c) \in Seq(Chars)
    OBVIOUS
  <2>2. Spread(R, Append(u, c)) = read \o R[c] /\ read \in Seq(Chars)
    BY <1>1 DEF Spreads
  <2>3. acc \in Splits /\ Cut(acc, read) = now
    BY <1>3, <1>5
  <2> HIDE DEF y, read, acc
  <2>4. now \in Splits
    BY <1>3, <2>1
  <2>5. Cut(now, R[c]) = At("quotes", Append(y, c), done)
    <3>1. CASE c = "'"
      <4> DEFINE one == <<"'">>
                 closed == At("close", y, done)
      <4>1. one \in Seq(Chars) /\ R[c] = one \o one
        BY <1>1, <1>2, <3>1, OneMore, Pair
      <4>2. Cut(now, one) = closed /\ closed \in Splits
        <5>1. SplitStep(now, "'") = closed
          BY <1>1, <2>1, SplitSteps
        <5> HIDE DEF now
        <5>2. Cut(now, one) = SplitStep(now, "'")
          BY <1>1, <2>4, CutOn
        <5> QED
          BY <1>3, <2>1, <5>1, <5>2
      <4>3. Cut(closed, one) = At("quotes", Append(y, c), done)
        <5>1. SplitStep(closed, "'") = At("quotes", Append(y, c), done)
          BY <1>1, <2>1, <3>1, SplitSteps
        <5>2. closed \in Splits
          BY <4>2
        <5> HIDE DEF closed
        <5>3. Cut(closed, one) = SplitStep(closed, "'")
          BY <1>1, <5>2, CutOn
        <5> QED
          BY <5>1, <5>3
      <4> HIDE DEF one, now, closed
      <4>4. Cut(now, one \o one) = Cut(Cut(now, one), one)
        BY <2>4, <4>1, CutOn
      <4> QED
        BY <4>1, <4>2, <4>3, <4>4
    <3>2. CASE c # "'"
      <4>1. R[c] = <<c>>
        BY <1>2, <3>2
      <4>2. SplitStep(now, c) = At("quotes", Append(y, c), done)
        BY <2>1, <3>2, SplitSteps
      <4> HIDE DEF now
      <4>3. Cut(now, <<c>>) = SplitStep(now, c)
        BY <2>4, CutOn
      <4> QED
        BY <4>1, <4>2, <4>3
    <3> QED
      BY <3>1, <3>2
  <2> HIDE DEF now
  <2>6. R[c] \in Seq(Chars)
    <3>1. <<"'", "'">> \in Seq(Chars) /\ <<c>> \in Seq(Chars)
      BY <1>1
    <3> QED
      BY <1>2, <3>1
  <2>7. Cut(acc, read \o R[c]) = Cut(now, R[c])
    BY <2>2, <2>3, <2>6, CutOn
  <2> QED
    BY <2>1, <2>2, <2>5, <2>7
<1>6. w \in N
  <2> HIDE DEF N
  <2> QED
    BY <1>4, <1>5, SeqInduction
<1> QED
  BY <1>1, <1>6, DoubledSpreads DEF R

\* Words that Condor does not lose.
Sound(words) == \A i \in 1..Len(words) : ~LostWord(words[i])

\* One word more.
LEMMA SoundAppend ==
    ASSUME NEW words \in Seq(Seq(Chars)), NEW w \in Seq(Chars)
    PROVE  Sound(Append(words, w)) <=> Sound(words) /\ ~LostWord(w)
<1> DEFINE all == Append(words, w)
<1>1. /\ Len(words) \in Nat /\ Len(all) = Len(words) + 1 /\ all[Len(words) + 1] = w
      /\ \A i \in 1..Len(words) : all[i] = words[i]
  OBVIOUS
<1> HIDE DEF all
<1>2. \A i \in 1..Len(all) : i \in 1..Len(words) \/ i = Len(words) + 1
  BY <1>1
<1>3. 1..Len(words) \subseteq 1..Len(all) /\ Len(words) + 1 \in 1..Len(all)
  BY <1>1
<1>4. Sound(all) <=> Sound(words) /\ ~LostWord(w)
  BY <1>1, <1>2, <1>3 DEF Sound
<1> QED
  BY <1>4 DEF all

\* Between two words.
LEMMA AtGap ==
    ASSUME NEW done \in Seq(Seq(Chars))
    PROVE  /\ At("gap", <<>>, done) \in Splits
           /\ At("gap", <<>>, done).in = "gap"
           /\ At("gap", <<>>, done).word = <<>>
           /\ At("gap", <<>>, done).done = done
<1>1. <<>> \in Seq(Chars)
  OBVIOUS
<1> QED
  BY <1>1 DEF At, Splits

\* Where reading is, outside of quotes, after text without any.
Loose(acc, done) ==
    /\ acc.in \in {"gap", "word"} /\ acc.word \in Seq(Chars)
    /\ acc.done \in Seq(Seq(Chars))
    /\ Sound(acc.done)
    /\ ~Contains(acc.word, "tab") /\ (acc.in = "gap" <=> acc.word = <<>>)

\* A text without quotes and spaces is the next word, or falls apart into words that arrive.
LEMMA CutLoose ==
    ASSUME NEW done \in Seq(Seq(Chars)), Sound(done), NEW w \in Seq(Chars), ~InQuotes(w)
    PROVE  LET end == Cut(At("gap", <<>>, done), w)
           IN  /\ Loose(end, done)
               /\ ~Contains(w, "tab") => end.word = w /\ end.done = done
<1> DEFINE acc == At("gap", <<>>, done)
           Good(u) == /\ Loose(Cut(acc, u), done)
                      /\ ~Contains(u, "tab") => Cut(acc, u).word = u /\ Cut(acc, u).done = done
           N == {u \in Seq(Chars) : InQuotes(u) \/ Good(u)}
<1>1. /\ acc \in Splits /\ acc.in = "gap" /\ acc.word = <<>> /\ acc.done = done
      /\ <<>> \in Seq(Chars)
  BY AtGap
<1> HIDE DEF acc
<1>2. <<>> \in N
  <2>1. ~Contains(<<>>, "tab")
    BY DEF Contains
  <2>2. Cut(acc, <<>>) = acc
    BY <1>1, CutOn
  <2>3. Good(<<>>)
    BY <1>1, <2>1, <2>2 DEF Loose
  <2> HIDE DEF Good
  <2> QED
    BY <1>1, <2>3
<1>3. ASSUME NEW u \in Seq(Chars), NEW c \in Chars, u \in N
      PROVE  Append(u, c) \in N
  <2> DEFINE at == Cut(acc, u)
             next == Cut(acc, Append(u, c))
  <2>1. Append(u, c) \in Seq(Chars)
    OBVIOUS
  <2>2. InQuotes(Append(u, c)) <=> InQuotes(u) \/ c = "'" \/ c = " "
    BY ContainsMore DEF InQuotes
  <2>3. Contains(Append(u, c), "tab") <=> Contains(u, "tab") \/ c = "tab"
    BY ContainsMore
  <2>4. CASE ~InQuotes(u) /\ c # "'" /\ c # " "
    <3>1. Good(u)
      BY <1>3, <2>4
    <3>2. next = SplitStep(at, c) /\ at \in Splits
      BY <1>1, CutOn
    <3> DEFINE word == at.word
               was == at.done
    <3>3. /\ at.in \in {"gap", "word"} /\ word \in Seq(Chars) /\ was \in Seq(Seq(Chars))
          /\ Sound(was) /\ ~Contains(word, "tab") /\ (at.in = "gap" <=> word = <<>>)
          /\ ~Contains(u, "tab") => word = u /\ was = done
      BY <3>1 DEF Loose
    <3>4. at = At(at.in, word, was)
      BY <3>2 DEF Splits, At
    <3> HIDE DEF at, next, word, was
    <3>5. next = IF c \notin Space THEN At("word", Append(word, c), was)
                 ELSE IF at.in = "gap" THEN at ELSE At("gap", <<>>, Append(was, word))
      <4>1. at.in \in {"gap", "word", "quotes", "close"} /\ at.in # "quotes"
        BY <3>3
      <4> DEFINE where == at.in
      <4>2. at = At(where, word, was)
        BY <3>4
      <4> HIDE DEF where
      <4>3. SplitStep(At(where, word, was), c)
              = IF where = "quotes" THEN
                    IF c = "'" THEN At("close", word, was)
                    ELSE At(where, Append(word, c), was)
                ELSE IF c = "'" THEN
                    IF where = "close" THEN At("quotes", Append(word, c), was)
                    ELSE At("quotes", word, was)
                ELSE IF c \notin Space THEN At("word", Append(word, c), was)
                ELSE IF where = "gap" THEN At(where, word, was)
                ELSE At("gap", <<>>, Append(was, word))
        BY <3>3, <4>1, SplitSteps DEF where
      <4> QED
        BY <2>4, <3>2, <4>1, <4>2, <4>3 DEF where
    <3>6. c \in Space <=> c = "tab"
      BY <2>4 DEF Space
    <3>7. Loose(next, done) /\ (~Contains(Append(u, c), "tab") =>
                                   next.word = Append(u, c) /\ next.done = done)
      <4>1. CASE c \notin Space
        <5> DEFINE more == Append(word, c)
        <5>1. more \in Seq(Chars) /\ more # <<>> /\ ~Contains(more, "tab")
          <6>1. Contains(more, "tab") <=> Contains(word, "tab") \/ c = "tab"
            BY <3>3, ContainsMore
          <6>2. more \in Seq(Chars) /\ Len(more) = Len(word) + 1 /\ Len(word) \in Nat
            BY <3>3
          <6>3. Len(<<>>) = 0
            OBVIOUS
          <6> HIDE DEF more
          <6> QED
            BY <3>3, <3>6, <4>1, <6>1, <6>2, <6>3
        <5>2. next.in = "word" /\ next.word = more /\ next.done = was
          <6>1. next = At("word", more, was)
            BY <3>5, <4>1
          <6> HIDE DEF more
          <6> QED
            BY <3>3, <5>1, <6>1, AtType
        <5>3. Loose(next, done)
          <6> HIDE DEF more
          <6> QED
            BY <3>3, <5>1, <5>2 DEF Loose
        <5> QED
          BY <2>3, <3>3, <5>2, <5>3
      <4>2. CASE c \in Space /\ at.in = "gap"
        BY <2>3, <3>3, <3>5, <3>6, <4>2 DEF Loose, word, was
      <4>3. CASE c \in Space /\ at.in # "gap"
        <5> DEFINE over == Append(was, word)
        <5>1. ~LostWord(word)
          BY <3>3, <4>3 DEF LostWord
        <5>2. over \in Seq(Seq(Chars)) /\ Sound(over)
          BY <3>3, <5>1, SoundAppend
        <5>3. next.in = "gap" /\ next.word = <<>> /\ next.done = over
          <6>1. next = At("gap", <<>>, over)
            BY <3>5, <4>3
          <6> HIDE DEF over
          <6> QED
            BY <5>2, <6>1, AtGap
        <5> HIDE DEF over
        <5>4. ~Contains(<<>>, "tab")
          BY DEF Contains
        <5>5. Loose(next, done)
          BY <1>1, <5>2, <5>3, <5>4 DEF Loose
        <5> QED
          BY <2>3, <3>6, <4>3, <5>5
      <4> QED
        BY <4>1, <4>2, <4>3
    <3>8. Good(Append(u, c))
      BY <3>7 DEF next
    <3> HIDE DEF Good
    <3> QED
      BY <2>1, <3>8
  <2>5. CASE InQuotes(u) \/ c = "'" \/ c = " "
    <3> HIDE DEF Good
    <3> QED
      BY <2>1, <2>2, <2>5
  <2> QED
    BY <2>4, <2>5
<1>4. w \in N
  <2> HIDE DEF N
  <2> QED
    BY <1>2, <1>3, SeqInduction
<1>5. Good(w)
  BY <1>4
<1> QED
  BY <1>5 DEF acc

\* A word that a space follows: read from a gap, and up to the next one.
LEMMA CutWord ==
    ASSUME NEW done \in Seq(Seq(Chars)), Sound(done), NEW w \in Seq(Chars)
    PROVE  \E all \in Seq(Seq(Chars)) :
              /\ Cut(At("gap", <<>>, done), Append(Kept(w), " ")) = At("gap", <<>>, all)
              /\ Sound(all)
              /\ ~LostWord(w) => all = Append(done, w)
<1> DEFINE acc == At("gap", <<>>, done)
           kept == Kept(w)
           over == Append(done, w)
<1>1. acc \in Splits /\ kept \in Seq(Chars) /\ over \in Seq(Seq(Chars)) /\ <<>> \in Seq(Chars)
  BY AtGap, QuotedReadAs
<1>2. " " \in Chars /\ "'" \in Chars /\ " " # "'" /\ " " \in Space
  BY SomeChars DEF Space
<1>3. Cut(acc, Append(kept, " ")) = SplitStep(Cut(acc, kept), " ")
  <2> DEFINE blank == " "
  <2>1. acc \in Splits /\ kept \in Seq(Chars) /\ blank \in Chars
    BY <1>1, <1>2
  <2> HIDE DEF acc, kept, blank
  <2>2. Folds(Chars, Splits, Splitting)
    BY SplittingType, FoldedAll, SomeChars
  <2>3. Cut(acc, kept) \in Splits
    BY <2>1, <2>2 DEF Folds, Cut
  <2>4. Cut(acc, Append(kept, blank)) = Splitting[blank][Cut(acc, kept)]
    BY <2>1, <2>2 DEF Folds, Cut
  <2>5. Cut(acc, Append(kept, blank)) = SplitStep(Cut(acc, kept), blank)
    BY <2>1, <2>3, <2>4 DEF Splitting
  <2> QED
    BY <2>5 DEF blank
<1>4. CASE InQuotes(w)
  <2> DEFINE quote == <<"'">>
             d == Doubled(w, "'")
             open == At("quotes", <<>>, done)
             filled == At("quotes", w, done)
             closed == At("close", w, done)
  <2>1. kept = quote \o d \o quote /\ quote \in Seq(Chars) /\ d \in Seq(Chars)
    <3>1. quote \in Seq(Chars)
      BY <1>2, OneMore, Zenon
    <3>2. d \in Seq(Chars)
      BY <1>2, DoubledSpreads
    <3>3. kept = quote \o d \o quote
      BY <1>4, Zenon DEF Kept, SingleQuoted
    <3> QED
      BY <3>1, <3>2, <3>3
  <2>2. open \in Splits /\ filled \in Splits /\ closed \in Splits
    BY <1>1, AtType
  <2>3. Cut(open, d) = filled
    <3>1. <<>> \o w = w
      OBVIOUS
    <3> QED
      BY <1>1, <3>1, CutQuoted
  <2>4. SplitStep(acc, "'") = open
    BY <1>1, <1>2, SplitSteps
  <2>5. SplitStep(filled, "'") = closed
    BY <1>1, <1>2, SplitSteps
  <2>6. SplitStep(closed, " ") = At("gap", <<>>, over)
    <3>1. "close" \in {"gap", "word", "quotes", "close"} /\ "close" # "quotes" /\ "close" # "gap"
      OBVIOUS
    <3> QED
      BY <1>2, <3>1, SplitSteps
  <2> HIDE DEF d, open, filled, closed, acc
  <2>7. Cut(acc, quote) = open
    BY <1>1, <1>2, <2>4, CutOn
  <2>8. Cut(filled, quote) = closed
    BY <1>2, <2>2, <2>5, CutOn
  <2> HIDE DEF quote
  <2>9. Cut(acc, quote \o d) = filled /\ quote \o d \in Seq(Chars)
    <3>1. Cut(acc, quote \o d) = Cut(Cut(acc, quote), d)
      BY <1>1, <2>1, CutOn
    <3> QED
      BY <2>1, <2>3, <2>7, <3>1
  <2>10. Cut(acc, quote \o d \o quote) = closed
    <3> DEFINE mid == quote \o d
    <3>1. mid \in Seq(Chars) /\ Cut(acc, mid) = filled
      BY <2>9
    <3> HIDE DEF mid
    <3>2. Cut(acc, mid \o quote) = Cut(Cut(acc, mid), quote)
      BY <1>1, <2>1, <3>1, CutOn
    <3> QED
      BY <2>8, <3>1, <3>2 DEF mid
  <2>11. ~LostWord(w)
    <3>1. Len(<<>>) = 0
      OBVIOUS
    <3>2. ~Contains(<<>>, "'") /\ ~Contains(<<>>, " ")
      BY <3>1 DEF Contains
    <3>3. w # <<>>
      BY <1>4, <3>2 DEF InQuotes
    <3> QED
      BY <1>4, <3>3 DEF LostWord, InQuotes
  <2>12. Sound(over)
    BY <2>11, SoundAppend
  <2> HIDE DEF kept, over
  <2>13. Cut(acc, Append(kept, " ")) = At("gap", <<>>, over)
    BY <1>3, <2>1, <2>6, <2>10
  <2> QED
    BY <1>1, <2>12, <2>13 DEF acc, kept, over
<1>5. CASE ~InQuotes(w)
  <2> DEFINE at == Cut(acc, w)
             word == at.word
             was == at.done
             more == Append(was, word)
  <2>1. kept = w
    BY <1>5 DEF Kept
  <2>2. Loose(at, done) /\ (~Contains(w, "tab") => word = w /\ was = done)
    BY <1>5, CutLoose
  <2>3. at \in Splits
    <3> HIDE DEF acc
    <3> QED
      BY <1>1, CutOn
  <2> HIDE DEF at
  <2>4. /\ at.in \in {"gap", "word"} /\ word \in Seq(Chars) /\ was \in Seq(Seq(Chars))
        /\ Sound(was) /\ ~Contains(word, "tab") /\ (at.in = "gap" <=> word = <<>>)
    BY <2>2 DEF Loose
  <2>5. at = At(at.in, word, was)
    BY <2>3 DEF Splits, At
  <2>6. ~LostWord(w) => ~Contains(w, "tab") /\ w # <<>>
    BY <1>5 DEF LostWord, InQuotes
  <2>7. CASE at.in = "gap"
    <3> HIDE DEF word, was
    <3>1. at = At("gap", <<>>, was)
      BY <2>4, <2>5, <2>7
    <3>2. SplitStep(At("gap", <<>>, was), " ") = At("gap", <<>>, was)
      BY <1>1, <1>2, <2>4, SplitSteps
    <3>3. Cut(acc, Append(kept, " ")) = At("gap", <<>>, was)
      BY <1>3, <2>1, <3>1, <3>2 DEF at
    <3>4. LostWord(w)
      BY <2>2, <2>4, <2>6, <2>7
    <3> QED
      BY <2>4, <3>3, <3>4 DEF acc, kept
  <2>8. CASE at.in = "word"
    <3> HIDE DEF word, was
    <3>1. at = At("word", word, was)
      BY <2>5, <2>8
    <3>2. SplitStep(At("word", word, was), " ") = At("gap", <<>>, more)
      BY <1>2, <2>4, SplitSteps
    <3>3. Cut(acc, Append(kept, " ")) = At("gap", <<>>, more)
      BY <1>3, <2>1, <3>1, <3>2 DEF at
    <3>4. ~LostWord(word)
      BY <2>4, <2>8 DEF LostWord
    <3>5. more \in Seq(Seq(Chars)) /\ Sound(more)
      BY <2>4, <3>4, SoundAppend
    <3>6. ~LostWord(w) => more = over
      BY <2>2, <2>6
    <3> HIDE DEF more, over
    <3> QED
      BY <3>3, <3>5, <3>6 DEF acc, kept, over
  <2> QED
    BY <2>4, <2>7, <2>8
<1> QED
  BY <1>4, <1>5

\* The words as the adaptor writes them, and as they are once double quotes are read.
Written == [w \in Seq(Chars) |-> Append(Quoted(w), " ")]
Unquoted == [w \in Seq(Chars) |-> Append(Kept(w), " ")]

\* All the words read, once double quotes are, as their unquoted forms.
LEMMA WrittenReadAs ==
    ASSUME NEW v \in Seq(Seq(Chars))
    PROVE  /\ Spreads(Seq(Chars), Chars, Unquoted)
           /\ ArgumentText(v) \in Seq(Chars)
           /\ ReadAs(ArgumentText(v), Spread(Unquoted, v))
<1> DEFINE S == Seq(Chars)
           space == <<" ">>
<1>1. " " \in Chars /\ Dq # " "
  BY SomeChars
<1>2. \A w \in S : Quoted(w) \in Seq(Chars) /\ Kept(w) \in Seq(Chars) /\ ReadAs(Quoted(w), Kept(w))
  BY QuotedReadAs
<1>3. space \in Seq(Chars) /\ ReadAs(space, space)
  <2>1. space \in Seq(Chars)
    BY <1>1, OneMore, Zenon
  <2>2. ReadAs(<<" ">>, <<" ">>)
    BY <1>1, ReadsOn
  <2> QED
    BY <2>1, <2>2
<1>4. \A w \in Seq(Chars) : Append(w, " ") = w \o space /\ Append(w, " ") \in Seq(Chars)
  BY <1>1, OneMore, Zenon
<1>5. Written \in [S -> Seq(Chars)] /\ Unquoted \in [S -> Seq(Chars)]
  BY <1>2, <1>4 DEF Written, Unquoted
<1> HIDE DEF space
<1>6. \A w \in S : ReadAs(Written[w], Unquoted[w])
  <2>1. ASSUME NEW w \in S
        PROVE  ReadAs(Written[w], Unquoted[w])
    <3>1. Written[w] = Quoted(w) \o space /\ Unquoted[w] = Kept(w) \o space
      BY <1>2, <1>4 DEF Written, Unquoted
    <3>2. ReadAs(Quoted(w) \o space, Kept(w) \o space)
      BY <1>2, <1>3, ReadsOn
    <3> QED
      BY <3>1, <3>2
  <2> QED
    BY <2>1
<1>7. ArgumentText(v) = Spread(Written, v)
  <2>1. \A i \in DOMAIN v : v[i] \in S
    OBVIOUS
  <2>2. [i \in DOMAIN v |-> Append(Quoted(v[i]), " ")] = [i \in DOMAIN v |-> Written[v[i]]]
    BY <2>1 DEF Written
  <2> QED
    BY <2>2 DEF ArgumentText, Spread
<1> HIDE DEF S
<1>8. ReadAs(Spread(Written, v), Spread(Unquoted, v))
  BY <1>5, <1>6, SpreadReadAs DEF S
<1>9. Spreads(S, Chars, Written) /\ Spreads(S, Chars, Unquoted)
  BY <1>5, SpreadAll
<1> QED
  BY <1>7, <1>8, <1>9 DEF S, Spreads

\* All the words, one after the other.
LEMMA CutWords ==
    ASSUME NEW v \in Seq(Seq(Chars))
    PROVE  \E all \in Seq(Seq(Chars)) :
              /\ Cut(At("gap", <<>>, <<>>), Spread(Unquoted, v)) = At("gap", <<>>, all)
              /\ Sound(all)
              /\ Sound(v) => all = v
<1> DEFINE acc == At("gap", <<>>, <<>>)
           Good(u, all) == /\ Cut(acc, Spread(Unquoted, u)) = At("gap", <<>>, all)
                           /\ Sound(all)
                           /\ Sound(u) => all = u
           N == {u \in Seq(Seq(Chars)) : \E all \in Seq(Seq(Chars)) : Good(u, all)}
<1>1. acc \in Splits /\ Spreads(Seq(Chars), Chars, Unquoted)
  <2>1. <<>> \in Seq(Seq(Chars))
    OBVIOUS
  <2> QED
    BY <2>1, AtGap, WrittenReadAs
<1>2. \A w \in Seq(Chars) : Unquoted[w] = Append(Kept(w), " ") /\ Unquoted[w] \in Seq(Chars)
  <2>1. " " \in Chars
    BY SomeChars
  <2>2. ASSUME NEW w \in Seq(Chars)
        PROVE  Append(Kept(w), " ") \in Seq(Chars)
    <3>1. Kept(w) \in Seq(Chars)
      BY QuotedReadAs
    <3> QED
      BY <2>1, <3>1, OneMore, Zenon
  <2> QED
    BY <2>2 DEF Unquoted
<1> HIDE DEF acc
<1>3. <<>> \in N
  <2> DEFINE none == <<>>
  <2>1. none \in Seq(Seq(Chars)) /\ Len(none) = 0
    OBVIOUS
  <2>2. Sound(none)
    BY DEF Sound
  <2>3. Cut(acc, Spread(Unquoted, none)) = acc
    BY <1>1, CutOn, SpreadEmpty
  <2>4. acc = At("gap", <<>>, none)
    BY DEF acc
  <2> HIDE DEF none
  <2>5. Good(none, none)
    BY <2>2, <2>3, <2>4
  <2> QED
    BY <2>1, <2>5 DEF none
<1>4. ASSUME NEW u \in Seq(Seq(Chars)), NEW w \in Seq(Chars), u \in N
      PROVE  Append(u, w) \in N
  <2>1. PICK was \in Seq(Seq(Chars)) : Good(u, was)
    BY <1>4
  <2>2. PICK all \in Seq(Seq(Chars)) :
           /\ Cut(At("gap", <<>>, was), Append(Kept(w), " ")) = At("gap", <<>>, all)
           /\ Sound(all)
           /\ ~LostWord(w) => all = Append(was, w)
    BY <2>1, CutWord
  <2> DEFINE from == Spread(Unquoted, u)
             next == Append(u, w)
  <2>3. from \in Seq(Chars) /\ Spread(Unquoted, next) = from \o Unquoted[w]
    BY <1>1 DEF Spreads
  <2>4. Sound(next) <=> Sound(u) /\ ~LostWord(w)
    BY SoundAppend
  <2>5. next \in Seq(Seq(Chars))
    OBVIOUS
  <2>6. Cut(acc, from) = At("gap", <<>>, was)
    BY <2>1
  <2>7. Sound(next) => all = next
    BY <2>1, <2>2, <2>4
  <2> HIDE DEF from, next
  <2>8. Cut(acc, from \o Unquoted[w]) = Cut(Cut(acc, from), Unquoted[w])
    <3> DEFINE piece == Unquoted[w]
    <3>1. piece \in Seq(Chars) /\ from \in Seq(Chars) /\ acc \in Splits
      BY <1>1, <1>2, <2>3
    <3> HIDE DEF piece
    <3>2. Cut(acc, from \o piece) = Cut(Cut(acc, from), piece)
      BY <3>1, CutOn
    <3> QED
      BY <3>2 DEF piece
  <2>9. Good(next, all)
    BY <1>2, <2>2, <2>3, <2>6, <2>7, <2>8
  <2> HIDE DEF Good
  <2> QED
    BY <2>5, <2>9 DEF next
<1>5. v \in N
  <2> HIDE DEF N
  <2> QED
    BY <1>3, <1>4, SeqInduction
<1> QED
  BY <1>5 DEF acc

\* So ArgumentsArrive holds of every input.
LEMMA ArgumentsOfInput ==
    ASSUME NEW v \in Seq(Seq(Chars)),
           Translated("arguments", v, Arguments(ArgumentText(v)))
    PROVE  ArgumentsArrive'
<1> DEFINE text == ArgumentText(v)
           to == Spread(Unquoted, v)
           acc == At("gap", <<>>, <<>>)
<1>1. text \in Seq(Chars) /\ to \in Seq(Chars) /\ ReadAs(text, to)
  BY WrittenReadAs DEF Spreads
<1>2. PICK all \in Seq(Seq(Chars)) : /\ Cut(acc, to) = At("gap", <<>>, all)
                                     /\ Sound(all)
                                     /\ Sound(v) => all = v
  BY CutWords
<1> HIDE DEF text, to, acc
<1>3. Undoubled(text) = to
  <2>1. <<>> \in Seq(Chars) /\ <<>> \o to = to
    BY <1>1
  <2>2. Folded(Undoubling, Whole(<<>>), text) = Whole(<<>> \o to)
    BY <1>1, <2>1 DEF ReadAs
  <2> QED
    BY <1>1, <2>1, <2>2, UndoubledFolded DEF Whole
<1>4. Arguments(text) = Ended(Cut(acc, to))
  BY <1>1, <1>3, ArgumentsFolded DEF acc
<1>5. Arguments(text) = all
  BY <1>2, <1>4, AtGap DEF Ended
<1>6. all = v <=> Sound(v)
  BY <1>2
<1>7. kind' = "arguments" /\ given' = v /\ got' = all
  BY <1>5 DEF Translated, text
<1>8. DOMAIN v = 1..Len(v)
  OBVIOUS
<1> QED
  BY <1>6, <1>7, <1>8 DEF ArgumentsArrive, Sound

-----------------------------------------------------------------------------
(* Values: what is replaced in an escaped text is what was escaped, and,    *)
(* once "&" is decoded, the text of an entity that the value itself held.   *)

\* "&", which is the entity of a name like the others.
Amp == "&"

Escapable == {Entity[n] : n \in EntityNames}

\* Names are characters that are not escaped, each has a character of its own, and "&" is one of those.
LEMMA EntityFacts ==
    /\ \A n \in EntityNames : n \in Chars /\ Entity[n] \in Chars /\ n \notin Escapable
    /\ \A m \in EntityNames, n \in EntityNames : Entity[m] = Entity[n] => m = n
    /\ "amp" \in EntityNames /\ Entity["amp"] = Amp /\ Amp \in Chars /\ Amp \in Escapable
    /\ Amp \notin EntityNames
<1>1. /\ Entity["quot"] = Dq /\ Entity["amp"] = Amp /\ Entity["apos"] = "'"
      /\ Entity["lt"] = "<" /\ Entity["gt"] = ">"
  BY Zenon DEF Entity, EntityNames, Dq, Amp
<1>2. /\ Dq # "'" /\ Dq # "<" /\ Dq # ">" /\ Dq # Amp
      /\ \A n \in EntityNames : n # Dq
  BY DEF Dq, Amp, EntityNames
<1>3. \A n \in EntityNames : n \in {"quot", "amp", "apos", "lt", "gt"}
  BY DEF EntityNames
<1>4. Dq \in Chars /\ Amp \in Chars /\ "'" \in Chars /\ "<" \in Chars /\ ">" \in Chars
  BY DEF Chars, Specials, Dq, Amp
<1>5. \A n \in EntityNames : n \in Chars
  BY DEF Chars, Specials
<1>6. \A n \in EntityNames : Entity[n] \in Chars
  BY <1>1, <1>3, <1>4
<1>7. \A m \in EntityNames, n \in EntityNames : Entity[m] = Entity[n] => m = n
  BY <1>1, <1>2, <1>3 DEF Amp
<1>8. \A m \in EntityNames, n \in EntityNames : n # Entity[m]
  BY <1>1, <1>2, <1>3 DEF Amp
<1>9. "amp" \in EntityNames
  BY DEF EntityNames
<1> QED
  BY <1>1, <1>4, <1>5, <1>6, <1>7, <1>8, <1>9 DEF Escapable

\* The text ends in "&", as that of an entity could begin.
Open(s) == s # <<>> /\ s[Len(s)] = Amp

\* Text is open if and only if "&" is what it was continued with.
LEMMA OpenAppend ==
    ASSUME NEW s \in Seq(Chars)
    PROVE  /\ \A c \in Chars : Open(Append(s, c)) <=> c = Amp
           /\ ~Open(<<>>)
           /\ Open(s) => \E r \in Seq(Chars) : s = Append(r, Amp)
<1>1. ASSUME NEW c \in Chars
      PROVE  Open(Append(s, c)) <=> c = Amp
  <2> DEFINE t == Append(s, c)
  <2>1. Len(s) \in Nat /\ Len(t) = Len(s) + 1 /\ t[Len(t)] = c
    OBVIOUS
  <2>2. Len(<<>>) = 0
    OBVIOUS
  <2> HIDE DEF t
  <2>3. t # <<>>
    BY <2>1, <2>2
  <2>4. Open(t) <=> c = Amp
    BY <2>1, <2>3 DEF Open
  <2> QED
    BY <2>4 DEF t
<1>2. ASSUME Open(s)
      PROVE  \E r \in Seq(Chars) : s = Append(r, Amp)
  <2> DEFINE N == {t \in Seq(Chars) : t = <<>> \/ \E r \in Seq(Chars), c \in Chars : t = Append(r, c)}
  <2>1. <<>> \in N
    OBVIOUS
  <2>2. ASSUME NEW t \in Seq(Chars), NEW c \in Chars, t \in N
        PROVE  Append(t, c) \in N
    <3>1. Append(t, c) \in Seq(Chars)
      OBVIOUS
    <3> QED
      BY <3>1
  <2>3. s \in N
    <3> HIDE DEF N
    <3> QED
      BY <2>1, <2>2, SeqInduction
  <2>4. PICK r \in Seq(Chars), c \in Chars : s = Append(r, c)
    BY <1>2, <2>3 DEF Open
  <2>5. s[Len(s)] = c
    BY <2>4
  <2> QED
    BY <1>2, <2>4, <2>5 DEF Open
<1> QED
  BY <1>1, <1>2 DEF Open

\* The pieces that Replaced puts together.
Found(text, name, i) == i \in 1..(Len(text) - 1) /\ text[i] = Amp /\ text[i + 1] = name

Piece(text, name, i) ==
    IF Found(text, name, i) THEN <<>>
    ELSE IF Found(text, name, i - 1) THEN <<Entity[name]>>
    ELSE <<text[i]>>

Pieces(text, name) == [i \in 1..Len(text) |-> Piece(text, name, i)]

\* Replaced puts them together.
LEMMA ReplacedPieces ==
    ASSUME NEW text \in Seq(Chars), NEW name \in EntityNames
    PROVE  /\ Replaced(text, name) = FlattenSeq(Pieces(text, name))
           /\ Pieces(text, name) \in Seq(Seq(Chars))
<1>1. DOMAIN text = 1..Len(text) /\ Len(text) \in Nat
  OBVIOUS
<1>2. Replaced(text, name) = FlattenSeq(Pieces(text, name))
  BY <1>1, Zenon DEF Replaced, Pieces, Piece, Found, Amp
<1>3. \A i \in 1..Len(text) : Piece(text, name, i) \in Seq(Chars)
  <2>1. ASSUME NEW i \in 1..Len(text)
        PROVE  Piece(text, name, i) \in Seq(Chars)
    <3>0. text[i] \in Chars
      OBVIOUS
    <3>1. text[i] \in Chars /\ Entity[name] \in Chars
      BY <3>0, EntityFacts
    <3>2. /\ <<text[i]>> \in Seq(Chars) /\ <<Entity[name]>> \in Seq(Chars)
          /\ <<>> \in Seq(Chars)
      BY <3>1
    <3> QED
      BY <3>2 DEF Piece
  <2> QED
    BY <2>1
<1>4. Pieces(text, name) \in Seq(Seq(Chars))
  BY <1>1, <1>3, FunctionSeq DEF Pieces
<1> QED
  BY <1>2, <1>4

\* One character more, which does not end the text of an entity.
LEMMA ReplacedMore ==
    ASSUME NEW s \in Seq(Chars), NEW name \in EntityNames, NEW c \in Chars,
           ~(Open(s) /\ c = name)
    PROVE  Replaced(Append(s, c), name) = Append(Replaced(s, name), c)
<1> DEFINE t == Append(s, c)
           n == Len(s)
           p == Pieces(s, name)
           q == Pieces(t, name)
<1>1. /\ n \in Nat /\ t \in Seq(Chars) /\ Len(t) = n + 1 /\ t[n + 1] = c
      /\ \A i \in 1..n : t[i] = s[i]
  OBVIOUS
<1>2. /\ p \in Seq(Seq(Chars)) /\ q \in Seq(Seq(Chars))
      /\ Replaced(s, name) = FlattenSeq(p) /\ Replaced(t, name) = FlattenSeq(q)
  BY <1>1, ReplacedPieces
<1>3. /\ p = [i \in 1..n |-> Piece(s, name, i)]
      /\ q = [i \in 1..(n + 1) |-> Piece(t, name, i)]
  BY <1>1 DEF Pieces
<1> HIDE DEF t, p, q
<1>4. n \in 1..n => ~(s[n] = Amp /\ c = name)
  <2>1. n \in 1..n => s # <<>>
    <3>1. Len(<<>>) = 0
      OBVIOUS
    <3> QED
      BY <3>1
  <2> QED
    BY <2>1 DEF Open
<1> HIDE DEF n
<1>5. \A i \in 0..n : Found(t, name, i) <=> Found(s, name, i)
  <2>1. ASSUME NEW i \in 0..n
        PROVE  Found(t, name, i) <=> Found(s, name, i)
    <3>1. Found(s, name, i) <=> i \in 1..(n - 1) /\ s[i] = Amp /\ s[i + 1] = name
      BY DEF Found, n
    <3>2. Found(t, name, i) <=> i \in 1..n /\ t[i] = Amp /\ t[i + 1] = name
      <4>1. (n + 1) - 1 = n
        BY <1>1
      <4> QED
        BY <1>1, <4>1 DEF Found
    <3>3. CASE i = n
      <4>1. i \notin 1..(n - 1)
        BY <1>1, <3>3
      <4> QED
        BY <1>1, <1>4, <3>1, <3>2, <3>3, <4>1
    <3>4. CASE i # n
      <4>1. (i \in 1..n <=> i \in 1..(n - 1)) /\ (i \in 1..(n - 1) => i + 1 \in 1..n)
        BY <1>1, <3>4
      <4> QED
        BY <1>1, <3>1, <3>2, <4>1
    <3> QED
      BY <3>3, <3>4
  <2> QED
    BY <2>1
<1>6. \A i \in 1..n : q[i] = p[i]
  <2>1. ASSUME NEW i \in 1..n
        PROVE  q[i] = p[i]
    <3>1. i \in 0..n /\ i - 1 \in 0..n /\ i \in 1..(n + 1)
      BY <1>1
    <3>2. Piece(t, name, i) = Piece(s, name, i)
      BY <1>1, <1>5, <3>1 DEF Piece
    <3> QED
      BY <1>3, <3>1, <3>2
  <2> QED
    BY <2>1
<1>7. q[n + 1] = <<c>>
  <2>1. n + 1 \in 1..(n + 1) /\ (n + 1) - 1 = n /\ n \in 0..n /\ n + 1 \notin 1..n
    BY <1>1
  <2>2. ~Found(t, name, n + 1)
    BY <1>1, <2>1 DEF Found
  <2>3. ~Found(s, name, n)
    <3>1. n \notin 1..(n - 1)
      BY <1>1
    <3> QED
      BY <3>1 DEF Found, n
  <2>4. ~Found(t, name, (n + 1) - 1)
    BY <1>5, <2>1, <2>3
  <2>5. Piece(t, name, n + 1) = <<c>>
    BY <1>1, <2>2, <2>4 DEF Piece
  <2> QED
    BY <1>3, <2>1, <2>5
<1>8. q = Append(p, <<c>>)
  <2> DEFINE one == <<c>>
  <2>1. one \in Seq(Chars)
    OBVIOUS
  <2>2. Len(p) = n /\ Len(q) = n + 1
    BY <1>1, <1>2, <1>3
  <2> HIDE DEF one
  <2>3. /\ Append(p, one) \in Seq(Seq(Chars)) /\ Len(Append(p, one)) = n + 1
        /\ Append(p, one)[n + 1] = one /\ \A i \in 1..n : Append(p, one)[i] = p[i]
    BY <1>2, <2>1, <2>2
  <2>4. \A i \in 1..(n + 1) : i \in 1..n \/ i = n + 1
    BY <1>1
  <2>5. \A i \in 1..(n + 1) : q[i] = Append(p, one)[i]
    BY <1>6, <1>7, <2>3, <2>4 DEF one
  <2>6. q = Append(p, one)
    BY <1>2, <2>2, <2>3, <2>5, SeqEqual
  <2> QED
    BY <2>6 DEF one
<1>9. FlattenSeq(q) = FlattenSeq(p) \o <<c>> /\ FlattenSeq(p) \in Seq(Chars)
  <2>1. <<c>> \in Seq(Chars)
    OBVIOUS
  <2> QED
    BY <1>2, <1>8, <2>1, FlattenAppend
<1>10. FlattenSeq(p) \o <<c>> = Append(FlattenSeq(p), c)
  BY <1>9, OneMore
<1> QED
  BY <1>2, <1>9, <1>10 DEF t

\* The text of an entity.
LEMMA ReplacedEntity ==
    ASSUME NEW r \in Seq(Chars), NEW name \in EntityNames
    PROVE  /\ Replaced(Append(Append(r, Amp), name), name) = Append(Replaced(r, name), Entity[name])
           /\ Replaced(Append(r, Amp), name) = Append(Replaced(r, name), Amp)
           /\ Replaced(r, name) \in Seq(Chars)
<1> DEFINE s == Append(r, Amp)
           t == Append(s, name)
           n == Len(r)
           p == Pieces(r, name)
           q == Pieces(t, name)
           e == Entity[name]
<1>0. /\ Amp \in Chars /\ name \in Chars /\ Amp # name /\ e \in Chars
  BY EntityFacts
<1>1. /\ n \in Nat /\ s \in Seq(Chars) /\ t \in Seq(Chars)
      /\ Len(t) = n + 2 /\ t[n + 1] = Amp /\ t[n + 2] = name
      /\ \A i \in 1..n : t[i] = r[i]
  <2> HIDE DEF e
  <2>1. n \in Nat /\ s \in Seq(Chars) /\ Len(s) = n + 1 /\ s[n + 1] = Amp /\ \A i \in 1..n : s[i] = r[i]
    BY <1>0
  <2> HIDE DEF s
  <2>2. t \in Seq(Chars) /\ Len(t) = (n + 1) + 1 /\ t[(n + 1) + 1] = name /\ \A i \in 1..(n + 1) : t[i] = s[i]
    BY <1>0, <2>1
  <2>3. (n + 1) + 1 = n + 2 /\ n + 1 \in 1..(n + 1) /\ \A i \in 1..n : i \in 1..(n + 1)
    BY <2>1
  <2> HIDE DEF t, n
  <2> QED
    BY <2>1, <2>2, <2>3
<1>2. /\ p \in Seq(Seq(Chars)) /\ q \in Seq(Seq(Chars))
      /\ Replaced(r, name) = FlattenSeq(p) /\ Replaced(t, name) = FlattenSeq(q)
  <2> HIDE DEF t
  <2> QED
    BY <1>1, ReplacedPieces
<1>3. /\ p = [i \in 1..n |-> Piece(r, name, i)]
      /\ q = [i \in 1..(n + 2) |-> Piece(t, name, i)]
  <2> HIDE DEF t
  <2> QED
    BY <1>1 DEF Pieces
<1> HIDE DEF s, t, p, q
<1>4. \A i \in 0..n : Found(t, name, i) <=> Found(r, name, i)
  <2>1. ASSUME NEW i \in 0..n
        PROVE  Found(t, name, i) <=> Found(r, name, i)
    <3>1. Found(r, name, i) <=> i \in 1..(n - 1) /\ r[i] = Amp /\ r[i + 1] = name
      BY DEF Found
    <3> HIDE DEF n
    <3>2. Found(t, name, i) <=> i \in 1..(n + 1) /\ t[i] = Amp /\ t[i + 1] = name
      <4>1. (n + 2) - 1 = n + 1
        BY <1>1
      <4> QED
        BY <1>1, <4>1 DEF Found
    <3>3. CASE i = n
      <4>1. i \notin 1..(n - 1) /\ t[i + 1] # name
        BY <1>0, <1>1, <3>3
      <4> QED
        BY <3>1, <3>2, <4>1
    <3>4. CASE i # n
      <4>1. (i \in 1..(n + 1) <=> i \in 1..(n - 1)) /\ (i \in 1..(n - 1) => i \in 1..n /\ i + 1 \in 1..n)
        BY <1>1, <3>4
      <4> QED
        BY <1>1, <3>1, <3>2, <4>1
    <3> QED
      BY <3>3, <3>4
  <2> QED
    BY <2>1
<1>5. Found(t, name, n + 1) /\ ~Found(t, name, n + 2) /\ ~Found(t, name, n)
  <2>1. (n + 2) - 1 = n + 1 /\ n + 1 \in 1..(n + 1) /\ n + 2 \notin 1..(n + 1) /\ (n + 1) + 1 = n + 2
    BY <1>1
  <2> HIDE DEF n
  <2> QED
    BY <1>0, <1>1, <2>1 DEF Found
<1>6. \A i \in 1..n : q[i] = p[i]
  <2>1. ASSUME NEW i \in 1..n
        PROVE  q[i] = p[i]
    <3>1. i \in 0..n /\ i - 1 \in 0..n /\ i \in 1..(n + 2)
      BY <1>1
    <3> HIDE DEF n
    <3>2. Piece(t, name, i) = Piece(r, name, i)
      BY <1>1, <1>4, <3>1 DEF Piece
    <3> QED
      BY <1>3, <3>1, <3>2
  <2> QED
    BY <2>1
<1>7. q[n + 1] = <<>> /\ q[n + 2] = <<e>>
  <2>1. /\ n + 1 \in 1..(n + 2) /\ n + 2 \in 1..(n + 2)
        /\ (n + 2) - 1 = n + 1 /\ (n + 1) - 1 = n
    BY <1>1
  <2> HIDE DEF n
  <2>2. Piece(t, name, n + 1) = <<>> /\ Piece(t, name, n + 2) = <<e>>
    BY <1>5, <2>1 DEF Piece
  <2> QED
    BY <1>3, <2>1, <2>2
<1>8. q = Append(Append(p, <<>>), <<e>>)
  <2> DEFINE none == <<>>
             one == <<e>>
             u == Append(p, none)
             v == Append(u, one)
  <2>1. one \in Seq(Chars) /\ none \in Seq(Chars)
    BY <1>0
  <2>2. Len(p) = n /\ Len(q) = n + 2
    BY <1>1, <1>2, <1>3
  <2> HIDE DEF one, none, n
  <2>3. u \in Seq(Seq(Chars)) /\ Len(u) = n + 1 /\ u[n + 1] = none /\ \A i \in 1..n : u[i] = p[i]
    BY <1>2, <2>1, <2>2
  <2> HIDE DEF u
  <2>4. /\ v \in Seq(Seq(Chars)) /\ Len(v) = (n + 1) + 1 /\ v[(n + 1) + 1] = one
        /\ \A i \in 1..(n + 1) : v[i] = u[i]
    BY <2>1, <2>3
  <2>5. \A i \in 1..(n + 2) : i \in 1..n \/ i = n + 1 \/ i = n + 2
    BY <1>1
  <2>6. (n + 1) + 1 = n + 2 /\ n + 1 \in 1..(n + 1) /\ \A i \in 1..n : i \in 1..(n + 1)
    BY <1>1
  <2> HIDE DEF v
  <2>7. \A i \in 1..(n + 2) : q[i] = v[i]
    BY <1>6, <1>7, <2>3, <2>4, <2>5, <2>6 DEF one, none
  <2>8. q = v
    BY <1>2, <2>2, <2>4, <2>6, <2>7, SeqEqual
  <2> QED
    BY <2>8 DEF one, none, u, v
<1>9. Replaced(t, name) = Append(Replaced(r, name), e) /\ Replaced(r, name) \in Seq(Chars)
  <2> DEFINE none == <<>>
             one == <<e>>
             u == Append(p, none)
  <2>1. one \in Seq(Chars) /\ none \in Seq(Chars)
    BY <1>0
  <2>2. u \in Seq(Seq(Chars)) /\ q = Append(u, one)
    BY <1>2, <1>8, <2>1
  <2>3. FlattenSeq(u) = FlattenSeq(p) \o none /\ FlattenSeq(p) \in Seq(Chars)
    <3> HIDE DEF none
    <3> QED
      BY <1>2, <2>1, FlattenAppend
  <2>4. FlattenSeq(p) \o none = FlattenSeq(p)
    BY <2>3
  <2> HIDE DEF u, none
  <2>5. FlattenSeq(q) = FlattenSeq(u) \o one
    <3> HIDE DEF one
    <3> QED
      BY <2>1, <2>2, FlattenAppend
  <2> HIDE DEF e
  <2>6. FlattenSeq(p) \o one = Append(FlattenSeq(p), e)
    BY <1>0, <2>3, OneMore
  <2> QED
    BY <1>2, <2>3, <2>4, <2>5, <2>6
<1>10. Replaced(s, name) = Append(Replaced(r, name), Amp)
  BY <1>0, ReplacedMore DEF s
<1> QED
  BY <1>9, <1>10 DEF s, t

\* What the characters of D become that are escaped, and the others that are not.
NameOf(c) == CHOOSE n \in {m \in EntityNames : Entity[m] = c} : TRUE

Marked(D) == [c \in Chars |-> IF c \in D THEN <<Amp, NameOf(c)>> ELSE <<c>>]

\* A character has the one name.
LEMMA Named ==
    ASSUME NEW n \in EntityNames
    PROVE  NameOf(Entity[n]) = n
<1>1. n \in {m \in EntityNames : Entity[m] = Entity[n]}
  OBVIOUS
<1>2. NameOf(Entity[n]) \in {m \in EntityNames : Entity[m] = Entity[n]}
  BY <1>1 DEF NameOf
<1> QED
  BY <1>2, EntityFacts

\* Marked is a table of pieces.
LEMMA MarkedType ==
    ASSUME NEW D \in SUBSET Escapable
    PROVE  /\ Marked(D) \in [Chars -> Seq(Chars)]
           /\ Spreads(Chars, Chars, Marked(D))
<1>1. ASSUME NEW c \in Chars
      PROVE  (IF c \in D THEN <<Amp, NameOf(c)>> ELSE <<c>>) \in Seq(Chars)
  <2>1. CASE c \in D
    <3>1. PICK n \in EntityNames : c = Entity[n]
      BY <2>1 DEF Escapable
    <3>2. NameOf(c) = n /\ n \in Chars /\ Amp \in Chars
      BY <3>1, Named, EntityFacts
    <3>3. <<Amp, n>> \in Seq(Chars)
      BY <3>2
    <3> QED
      BY <2>1, <3>2, <3>3
  <2>2. CASE c \notin D
    BY <2>2
  <2> QED
    BY <2>1, <2>2
<1>2. Marked(D) \in [Chars -> Seq(Chars)]
  BY <1>1 DEF Marked
<1>3. Spreads(Chars, Chars, Marked(D))
  <2> DEFINE P == Marked(D)
  <2>1. P \in [Chars -> Seq(Chars)]
    BY <1>2
  <2> HIDE DEF P
  <2>2. Spreads(Chars, Chars, P)
    BY <2>1, SpreadAll
  <2> QED
    BY <2>2 DEF P
<1> QED
  BY <1>2, <1>3

\* Escaped marks all that are escapable.
LEMMA EscapedMarked ==
    ASSUME NEW text \in Seq(Chars)
    PROVE  Escaped(text) = Spread(Marked(Escapable), text)
<1> DEFINE names(c) == {m \in EntityNames : Entity[m] = c}
           piece(c) == IF names(c) = {} THEN <<c>> ELSE <<Amp, NameOf(c)>>
<1>1. Escaped(text) = FlattenSeq([i \in DOMAIN text |-> piece(text[i])])
  BY Zenon DEF Escaped, NameOf, Amp
<1>2. \A c \in Chars : piece(c) = Marked(Escapable)[c]
  <2>1. ASSUME NEW c \in Chars
        PROVE  piece(c) = Marked(Escapable)[c]
    <3>1. names(c) = {} <=> c \notin Escapable
      BY DEF Escapable
    <3>2. Marked(Escapable)[c] = IF c \in Escapable THEN <<Amp, NameOf(c)>> ELSE <<c>>
      BY DEF Marked
    <3> HIDE DEF names
    <3> QED
      BY <3>1, <3>2
  <2> QED
    BY <2>1
<1> HIDE DEF piece
<1>3. \A i \in DOMAIN text : text[i] \in Chars
  OBVIOUS
<1>4. [i \in DOMAIN text |-> piece(text[i])] = [i \in DOMAIN text |-> Marked(Escapable)[text[i]]]
  BY <1>2, <1>3
<1> QED
  BY <1>1, <1>4 DEF Spread

\* One character more: escaped, or not.
LEMMA MarkedMore ==
    ASSUME NEW D \in SUBSET Escapable, NEW w \in Seq(Chars)
    PROVE  /\ Spread(Marked(D), w) \in Seq(Chars)
           /\ \A c \in Chars : c \notin D =>
                 Spread(Marked(D), Append(w, c)) = Append(Spread(Marked(D), w), c)
           /\ \A n \in EntityNames : Entity[n] \in D =>
                 Spread(Marked(D), Append(w, Entity[n])) = Append(Append(Spread(Marked(D), w), Amp), n)
<1> DEFINE P == Marked(D)
           x == Spread(P, w)
<1>1. P \in [Chars -> Seq(Chars)] /\ Spreads(Chars, Chars, P)
  BY MarkedType
<1>2. \A c \in Chars : P[c] = IF c \in D THEN <<Amp, NameOf(c)>> ELSE <<c>>
  BY DEF Marked
<1> HIDE DEF P
<1>3. x \in Seq(Chars) /\ \A c \in Chars : Spread(P, Append(w, c)) = x \o P[c]
  BY <1>1 DEF Spreads
<1> HIDE DEF x
<1>4. ASSUME NEW c \in Chars, c \notin D
      PROVE  Spread(P, Append(w, c)) = Append(x, c)
  <2>1. P[c] = <<c>>
    BY <1>2, <1>4
  <2>2. Append(x, c) = x \o <<c>>
    BY <1>3, OneMore
  <2> QED
    BY <1>3, <2>1, <2>2
<1>5. ASSUME NEW n \in EntityNames, Entity[n] \in D
      PROVE  Spread(P, Append(w, Entity[n])) = Append(Append(x, Amp), n)
  <2> DEFINE e == Entity[n]
  <2>1. e \in Chars /\ n \in Chars /\ Amp \in Chars /\ NameOf(e) = n
    BY EntityFacts, Named
  <2>2. P[e] = <<Amp, n>>
    BY <1>2, <1>5, <2>1
  <2> HIDE DEF e
  <2>3. Append(Append(x, Amp), n) = x \o <<Amp, n>>
    <3> DEFINE y == Append(Append(x, Amp), n)
               p == <<Amp, n>>
               z == x \o p
    <3>1. /\ Append(x, Amp) = x \o <<Amp>> /\ <<Amp>> \in Seq(Chars) /\ <<n>> \in Seq(Chars)
          /\ x \o <<Amp>> \in Seq(Chars)
      BY <1>3, <2>1, OneMore
    <3>2. y = (x \o <<Amp>>) \o <<n>>
      BY <2>1, <3>1, OneMore
    <3>3. (x \o <<Amp>>) \o <<n>> = x \o (<<Amp>> \o <<n>>)
      BY <1>3, <3>1, ConcatAssociative
    <3>4. <<Amp>> \o <<n>> = <<Amp, n>>
      BY <2>1, Pair
    <3> QED
      BY <3>2, <3>3, <3>4
  <2> QED
    BY <1>3, <2>1, <2>2, <2>3 DEF e
<1> QED
  BY <1>3, <1>4, <1>5 DEF P, x

\* A character that is escaped has a name, and one has no name and is not one.
LEMMA MarkedChars ==
    ASSUME NEW D \in SUBSET Escapable
    PROVE  /\ \A c \in D : \E n \in EntityNames : c = Entity[n]
           /\ \A n \in EntityNames : n \notin D
BY EntityFacts DEF Escapable

\* Marked text is open where the text is, unless "&" is marked: then nowhere.
LEMMA MarkedOpen ==
    ASSUME NEW D \in SUBSET Escapable, NEW w \in Seq(Chars)
    PROVE  Open(Spread(Marked(D), w)) <=> Amp \notin D /\ Open(w)
<1> DEFINE P == Marked(D)
           N == {u \in Seq(Chars) : Open(Spread(P, u)) <=> Amp \notin D /\ Open(u)}
<1>1. <<>> \in N
  <2>1. <<>> \in Seq(Chars) /\ Spread(P, <<>>) = <<>>
    BY SpreadEmpty
  <2>2. ~Open(<<>>)
    BY DEF Open
  <2> QED
    BY <2>1, <2>2
<1>2. ASSUME NEW u \in Seq(Chars), NEW c \in Chars, u \in N
      PROVE  Append(u, c) \in N
  <2> DEFINE x == Spread(P, u)
  <2>1. x \in Seq(Chars) /\ Append(u, c) \in Seq(Chars)
    BY MarkedMore
  <2>2. Open(Append(u, c)) <=> c = Amp
    BY OpenAppend
  <2>3. CASE c \notin D
    <3>1. Spread(P, Append(u, c)) = Append(x, c)
      BY <2>3, MarkedMore
    <3> HIDE DEF x, P
    <3>2. Open(Append(x, c)) <=> c = Amp
      BY <2>1, OpenAppend
    <3> QED
      BY <2>1, <2>2, <2>3, <3>1, <3>2
  <2>4. CASE c \in D
    <3>1. PICK n \in EntityNames : c = Entity[n]
      BY <2>4, MarkedChars
    <3>2. Spread(P, Append(u, c)) = Append(Append(x, Amp), n)
      BY <2>4, <3>1, MarkedMore
    <3>3. n \in Chars /\ n # Amp /\ Amp \in Chars
      BY EntityFacts
    <3> HIDE DEF x, P
    <3>4. Append(x, Amp) \in Seq(Chars)
      BY <2>1, <3>3, OneMore
    <3>5. ~Open(Append(Append(x, Amp), n))
      BY <3>3, <3>4, OpenAppend
    <3>6. ~(Amp \notin D /\ Open(Append(u, c)))
      BY <2>2, <2>4
    <3> QED
      BY <2>1, <3>2, <3>5, <3>6
  <2> QED
    BY <2>3, <2>4
<1>3. w \in N
  <2> HIDE DEF N
  <2> QED
    BY <1>1, <1>2, SeqInduction
<1> QED
  BY <1>3

\* In no text there is nothing to replace.
LEMMA NothingReplaced ==
    ASSUME NEW n \in EntityNames
    PROVE  Replaced(<<>>, n) = <<>>
<1> DEFINE none == <<>>
<1>1. none \in Seq(Chars) /\ Len(none) = 0
  OBVIOUS
<1> HIDE DEF none
<1>2. Replaced(none, n) = FlattenSeq(Pieces(none, n))
  BY <1>1, ReplacedPieces
<1>3. Pieces(none, n) \in Seq(Seq(Chars)) /\ Pieces(none, n) = [i \in 1..0 |-> Piece(none, n, i)]
  BY <1>1, ReplacedPieces DEF Pieces
<1>4. Pieces(none, n) = <<>>
  BY <1>3
<1>5. FlattenSeq(<<>>) = <<>>
  BY DEF FlattenSeq
<1> QED
  BY <1>2, <1>4, <1>5 DEF none

\* Two characters more, the second of which is not the name that is replaced.
LEMMA ReplacedTwo ==
    ASSUME NEW x \in Seq(Chars), NEW n \in EntityNames, NEW m \in Chars, m # n
    PROVE  Replaced(Append(Append(x, Amp), m), n) = Append(Append(Replaced(x, n), Amp), m)
<1> DEFINE y == Append(x, Amp)
<1>1. y \in Seq(Chars) /\ Replaced(y, n) = Append(Replaced(x, n), Amp)
  BY EntityFacts, OneMore, ReplacedEntity
<1> HIDE DEF y
<1>2. Replaced(Append(y, m), n) = Append(Replaced(y, n), m)
  BY <1>1, ReplacedMore
<1> QED
  BY <1>1, <1>2 DEF y

\* Two texts that are the same with a character more are the same without.
LEMMA SameAppend ==
    ASSUME NEW u \in Seq(Chars), NEW r \in Seq(Chars), NEW c \in Chars, NEW d \in Chars,
           Append(u, c) = Append(r, d)
    PROVE  r = u
<1> DEFINE s == Append(u, c)
           t == Append(r, d)
<1>1. /\ Len(s) = Len(u) + 1 /\ Len(u) \in Nat /\ \A i \in 1..Len(u) : s[i] = u[i]
      /\ Len(t) = Len(r) + 1 /\ Len(r) \in Nat /\ \A i \in 1..Len(r) : t[i] = r[i]
  OBVIOUS
<1>2. s = t
  OBVIOUS
<1> HIDE DEF s, t
<1>3. Len(u) = Len(r)
  BY <1>1, <1>2
<1>4. \A i \in 1..Len(u) : u[i] = r[i]
  BY <1>1, <1>2, <1>3
<1> QED
  BY <1>3, <1>4, SeqEqual

\* While "&" is still escaped, only what was escaped is replaced.
LEMMA FirstStages ==
    ASSUME NEW D \in SUBSET Escapable, Amp \in D, NEW n \in EntityNames, Entity[n] \in D,
           NEW w \in Seq(Chars)
    PROVE  Replaced(Spread(Marked(D), w), n) = Spread(Marked(D \ {Entity[n]}), w)
<1> DEFINE e == Entity[n]
           C == D \ {e}
           P == Marked(D)
           F == Marked(C)
           N == {u \in Seq(Chars) : Replaced(Spread(P, u), n) = Spread(F, u)}
<1>1. C \in SUBSET Escapable /\ e \in D /\ e \in Chars /\ n \in Chars /\ Amp \in Chars /\ n # Amp
  BY EntityFacts
<1>2. Replaced(<<>>, n) = <<>>
  BY NothingReplaced
<1>3. <<>> \in N
  <2>1. Spread(P, <<>>) = <<>> /\ Spread(F, <<>>) = <<>> /\ <<>> \in Seq(Chars)
    BY SpreadEmpty
  <2> QED
    BY <1>2, <2>1
<1>4. ASSUME NEW u \in Seq(Chars), NEW c \in Chars, u \in N
      PROVE  Append(u, c) \in N
  <2> DEFINE x == Spread(P, u)
             y == Spread(F, u)
  <2>1. x \in Seq(Chars) /\ y \in Seq(Chars) /\ ~Open(x) /\ Replaced(x, n) = y
    BY <1>1, <1>4, MarkedMore, MarkedOpen
  <2>2. Append(u, c) \in Seq(Chars)
    OBVIOUS
  <2>3. CASE c = e
    <3>1. Spread(P, Append(u, c)) = Append(Append(x, Amp), n)
      BY <1>1, <2>3, MarkedMore
    <3>2. Spread(F, Append(u, c)) = Append(y, e)
      BY <1>1, <2>3, MarkedMore
    <3> HIDE DEF x, y, P, F, e
    <3>3. Replaced(Append(Append(x, Amp), n), n) = Append(Replaced(x, n), e)
      BY <2>1, ReplacedEntity DEF e
    <3> QED
      BY <2>1, <2>2, <3>1, <3>2, <3>3
  <2>4. CASE c # e /\ c \in D
    <3>1. PICK m \in EntityNames : c = Entity[m]
      BY <2>4, MarkedChars
    <3>2. Spread(P, Append(u, c)) = Append(Append(x, Amp), m)
      BY <1>1, <2>4, <3>1, MarkedMore
    <3>3. Spread(F, Append(u, c)) = Append(Append(y, Amp), m)
      BY <1>1, <2>4, <3>1, MarkedMore
    <3>4. m # n /\ m \in Chars
      BY <2>4, <3>1, EntityFacts
    <3> HIDE DEF x, y, P, F, e
    <3>5. Replaced(Append(Append(x, Amp), m), n) = Append(Append(Replaced(x, n), Amp), m)
      BY <1>1, <2>1, <3>4, ReplacedTwo
    <3> QED
      BY <2>1, <2>2, <3>2, <3>3, <3>5
  <2>5. CASE c \notin D
    <3>1. Spread(P, Append(u, c)) = Append(x, c)
      BY <2>5, MarkedMore
    <3>2. Spread(F, Append(u, c)) = Append(y, c)
      BY <1>1, <2>5, MarkedMore
    <3> HIDE DEF x, y, P, F, e
    <3>3. Replaced(Append(x, c), n) = Append(Replaced(x, n), c)
      BY <2>1, ReplacedMore
    <3> QED
      BY <2>1, <2>2, <3>1, <3>2, <3>3
  <2> QED
    BY <2>3, <2>4, <2>5
<1>5. w \in N
  <2> HIDE DEF N
  <2> QED
    BY <1>3, <1>4, SeqInduction
<1> QED
  BY <1>5

\* Once "&" is not, the text of an entity is, too.
LEMMA LastStages ==
    ASSUME NEW D \in SUBSET Escapable, Amp \notin D, NEW n \in EntityNames, Entity[n] \in D,
           NEW w \in Seq(Chars)
    PROVE  Replaced(Spread(Marked(D), w), n) = Spread(Marked(D \ {Entity[n]}), Replaced(w, n))
<1> DEFINE e == Entity[n]
           C == D \ {e}
           P == Marked(D)
           F == Marked(C)
           Good(u) == Replaced(Spread(P, u), n) = Spread(F, Replaced(u, n))
           N == {u \in Seq(Chars) : /\ Good(u)
                                    /\ \A r \in Seq(Chars) : u = Append(r, Amp) => Good(r)}
<1>1. /\ C \in SUBSET Escapable /\ e \in D /\ e \in Chars /\ n \in Chars /\ Amp \in Chars /\ n # Amp
      /\ n \notin D /\ e # Amp
  BY EntityFacts, MarkedChars
<1>2. Good(<<>>)
  <2>1. Spread(P, <<>>) = <<>> /\ Spread(F, <<>>) = <<>>
    BY SpreadEmpty
  <2>2. Replaced(<<>>, n) = <<>>
    BY NothingReplaced
  <2> HIDE DEF P, F
  <2> QED
    BY <2>1, <2>2
<1>3. ASSUME NEW u \in Seq(Chars), NEW c \in Chars, u \in N
      PROVE  Good(Append(u, c))
  <2> DEFINE x == Spread(P, u)
             v == Replaced(u, n)
             y == Spread(F, v)
  <2>1. v \in Seq(Chars)
    BY ReplacedEntity
  <2>2. x \in Seq(Chars) /\ (Open(x) <=> Open(u)) /\ Replaced(x, n) = y
    <3>1. x \in Seq(Chars) /\ (Open(x) <=> Open(u))
      BY MarkedMore, MarkedOpen
    <3>2. Good(u)
      BY <1>3
    <3> QED
      BY <3>1, <3>2
  <2>3. y \in Seq(Chars)
    <3> HIDE DEF v
    <3> QED
      BY <1>1, <2>1, MarkedMore
  <2>4. CASE c = n /\ Open(u)
    <3>1. PICK r \in Seq(Chars) : u = Append(r, Amp)
      BY <2>4, OpenAppend
    <3> DEFINE a == Spread(P, r)
               b == Replaced(r, n)
    <3>2. Good(r)
      BY <1>3, <3>1
    <3>3. a \in Seq(Chars) /\ x = Append(a, Amp)
      BY <1>1, <3>1, MarkedMore
    <3>4. Spread(P, Append(u, n)) = Append(x, n)
      BY <1>1, MarkedMore
    <3>5. Replaced(Append(u, n), n) = Append(b, e) /\ b \in Seq(Chars)
      BY <3>1, ReplacedEntity
    <3>6. Replaced(Append(Append(a, Amp), n), n) = Append(Replaced(a, n), e)
      <4> HIDE DEF a
      <4> QED
        BY <3>3, ReplacedEntity
    <3>7. Spread(F, Append(b, e)) = Append(Spread(F, b), e)
      <4> HIDE DEF b
      <4> QED
        BY <1>1, <3>5, MarkedMore
    <3>8. Replaced(a, n) = Spread(F, b)
      BY <3>2
    <3> HIDE DEF a, b, x, v, y, e, P, F
    <3>9. Replaced(Spread(P, Append(u, c)), n) = Append(Spread(F, b), e)
      BY <2>4, <3>3, <3>4, <3>6, <3>8
    <3>10. Spread(F, Replaced(Append(u, c), n)) = Append(Spread(F, b), e)
      BY <2>4, <3>5, <3>7
    <3> QED
      BY <3>9, <3>10
  <2>5. CASE ~(c = n /\ Open(u))
    <3>1. Replaced(Append(u, c), n) = Append(v, c)
      BY <2>5, ReplacedMore
    <3>2. CASE c = e
      <4>1. Spread(P, Append(u, c)) = Append(Append(x, Amp), n)
        BY <1>1, <3>2, MarkedMore
      <4>2. Spread(F, Append(v, c)) = Append(y, e)
        <5> HIDE DEF v
        <5> QED
          BY <1>1, <2>1, <3>2, MarkedMore
      <4> HIDE DEF x, v, y, e, P, F
      <4>3. Replaced(Append(Append(x, Amp), n), n) = Append(Replaced(x, n), e)
        BY <2>2, ReplacedEntity DEF e
      <4> QED
        BY <2>2, <3>1, <4>1, <4>2, <4>3
    <3>3. CASE c # e /\ c \in D
      <4>1. PICK m \in EntityNames : c = Entity[m]
        BY <3>3, MarkedChars
      <4>2. Spread(P, Append(u, c)) = Append(Append(x, Amp), m)
        BY <1>1, <3>3, <4>1, MarkedMore
      <4>3. Spread(F, Append(v, c)) = Append(Append(y, Amp), m)
        <5> HIDE DEF v
        <5> QED
          BY <1>1, <2>1, <3>3, <4>1, MarkedMore
      <4>4. m # n /\ m \in Chars
        BY <3>3, <4>1, EntityFacts
      <4> HIDE DEF x, v, y, e, P, F
      <4>5. Replaced(Append(Append(x, Amp), m), n) = Append(Append(Replaced(x, n), Amp), m)
        BY <1>1, <2>2, <4>4, ReplacedTwo
      <4> QED
        BY <2>2, <3>1, <4>2, <4>3, <4>5
    <3>4. CASE c \notin D
      <4>1. Spread(P, Append(u, c)) = Append(x, c)
        BY <3>4, MarkedMore
      <4>2. Spread(F, Append(v, c)) = Append(y, c)
        <5> HIDE DEF v
        <5> QED
          BY <1>1, <2>1, <3>4, MarkedMore
      <4> HIDE DEF x, v, y, e, P, F
      <4>3. Replaced(Append(x, c), n) = Append(Replaced(x, n), c)
        BY <2>2, <2>5, ReplacedMore
      <4> QED
        BY <2>2, <3>1, <4>1, <4>2, <4>3
    <3> QED
      BY <3>2, <3>3, <3>4
  <2> QED
    BY <2>4, <2>5
<1> HIDE DEF Good
<1>4. <<>> \in N
  <2>1. ASSUME NEW r \in Seq(Chars)
        PROVE  <<>> # Append(r, Amp)
    BY <1>1
  <2> QED
    BY <1>2, <2>1
<1>5. ASSUME NEW u \in Seq(Chars), NEW c \in Chars, u \in N
      PROVE  Append(u, c) \in N
  <2>1. Append(u, c) \in Seq(Chars)
    OBVIOUS
  <2>2. ASSUME NEW r \in Seq(Chars), Append(u, c) = Append(r, Amp)
        PROVE  r = u
    BY <1>1, <2>2, SameAppend
  <2> QED
    BY <1>3, <1>5, <2>1, <2>2
<1>6. w \in N
  <2> HIDE DEF N
  <2> QED
    BY <1>4, <1>5, SeqInduction
<1> QED
  BY <1>6 DEF Good

\* The text of an entity of that name.
Held(u, n) == \E i \in 1..(Len(u) - 1) : u[i] = Amp /\ u[i + 1] = n

\* One character more may complete it.
LEMMA HeldAppend ==
    ASSUME NEW u \in Seq(Chars), NEW c \in Chars, NEW n
    PROVE  Held(Append(u, c), n) <=> Held(u, n) \/ (Open(u) /\ c = n)
<1> DEFINE t == Append(u, c)
           k == Len(u)
<1>1. k \in Nat /\ Len(t) = k + 1 /\ t[k + 1] = c /\ \A i \in 1..k : t[i] = u[i]
  OBVIOUS
<1>2. Open(u) <=> k \in 1..k /\ u[k] = Amp
  <2>1. u = <<>> <=> k = 0
    BY <1>1
  <2>2. k \in 1..k <=> k # 0
    BY <1>1
  <2> HIDE DEF k
  <2> QED
    BY <2>1, <2>2 DEF Open, k
<1> HIDE DEF t, k
<1>3. Held(t, n) <=> \E i \in 1..k : t[i] = Amp /\ t[i + 1] = n
  <2>1. (k + 1) - 1 = k
    BY <1>1
  <2> QED
    BY <1>1, <2>1 DEF Held
<1>4. Held(u, n) <=> \E i \in 1..(k - 1) : u[i] = Amp /\ u[i + 1] = n
  BY DEF Held, k
<1>5. \A i \in 1..(k - 1) : i \in 1..k /\ i + 1 \in 1..k
  BY <1>1
<1>6. \A i \in 1..k : i = k \/ i \in 1..(k - 1)
  BY <1>1
<1>7. Held(t, n) <=> Held(u, n) \/ (Open(u) /\ c = n)
  BY <1>1, <1>2, <1>3, <1>4, <1>5, <1>6
<1> QED
  BY <1>7 DEF t

\* A text without it stays as it is, and one with it becomes shorter.
LEMMA ReplacedShorter ==
    ASSUME NEW n \in EntityNames, NEW w \in Seq(Chars)
    PROVE  /\ ~Held(w, n) => Replaced(w, n) = w
           /\ Held(w, n) => Len(Replaced(w, n)) < Len(w)
<1> DEFINE e == Entity[n]
           Good(u) == /\ Len(Replaced(u, n)) <= Len(u)
                      /\ ~Held(u, n) => Replaced(u, n) = u
                      /\ Held(u, n) => Len(Replaced(u, n)) < Len(u)
           N == {u \in Seq(Chars) : /\ Good(u)
                                    /\ \A r \in Seq(Chars) : u = Append(r, Amp) => Good(r)}
<1>1. e \in Chars /\ n \in Chars /\ Amp \in Chars /\ n # Amp
  BY EntityFacts
<1> HIDE DEF e
<1>2. Good(<<>>)
  <2>1. Replaced(<<>>, n) = <<>>
    BY NothingReplaced
  <2>2. Len(<<>>) = 0
    OBVIOUS
  <2>3. ~Held(<<>>, n)
    BY <2>2 DEF Held
  <2> QED
    BY <2>1, <2>2, <2>3
<1>3. ASSUME NEW u \in Seq(Chars), NEW c \in Chars, u \in N
      PROVE  Good(Append(u, c))
  <2> DEFINE t == Append(u, c)
             x == Replaced(u, n)
             k == Len(u)
  <2>1. Good(u) /\ x \in Seq(Chars)
    BY <1>3, ReplacedEntity
  <2>2. k \in Nat /\ Len(t) = k + 1
    OBVIOUS
  <2>3. Held(t, n) <=> Held(u, n) \/ (Open(u) /\ c = n)
    BY HeldAppend
  <2>4. CASE c = n /\ Open(u)
    <3>1. PICK r \in Seq(Chars) : u = Append(r, Amp)
      BY <2>4, OpenAppend
    <3> DEFINE b == Replaced(r, n)
    <3>2. Good(r)
      BY <1>3, <3>1
    <3>3. Replaced(t, n) = Append(b, e) /\ b \in Seq(Chars)
      BY <2>4, <3>1, ReplacedEntity DEF e
    <3>4. Len(b) \in Nat /\ Len(Append(b, e)) = Len(b) + 1
      <4> HIDE DEF b
      <4> QED
        BY <1>1, <3>3
    <3>5. k = Len(r) + 1 /\ Len(r) \in Nat /\ Len(b) <= Len(r)
      BY <1>1, <3>1, <3>2
    <3> HIDE DEF b, k, t
    <3>6. Len(Replaced(t, n)) < Len(t)
      BY <2>2, <3>3, <3>4, <3>5
    <3>7. Len(Replaced(t, n)) <= Len(t)
      BY <2>2, <3>3, <3>4, <3>5
    <3>8. Held(t, n)
      BY <2>3, <2>4
    <3> QED
      BY <3>6, <3>7, <3>8 DEF t
  <2>5. CASE ~(c = n /\ Open(u))
    <3>1. Replaced(t, n) = Append(x, c)
      BY <2>5, ReplacedMore
    <3> HIDE DEF x
    <3>2. Len(x) \in Nat /\ Len(Append(x, c)) = Len(x) + 1
      BY <2>1
    <3>3. /\ Len(x) <= k
          /\ ~Held(u, n) => x = u
          /\ Held(u, n) => Len(x) < k
      BY <2>1 DEF x
    <3>4. Held(t, n) <=> Held(u, n)
      BY <2>3, <2>5
    <3>5. ~Held(t, n) => Replaced(t, n) = t
      BY <3>1, <3>3, <3>4
    <3> HIDE DEF t, k
    <3>6. Len(Replaced(t, n)) = Len(x) + 1
      BY <3>1, <3>2
    <3>7. Len(Replaced(t, n)) <= Len(t) /\ (Held(t, n) => Len(Replaced(t, n)) < Len(t))
      BY <2>2, <3>2, <3>3, <3>4, <3>6
    <3> QED
      BY <3>5, <3>7 DEF t
  <2> QED
    BY <2>4, <2>5
<1> HIDE DEF Good
<1>4. <<>> \in N
  <2>1. ASSUME NEW r \in Seq(Chars)
        PROVE  <<>> # Append(r, Amp)
    BY <1>1
  <2> QED
    BY <1>2, <2>1
<1>5. ASSUME NEW u \in Seq(Chars), NEW c \in Chars, u \in N
      PROVE  Append(u, c) \in N
  <2>1. Append(u, c) \in Seq(Chars)
    OBVIOUS
  <2>2. ASSUME NEW r \in Seq(Chars), Append(u, c) = Append(r, Amp)
        PROVE  r = u
    BY <1>1, <2>2, SameAppend
  <2> QED
    BY <1>3, <1>5, <2>1, <2>2
<1>6. w \in N
  <2> HIDE DEF N
  <2> QED
    BY <1>4, <1>5, SeqInduction
<1> QED
  BY <1>6 DEF Good

\* The five kinds, one after the other.
Replacing == [n \in EntityNames |-> [text \in Seq(Chars) |-> Replaced(text, n)]]

\* Value is the fold of that table over the escapes.
LEMMA ValueFolded ==
    ASSUME NEW text \in Seq(Chars), Escapes \in Seq(EntityNames)
    PROVE  Value(text) = Folded(Replacing, text, Escapes)
<1> DEFINE A == Seq(Chars)
           G == Replacing
           names == Escapes
           IsIter(f) == f = [x \in SUBSET DOMAIN names |->
                                IF x = {} THEN text ELSE Replaced(f[x \ {Max(x)}], names[Max(x)])]
<1>1. G \in [EntityNames -> [A -> A]] /\ \A n \in EntityNames, x \in A : G[n][x] = Replaced(x, n)
  BY ReplacedEntity DEF Replacing
<1>2. text \in A /\ names \in Seq(EntityNames)
  OBVIOUS
<1>3. Value(text) = IF \E f : IsIter(f) THEN (CHOOSE f : IsIter(f))[DOMAIN names]
                    ELSE Value(text)
  BY DEF Value, FoldLeft, MapThenFoldSet
<1> HIDE DEF G, A, names
<1>4. \E f : IsIter(f)
  <2>1. PICK f : f \in Iterators(G, A, text, names)
    BY <1>1, <1>2, IteratorExists
  <2>2. IsIter(f)
    BY <1>1, <1>2, <2>1, LastOf DEF Iterators
  <2> HIDE DEF IsIter
  <2> QED
    BY <2>2
<1>5. PICK f : IsIter(f) /\ Value(text) = f[DOMAIN names]
  <2> HIDE DEF IsIter
  <2> QED
    BY <1>3, <1>4
<1>6. Iterates(G, A, text, names, f)
  <2>1. /\ DOMAIN names = 1..Len(names)
        /\ \A x \in SUBSET (1..Len(names)) : x # {} => names[Max(x)] \in EntityNames
    BY <1>2, LastOf
  <2>2. f[{}] = text
    BY <1>5, <2>1
  <2>3. ASSUME NEW x \in SUBSET (1..Len(names)), x # {}, f[x \ {Max(x)}] \in A
        PROVE  f[x] = G[names[Max(x)]][f[x \ {Max(x)}]]
    <3>1. f[x] = Replaced(f[x \ {Max(x)}], names[Max(x)])
      BY <1>5, <2>1, <2>3
    <3>2. names[Max(x)] \in EntityNames
      BY <2>1, <2>3
    <3> QED
      BY <1>1, <2>3, <3>1, <3>2
  <2> QED
    BY <2>2, <2>3 DEF Iterates
<1> HIDE DEF IsIter
<1>7. f[1..Len(names)] = Folded(G, text, names)
  BY <1>1, <1>2, <1>6, IteratorFolds
<1>8. DOMAIN names = 1..Len(names)
  BY <1>2
<1> QED
  BY <1>5, <1>7, <1>8 DEF G, names

\* The fold, written out.
LEMMA ValueStages ==
    ASSUME NEW text \in Seq(Chars)
    PROVE  Value(text) = Replaced(Replaced(Replaced(Replaced(Replaced(text, "quot"), "amp"),
                                                    "apos"), "lt"), "gt")
<1> DEFINE A == Seq(Chars)
           G == Replacing
           names == Escapes
<1>1. G \in [EntityNames -> [A -> A]] /\ \A n \in EntityNames, x \in A : G[n][x] = Replaced(x, n)
  BY ReplacedEntity DEF Replacing
<1>2. /\ names[1] = "quot" /\ names[2] = "amp" /\ names[3] = "apos" /\ names[4] = "lt"
      /\ names[5] = "gt" /\ Len(names) = 5
  BY DEF Escapes
<1>3. names \in Seq(EntityNames) /\ \A i \in 1..5 : names[i] \in EntityNames
  <2>1. names = [i \in 1..5 |-> names[i]]
    BY DEF Escapes
  <2>2. \A i \in 1..5 : names[i] \in EntityNames
    BY <1>2 DEF EntityNames
  <2> HIDE DEF names
  <2>3. names \in [1..5 -> EntityNames]
    BY <2>1, <2>2
  <2> QED
    BY <2>2, <2>3, FunctionSeq
<1>4. Value(text) = Folded(G, text, names)
  BY <1>3, ValueFolded
<1>5. text \in A
  OBVIOUS
<1> HIDE DEF G, A, names
<1>6. PICK g : g \in [0..5 -> A] /\ IsStages(G, text, names, g)
  BY <1>1, <1>2, <1>3, <1>5, StagesExist
<1>7. Folded(G, text, names) = g[5]
  BY <1>2, <1>3, <1>6, FoldedStages
<1>8. g[0] = text /\ \A i \in 1..5 : g[i] = G[names[i]][g[i - 1]]
  BY <1>2, <1>6 DEF IsStages
<1>9. \A i \in 1..5 : g[i] = Replaced(g[i - 1], names[i])
  <2>1. \A i \in 1..5 : g[i - 1] \in A /\ names[i] \in EntityNames
    <3>1. \A i \in 1..5 : i - 1 \in 0..5
      OBVIOUS
    <3>2. \A i \in 1..5 : g[i - 1] \in A
      BY <1>6, <3>1
    <3> QED
      BY <1>3, <3>2
  <2> QED
    BY <1>1, <1>8, <2>1
<1>10. /\ g[1] = Replaced(g[0], names[1]) /\ g[2] = Replaced(g[1], names[2])
       /\ g[3] = Replaced(g[2], names[3]) /\ g[4] = Replaced(g[3], names[4])
       /\ g[5] = Replaced(g[4], names[5])
  BY <1>9
<1> QED
  BY <1>2, <1>4, <1>7, <1>8, <1>10, Zenon

\* What a value is read as: the text of three kinds of entities is decoded in it.
LEMMA ValueOfEscaped ==
    ASSUME NEW t \in Seq(Chars)
    PROVE  Value(Escaped(t)) = Replaced(Replaced(Replaced(t, "apos"), "lt"), "gt")
<1> DEFINE D0 == Escapable
           D1 == D0 \ {Entity["quot"]}
           D2 == D1 \ {Entity["amp"]}
           D3 == D2 \ {Entity["apos"]}
           D4 == D3 \ {Entity["lt"]}
           D5 == D4 \ {Entity["gt"]}
           t3 == Replaced(t, "apos")
           t4 == Replaced(t3, "lt")
           t5 == Replaced(t4, "gt")
<1>1. /\ "quot" \in EntityNames /\ "amp" \in EntityNames /\ "apos" \in EntityNames
      /\ "lt" \in EntityNames /\ "gt" \in EntityNames
      /\ \A n \in EntityNames : n \in {"quot", "amp", "apos", "lt", "gt"}
  BY DEF EntityNames
<1>2. /\ Entity["quot"] \in D0 /\ Amp \in D0
      /\ Entity["amp"] \in D1 /\ Amp \in D1
      /\ Entity["apos"] \in D2 /\ Amp \notin D2
      /\ Entity["lt"] \in D3 /\ Amp \notin D3
      /\ Entity["gt"] \in D4 /\ Amp \notin D4
      /\ D5 = {}
  <2>1. \A m \in EntityNames, n \in EntityNames : Entity[m] = Entity[n] => m = n
    BY EntityFacts
  <2>2. \A c : c \in D0 <=> \E n \in EntityNames : c = Entity[n]
    BY DEF Escapable
  <2>3. Amp = Entity["amp"]
    BY EntityFacts
  <2> HIDE DEF D0
  <2>4. Entity["quot"] \in D0 /\ Amp \in D0
    BY <1>1, <2>2, <2>3
  <2>5. Entity["amp"] \in D1 /\ Amp \in D1
    BY <1>1, <2>1, <2>2, <2>3
  <2>6. Entity["apos"] \in D2 /\ Amp \notin D2
    BY <1>1, <2>1, <2>2, <2>3
  <2>7. Entity["lt"] \in D3 /\ Amp \notin D3
    BY <1>1, <2>1, <2>2, <2>3
  <2>8. Entity["gt"] \in D4 /\ Amp \notin D4
    BY <1>1, <2>1, <2>2, <2>3
  <2>9. D5 = {}
    <3>1. ASSUME NEW c \in D5
          PROVE  FALSE
      <4>1. PICK n \in EntityNames : c = Entity[n]
        BY <2>2
      <4> QED
        BY <1>1, <4>1
    <3> QED
      BY <3>1
  <2> QED
    BY <2>4, <2>5, <2>6, <2>7, <2>8, <2>9
<1>3. /\ D0 \in SUBSET Escapable /\ D1 \in SUBSET Escapable /\ D2 \in SUBSET Escapable
      /\ D3 \in SUBSET Escapable /\ D4 \in SUBSET Escapable
  OBVIOUS
<1>4. t3 \in Seq(Chars)
  BY <1>1, ReplacedEntity
<1>5. t4 \in Seq(Chars)
  <2> HIDE DEF t3
  <2> QED
    BY <1>1, <1>4, ReplacedEntity
<1>6. t5 \in Seq(Chars)
  <2> HIDE DEF t4
  <2> QED
    BY <1>1, <1>5, ReplacedEntity
<1>7. Escaped(t) = Spread(Marked(D0), t)
  BY EscapedMarked
<1>8. Spread(Marked(D0), t) \in Seq(Chars)
  BY <1>3, MarkedMore
<1>9. Replaced(Spread(Marked(D0), t), "quot") = Spread(Marked(D1), t)
  BY <1>1, <1>2, <1>3, FirstStages
<1> HIDE DEF D0
<1>10. Replaced(Spread(Marked(D1), t), "amp") = Spread(Marked(D2), t)
  <2> DEFINE D == D1
  <2>1. D \in SUBSET Escapable /\ Amp \in D /\ Entity["amp"] \in D /\ "amp" \in EntityNames
    BY <1>1, <1>2, <1>3
  <2> HIDE DEF D
  <2>2. Replaced(Spread(Marked(D), t), "amp") = Spread(Marked(D \ {Entity["amp"]}), t)
    BY <2>1, FirstStages
  <2> QED
    BY <2>2 DEF D
<1> HIDE DEF D1
<1>11. Replaced(Spread(Marked(D2), t), "apos") = Spread(Marked(D3), t3)
  <2> DEFINE D == D2
  <2>1. D \in SUBSET Escapable /\ Amp \notin D /\ Entity["apos"] \in D /\ "apos" \in EntityNames
    BY <1>1, <1>2, <1>3
  <2> HIDE DEF D
  <2>2. Replaced(Spread(Marked(D), t), "apos") = Spread(Marked(D \ {Entity["apos"]}), Replaced(t, "apos"))
    BY <2>1, LastStages
  <2> QED
    BY <2>2 DEF D
<1> HIDE DEF D2, t3
<1>12. Replaced(Spread(Marked(D3), t3), "lt") = Spread(Marked(D4), t4)
  <2> DEFINE D == D3
  <2>1. D \in SUBSET Escapable /\ Amp \notin D /\ Entity["lt"] \in D /\ "lt" \in EntityNames
    BY <1>1, <1>2, <1>3
  <2> HIDE DEF D
  <2>2. Replaced(Spread(Marked(D), t3), "lt") = Spread(Marked(D \ {Entity["lt"]}), Replaced(t3, "lt"))
    BY <1>4, <2>1, LastStages
  <2> QED
    BY <2>2 DEF D
<1> HIDE DEF D3, t4
<1>13. Replaced(Spread(Marked(D4), t4), "gt") = Spread(Marked(D5), t5)
  <2> DEFINE D == D4
  <2>1. D \in SUBSET Escapable /\ Amp \notin D /\ Entity["gt"] \in D /\ "gt" \in EntityNames
    BY <1>1, <1>2, <1>3
  <2> HIDE DEF D
  <2>2. Replaced(Spread(Marked(D), t4), "gt") = Spread(Marked(D \ {Entity["gt"]}), Replaced(t4, "gt"))
    BY <1>5, <2>1, LastStages
  <2> QED
    BY <2>2 DEF D
<1> HIDE DEF D4, t5
<1>14. Spread(Marked(D5), t5) = t5
  <2>1. \A c \in Chars : c \notin {}
    OBVIOUS
  <2>2. Marked({}) = Single
    BY DEF Marked, Single
  <2> QED
    BY <1>2, <1>6, <2>2, SpreadSingle
<1>15. Value(Escaped(t)) = t5
  BY <1>7, <1>8, <1>9, <1>10, <1>11, <1>12, <1>13, <1>14, ValueStages
<1> QED
  BY <1>15 DEF t3, t4, t5

\* So ValuesArrive holds of every input: as a text only gets shorter, none comes back as it was.
LEMMA ValueOfInput ==
    ASSUME NEW t \in Seq(Chars), Translated("value", t, Value(Escaped(t)))
    PROVE  ValuesArrive'
<1> DEFINE t3 == Replaced(t, "apos")
           t4 == Replaced(t3, "lt")
           t5 == Replaced(t4, "gt")
<1>1. "apos" \in EntityNames /\ "lt" \in EntityNames /\ "gt" \in EntityNames
  BY DEF EntityNames
<1>2. /\ t3 \in Seq(Chars)
      /\ ~Held(t, "apos") => t3 = t
      /\ Held(t, "apos") => Len(t3) < Len(t)
  BY <1>1, ReplacedEntity, ReplacedShorter
<1> HIDE DEF t3
<1>3. /\ t4 \in Seq(Chars)
      /\ ~Held(t3, "lt") => t4 = t3
      /\ Held(t3, "lt") => Len(t4) < Len(t3)
  BY <1>1, <1>2, ReplacedEntity, ReplacedShorter
<1> HIDE DEF t4
<1>4. /\ t5 \in Seq(Chars)
      /\ ~Held(t4, "gt") => t5 = t4
      /\ Held(t4, "gt") => Len(t5) < Len(t4)
  BY <1>1, <1>3, ReplacedEntity, ReplacedShorter
<1>5. Value(Escaped(t)) = t5
  BY ValueOfEscaped DEF t3, t4
<1> HIDE DEF t5
<1>6. Len(t) \in Nat /\ Len(t3) \in Nat /\ Len(t4) \in Nat /\ Len(t5) \in Nat
  BY <1>2, <1>3, <1>4
<1>7. t5 = t <=> ~Held(t, "apos") /\ ~Held(t, "lt") /\ ~Held(t, "gt")
  <2>1. CASE Held(t, "apos")
    <3>1. Len(t5) < Len(t)
      <4>1. Len(t4) <= Len(t3) /\ Len(t5) <= Len(t4)
        BY <1>3, <1>4, <1>6
      <4> QED
        BY <1>2, <1>6, <2>1, <4>1
    <3> QED
      BY <1>6, <2>1, <3>1
  <2>2. CASE ~Held(t, "apos") /\ Held(t, "lt")
    <3>1. t3 = t
      BY <1>2, <2>2
    <3>2. Len(t5) < Len(t)
      <4>1. Len(t5) <= Len(t4)
        BY <1>4, <1>6
      <4> QED
        BY <1>3, <1>6, <2>2, <3>1, <4>1
    <3> QED
      BY <1>6, <2>2, <3>2
  <2>3. CASE ~Held(t, "apos") /\ ~Held(t, "lt")
    <3>1. t3 = t /\ t4 = t
      BY <1>2, <1>3, <2>3
    <3> QED
      BY <1>4, <1>6, <2>3, <3>1
  <2> QED
    BY <2>1, <2>2, <2>3
<1>8. kind' = "value" /\ given' = t /\ got' = t5
  BY <1>5 DEF Translated
<1>9. (t5 = t) <=> \A i \in 1..(Len(t) - 1) : t[i] = Amp => t[i + 1] \notin {"apos", "lt", "gt"}
  BY <1>7 DEF Held
<1> QED
  BY <1>8, <1>9 DEF ValuesArrive, Amp

-----------------------------------------------------------------------------
(* What saga_to_condor leaves in the map of the attributes.                 *)

LEMMA AttrKeyType ==
    \A name \in Names : <<name, "lower">> \in AttrKeys /\ <<name, "Capital">> \in AttrKeys
BY DEF AttrKeys

\* Each call writes one key.
LEMMA MapAttributeSets ==
    ASSUME NEW attrs, DOMAIN attrs = AttrKeys, NEW name \in Names, NEW value
    PROVE  /\ DOMAIN MapAttribute(attrs, name, value) = AttrKeys
           /\ \A key \in AttrKeys :
                MapAttribute(attrs, name, value)[key] =
                    IF key = <<name, "lower">> /\ value # Unset THEN value ELSE attrs[key]
BY DEF MapAttribute

LEMMA WithUniverseSets ==
    ASSUME NEW attrs, DOMAIN attrs = AttrKeys, NEW scheme
    PROVE  \A key \in AttrKeys :
             WithUniverse(attrs, scheme)[key] =
                 IF scheme = "condorg" /\ key = <<"universe", "lower">> THEN "grid"
                 ELSE IF scheme # "condorg" /\ key = <<"universe", "Capital">> THEN "vanilla"
                 ELSE attrs[key]
BY DEF WithUniverse

\* The six keys in the end.
LEMMA AttributesSet ==
    ASSUME NEW ini, DOMAIN ini = AttrKeys, NEW jd, NEW scheme
    PROVE  LET attrs == Attributes(ini, jd, scheme)
           IN  /\ attrs[<<"input", "lower">>] =
                     IF jd.input = Unset THEN ini[<<"input", "lower">>] ELSE jd.input
               /\ attrs[<<"input", "Capital">>] = ini[<<"input", "Capital">>]
               /\ attrs[<<"queue", "lower">>] =
                     IF jd.number_of_processes = Unset THEN "1" ELSE jd.number_of_processes
               /\ attrs[<<"queue", "Capital">>] = ini[<<"queue", "Capital">>]
               /\ attrs[<<"universe", "lower">>] =
                     IF scheme = "condorg" THEN "grid" ELSE ini[<<"universe", "lower">>]
               /\ attrs[<<"universe", "Capital">>] =
                     IF scheme = "condorg" THEN ini[<<"universe", "Capital">>] ELSE "vanilla"
<1> DEFINE first == MapAttribute(ini, "input", jd.input)
           count == IF jd.number_of_processes = Unset THEN "1" ELSE jd.number_of_processes
           second == MapAttribute(first, "queue", count)
<1>1. {"input", "queue", "universe"} = Names /\ count # Unset
  BY DEF Names, Unset
<1>2. /\ DOMAIN first = AttrKeys
      /\ \A key \in AttrKeys :
            first[key] = IF key = <<"input", "lower">> /\ jd.input # Unset
                           THEN jd.input ELSE ini[key]
  BY <1>1, MapAttributeSets
<1>3. /\ DOMAIN second = AttrKeys
      /\ \A key \in AttrKeys :
            second[key] = IF key = <<"queue", "lower">> THEN count ELSE first[key]
  <2> HIDE DEF first, count
  <2> QED
    BY <1>1, <1>2, MapAttributeSets
<1>4. Attributes(ini, jd, scheme) = WithUniverse(second, scheme)
  BY DEF Attributes, WithDefault
<1> HIDE DEF first, second
<1>5. \A key \in AttrKeys :
         Attributes(ini, jd, scheme)[key] =
             IF scheme = "condorg" /\ key = <<"universe", "lower">> THEN "grid"
             ELSE IF scheme # "condorg" /\ key = <<"universe", "Capital">> THEN "vanilla"
             ELSE second[key]
  BY <1>3, <1>4, WithUniverseSets
<1> QED
  BY <1>1, <1>2, <1>3, <1>5, AttrKeyType

-----------------------------------------------------------------------------
(* What Condor makes of it.                                                 *)

\* SettingsApply for one input.
LEMMA SettingsOfInput ==
    ASSUME NEW ini \in Inis, NEW jd \in Jds, NEW scheme \in {"condor", "condorg"},
           Translated("settings", [ini |-> ini, jd |-> jd, scheme |-> scheme],
                      [n \in Names |-> Effective(Attributes(ini, jd, scheme), n)])
    PROVE  SettingsApply'
<1> DEFINE attrs == Attributes(ini, jd, scheme)
           preset == [ini EXCEPT ![<<"universe", "Capital">>] = Unset]
           capital == [ini EXCEPT ![<<"input", "lower">>] = Unset]
<1>0. /\ DOMAIN ini = AttrKeys
      /\ ini[<<"queue", "Capital">>] = Unset
  BY DEF Inis
<1>1. given'.ini = ini /\ given'.jd = jd /\ given'.scheme = scheme
  BY DEF Translated
<1>2. /\ got'["input"] = Effective(attrs, "input")
      /\ got'["queue"] = Effective(attrs, "queue")
      /\ got'["universe"] = Effective(attrs, "universe")
  BY DEF Names, Translated
<1>3. /\ preset[<<"universe", "lower">>] = ini[<<"universe", "lower">>]
      /\ preset[<<"universe", "Capital">>] = Unset
      /\ capital[<<"input", "Capital">>] = ini[<<"input", "Capital">>]
      /\ capital[<<"input", "lower">>] = Unset
  BY <1>0, AttrKeyType DEF Names
<1>4. /\ attrs[<<"input", "lower">>] =
            IF jd.input = Unset THEN ini[<<"input", "lower">>] ELSE jd.input
      /\ attrs[<<"input", "Capital">>] = ini[<<"input", "Capital">>]
  BY <1>0, AttributesSet
<1>5. /\ attrs[<<"queue", "lower">>] =
            IF jd.number_of_processes = Unset THEN "1" ELSE jd.number_of_processes
      /\ attrs[<<"queue", "Capital">>] = Unset
  BY <1>0, AttributesSet
<1>6. /\ attrs[<<"universe", "lower">>] =
            IF scheme = "condorg" THEN "grid" ELSE ini[<<"universe", "lower">>]
      /\ attrs[<<"universe", "Capital">>] =
            IF scheme = "condorg" THEN ini[<<"universe", "Capital">>] ELSE "vanilla"
  BY <1>0, AttributesSet
<1> HIDE DEF attrs, preset, capital
<1>7. got'["input"] = CASE jd.input = Unset -> Effective(ini, "input")
                        [] jd.input = "" -> Effective(capital, "input")
                        [] OTHER -> jd.input
  BY <1>2, <1>3, <1>4 DEF Effective, Unset
<1>8. got'["universe"] = CASE scheme = "condorg" -> "grid"
                           [] scheme = "condor" /\ Effective(preset, "universe") # Unset ->
                                 Effective(preset, "universe")
                           [] OTHER -> "vanilla"
  BY <1>2, <1>3, <1>6 DEF Effective, Unset
<1>9. got'["queue"] = CASE jd.number_of_processes = Unset -> "1"
                        [] jd.number_of_processes = "" -> Unset
                        [] OTHER -> jd.number_of_processes
  BY <1>2, <1>5 DEF Effective, Unset
<1> QED
  BY <1>1, <1>7, <1>8, <1>9 DEF SettingsApply, preset, capital

(* What the application sets counts, then what the ini file sets, then the  *)
(* default, however the keys are capitalised: for all values of the ini     *)
(* file, of Input and of NumberOfProcesses, not only those of a run.        *)
THEOREM SettingsTranslated == TranslationSpec => []SettingsApply
<1>1. NothingTranslated => SettingsApply
  BY DEF NothingTranslated, SettingsApply
<1>2. ASSUME SettingsApply, Translate
      PROVE  SettingsApply'
  <2>1. CASE TranslateSettings
    <3>1. PICK ini \in Inis, jd \in Jds, scheme \in {"condor", "condorg"} :
             Translated("settings", [ini |-> ini, jd |-> jd, scheme |-> scheme],
                        [n \in Names |-> Effective(Attributes(ini, jd, scheme), n)])
      BY <2>1 DEF TranslateSettings
    <3> QED
      BY <3>1, SettingsOfInput
  <2>2. CASE ~TranslateSettings
    <3>1. kind' # "settings"
      BY <1>2, <2>2 DEF Translate, TranslateArguments, TranslateRequirements,
                        TranslateTransfers, ReadValue, Translated
    <3> QED
      BY <3>1 DEF SettingsApply
  <2> QED
    BY <2>1, <2>2
<1>3. ASSUME SettingsApply, UNCHANGED translation_vars
      PROVE  SettingsApply'
  BY <1>3 DEF SettingsApply, translation_vars
<1> QED
  BY <1>1, <1>2, <1>3, PTL DEF TranslationSpec

-----------------------------------------------------------------------------
(* The theorems: one input after the other, and one kind at a time.         *)

\* The inputs of a run are sequences.
LEMMA BoundedIsSeq ==
    ASSUME NEW S, NEW n, NEW s \in BoundedSeq(S, n)
    PROVE  s \in Seq(S)
<1>1. PICK m \in 0..n : s \in [1..m -> S]
  BY DEF BoundedSeq, SeqOf
<1> QED
  BY <1>1

(* Whatever files are asked for, in whatever order and however often: the   *)
(* first entry that is refused decides the exception, and without one the   *)
(* input files come under their names, and the output files where the pairs *)
(* of remaps send them.                                                     *)
THEOREM TransfersTranslated == TranslationSpec => []TransfersCarried
<1>1. NothingTranslated => TransfersCarried
  BY DEF NothingTranslated, TransfersCarried
<1>2. ASSUME TransfersCarried, Translate
      PROVE  TransfersCarried'
  <2>1. CASE TranslateTransfers
    <3>1. PICK es \in BoundedSeq(Entries, MaxEntries) : Translated("transfers", es, Transfers(es))
      BY <2>1 DEF TranslateTransfers
    <3>2. es \in Seq(Entries)
      BY BoundedIsSeq
    <3> QED
      BY <3>1, <3>2, TransfersOfInput
  <2>2. CASE ~TranslateTransfers
    <3>1. kind' # "transfers"
      BY <1>2, <2>2 DEF Translate, TranslateArguments, TranslateSettings,
                        TranslateRequirements, ReadValue, Translated
    <3> QED
      BY <3>1 DEF TransfersCarried
  <2> QED
    BY <2>1, <2>2
<1>3. ASSUME TransfersCarried, UNCHANGED translation_vars
      PROVE  TransfersCarried'
  BY <1>3 DEF TransfersCarried, translation_vars
<1> QED
  BY <1>1, <1>2, <1>3, PTL DEF TranslationSpec

(* However many hosts are named, empty names among them: without a test,    *)
(* Condor takes a machine for the text of requirements if and only if it is *)
(* a candidate, or none is named. With any test, whatever the hosts, it     *)
(* refuses the description, for the "=" that map_requirement writes.        *)
THEOREM MachinesTranslated == TranslationSpec => []MachinesChosen
<1>1. NothingTranslated => MachinesChosen
  BY DEF NothingTranslated, MachinesChosen
<1>2. ASSUME MachinesChosen, Translate
      PROVE  MachinesChosen'
  <2>1. CASE TranslateRequirements
    <3>1. PICK hosts \in BoundedSeq(Hosts \cup {""}, MaxEntries),
               tests \in BoundedSeq(Tests, 2), h \in Hosts :
             Translated("requirements", [hosts |-> hosts, tests |-> tests, machine |-> h],
                        Chosen(Conjunction(Parts(hosts, tests)), h))
      BY <2>1 DEF TranslateRequirements
    <3>2. hosts \in Seq(HostNames) /\ tests \in Seq(Tests)
      BY BoundedIsSeq DEF HostNames
    <3> QED
      BY <3>1, <3>2, MachinesOfInput
  <2>2. CASE ~TranslateRequirements
    <3>1. kind' # "requirements"
      BY <1>2, <2>2 DEF Translate, TranslateArguments, TranslateSettings,
                        TranslateTransfers, ReadValue, Translated
    <3> QED
      BY <3>1 DEF MachinesChosen
  <2> QED
    BY <2>1, <2>2
<1>3. ASSUME MachinesChosen, UNCHANGED translation_vars
      PROVE  MachinesChosen'
  BY <1>3 DEF MachinesChosen, translation_vars
<1> QED
  BY <1>1, <1>2, <1>3, PTL DEF TranslationSpec

(* Whatever words an application asks for, with whatever characters in them *)
(* and however many: the job gets them, one for one, if and only if none is *)
(* empty and none holds white space that nothing has put in quotes.         *)
THEOREM ArgumentsTranslated == TranslationSpec => []ArgumentsArrive
<1>1. NothingTranslated => ArgumentsArrive
  BY DEF NothingTranslated, ArgumentsArrive
<1>2. ASSUME ArgumentsArrive, Translate
      PROVE  ArgumentsArrive'
  <2>1. CASE TranslateArguments
    <3>1. PICK v \in BoundedSeq(Words, MaxWords) :
             Translated("arguments", v, Arguments(ArgumentText(v)))
      BY <2>1 DEF TranslateArguments
    <3>2. v \in Seq(Seq(Chars))
      <4>1. v \in Seq(Words)
        BY BoundedIsSeq
      <4>2. Words \subseteq Seq(Chars)
        BY TextsOfChars
      <4> QED
        BY <4>1, <4>2, SeqMonotonic
    <3> QED
      BY <3>1, <3>2, ArgumentsOfInput
  <2>2. CASE ~TranslateArguments
    <3>1. kind' # "arguments"
      BY <1>2, <2>2 DEF Translate, TranslateTransfers, TranslateSettings,
                        TranslateRequirements, ReadValue, Translated
    <3> QED
      BY <3>1 DEF ArgumentsArrive
  <2> QED
    BY <2>1, <2>2
<1>3. ASSUME ArgumentsArrive, UNCHANGED translation_vars
      PROVE  ArgumentsArrive'
  BY <1>3 DEF ArgumentsArrive, translation_vars
<1> QED
  BY <1>1, <1>2, <1>3, PTL DEF TranslationSpec

(* Whatever text Condor writes, however long and whatever it holds: it is   *)
(* read as it was if and only if it does not itself hold "&" and one of the *)
(* names that are decoded after that of "&".                                *)
THEOREM ValuesTranslated == TranslationSpec => []ValuesArrive
<1>1. NothingTranslated => ValuesArrive
  BY DEF NothingTranslated, ValuesArrive
<1>2. ASSUME ValuesArrive, Translate
      PROVE  ValuesArrive'
  <2>1. CASE ReadValue
    <3>1. PICK text \in Texts : Translated("value", text, Value(Escaped(text)))
      BY <2>1 DEF ReadValue
    <3>2. text \in Seq(Chars)
      BY TextsOfChars
    <3> QED
      BY <3>1, <3>2, ValueOfInput
  <2>2. CASE ~ReadValue
    <3>1. kind' # "value"
      BY <1>2, <2>2 DEF Translate, TranslateArguments, TranslateSettings,
                        TranslateRequirements, TranslateTransfers, Translated
    <3> QED
      BY <3>1 DEF ValuesArrive
  <2> QED
    BY <2>1, <2>2
<1>3. ASSUME ValuesArrive, UNCHANGED translation_vars
      PROVE  ValuesArrive'
  BY <1>3 DEF ValuesArrive, translation_vars
<1> QED
  BY <1>1, <1>2, <1>3, PTL DEF TranslationSpec

=============================================================================
