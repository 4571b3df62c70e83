------------------------- MODULE Subsequences_proofs -------------------------
(***************************************************************************)
(* What Only selects, of the empty queue, of a queue with an element more  *)
(* or less at either end, and of two queues in a row.  That its recursive  *)
(* function exists, and induction on sequences, are proved here from the   *)
(* well-foundedness of finite sets.                                        *)
(***************************************************************************)
EXTENDS Subsequences, FiniteSetTheorems, SequenceTheorems, TLAPS

\* Of some natural numbers one is the least: the intervals below them are
\* finite sets, one of which contains none of the others.
LEMMA LeastNatural ==
    ASSUME NEW N \in SUBSET Nat, N # {}
    PROVE  \E m \in N : \A k \in N : m <= k
<1> DEFINE T == {0 .. k : k \in N}
<1>1. T \subseteq FiniteSubsetsOf(Nat) /\ T # {}
    <2>1. \A k \in N : 0 .. k \subseteq Nat /\ IsFiniteSet(0 .. k)
        BY FS_Interval
    <2> QED BY <2>1 DEF FiniteSubsetsOf
<1>2. \E a \in T : \A b \in T : <<b, a>> \notin StrictSubsetOrdering(Nat)
    <2> HIDE DEF T
    <2> QED BY <1>1, FS_StrictSubsetOrderingWellFounded, WFMin
<1>3. PICK m \in N : \A k \in N : <<0 .. k, 0 .. m>> \notin StrictSubsetOrdering(Nat)
    BY <1>2
<1>4. ASSUME NEW k \in N, k < m PROVE FALSE
    <2>1. 0 .. k \subseteq 0 .. m /\ m \in 0 .. m /\ m \notin 0 .. k
        BY <1>4
    <2>2. 0 .. k \in SUBSET Nat /\ 0 .. m \in SUBSET Nat
        OBVIOUS
    <2> QED BY <2>1, <2>2, <1>3 DEF StrictSubsetOrdering
<1> QED BY <1>4

\* The equations of Only's recursive function, of the first n elements.
Selects(f, q, S, n) ==
    f = [i \in 0 .. n |->
            IF i = 0 THEN <<>>
            ELSE IF q[i] \in S THEN Append(f[i - 1], q[i]) ELSE f[i - 1]]

\* There is a function that satisfies them, for any queue.
LEMMA SelectsExists == ASSUME NEW q, NEW S, NEW n \in Nat PROVE \E f : Selects(f, q, S, n)
<1> DEFINE N == {k \in Nat : ~ \E f : Selects(f, q, S, k)}
<1> SUFFICES ASSUME N # {} PROVE FALSE
    OBVIOUS
<1>1. PICK m \in N : \A k \in N : m <= k
    <2> HIDE DEF N
    <2>1. N \in SUBSET Nat BY DEF N
    <2> QED BY <2>1, LeastNatural
<1>2. CASE m = 0
    <2> DEFINE f == [i \in 0 .. 0 |-> <<>>]
    <2>1. Selects(f, q, S, 0)
        BY DEF Selects
    <2> QED BY <1>1, <1>2, <2>1
<1>3. CASE m # 0
    <2>1. m - 1 \in Nat /\ m - 1 \notin N
        BY <1>1, <1>3
    <2>2. PICK f : Selects(f, q, S, m - 1)
        BY <2>1
    <2> DEFINE g == [i \in 0 .. m |-> IF i = m THEN IF q[m] \in S THEN Append(f[m - 1], q[m]) ELSE f[m - 1] ELSE f[i]]
    <2>3. \A i \in 0 .. m : g[i] = IF i = 0 THEN <<>>
            ELSE IF q[i] \in S THEN Append(g[i - 1], q[i]) ELSE g[i - 1]
        <3> TAKE i \in 0 .. m
        <3>1. CASE i = m
            <4>1. g[i-1] = f[m - 1]
               BY <3>1, <1>3, <1>1
            <4> QED BY <3>1, <4>1, <1>3
        <3>2. CASE i # m
            <4>1. i \in 0 .. m - 1
                BY <3>2, <1>1
            <4>2. g[i] = f[i] /\ (i # 0 => g[i-1] = f[i-1])
                BY <4>1, <3>2, <1>1
            <4>3. f[i] = IF i = 0 THEN <<>>
            ELSE IF q[i] \in S THEN Append(f[i - 1], q[i]) ELSE f[i - 1]
                BY <2>2, <4>1, Zenon DEF Selects
            <4> QED BY <4>2, <4>3
        <3> QED BY <3>1, <3>2
    <2>4. Selects(g, q, S, m)
       <3> HIDE DEF g
       <3>1. g = [i \in 0 .. m |-> g[i]] BY DEF g
       <3>2. g = [i \in 0 .. m |-> IF i = 0 THEN <<>>
            ELSE IF q[i] \in S THEN Append(g[i - 1], q[i]) ELSE g[i - 1]]
           BY <3>1, <2>3
       <3> QED BY <3>2 DEF Selects
    <2> QED BY <1>1, <2>4
<1> QED BY <1>2, <1>3

\* They give each value from the one before.
LEMMA SelectsNext ==
    ASSUME NEW f, NEW q, NEW S, NEW n \in Nat, Selects(f, q, S, n), NEW i \in 0 .. n
    PROVE  f[i] = IF i = 0 THEN <<>>
                  ELSE IF q[i] \in S THEN Append(f[i - 1], q[i]) ELSE f[i - 1]
BY Zenon DEF Selects

\* Only is the last value of one.
LEMMA OnlySelects ==
    ASSUME NEW q, NEW S, Len(q) \in Nat
    PROVE  \E f : Selects(f, q, S, Len(q)) /\ Only(q, S) = f[Len(q)]
<1> DEFINE f == CHOOSE g : Selects(g, q, S, Len(q))
<1>1. Selects(f, q, S, Len(q))
    BY SelectsExists
<1>2. Only(q, S) = f[Len(q)]
    BY DEF Only, Selects
<1> QED
    BY <1>1, <1>2

\* What is selected of a prefix depends on the prefix alone.
LEMMA SelectsUnique ==
    ASSUME NEW q, NEW r, NEW S, NEW f, NEW g, NEW n \in Nat, NEW m \in 0 .. n,
           Selects(f, q, S, m), Selects(g, r, S, n),
           \A i \in 1 .. m : q[i] = r[i]
    PROVE  f[m] = g[m]
<1> DEFINE N == {k \in 0 .. m : f[k] # g[k]}
<1> SUFFICES ASSUME N # {} PROVE FALSE
    OBVIOUS
<1>1. PICK k \in N : \A i \in N : k <= i
    <2>1. N \in SUBSET Nat
        OBVIOUS
    <2> HIDE DEF N
    <2> QED
        BY <2>1, LeastNatural
<1>2. /\ f[k] = IF k = 0 THEN <<>>
                ELSE IF q[k] \in S THEN Append(f[k - 1], q[k]) ELSE f[k - 1]
      /\ g[k] = IF k = 0 THEN <<>>
                ELSE IF r[k] \in S THEN Append(g[k - 1], r[k]) ELSE g[k - 1]
    <2>1. k \in 0 .. m /\ k \in 0 .. n
        OBVIOUS
    <2> HIDE DEF N
    <2> QED
        BY <2>1, SelectsNext
<1>3. k # 0 => q[k] = r[k] /\ f[k - 1] = g[k - 1]
    BY <1>1
<1> QED
    BY <1>2, <1>3

\* Nothing comes of nothing.
LEMMA OnlyEmpty == ASSUME NEW S PROVE Only(<<>>, S) = <<>>
<1>1. Len(<<>>) = 0
    OBVIOUS
<1>2. PICK f : Selects(f, <<>>, S, 0) /\ Only(<<>>, S) = f[0]
    BY <1>1, OnlySelects
<1> QED
    BY <1>2 DEF Selects

\* An element put at the end is the last of what is selected, or left out.
LEMMA OnlyAppend ==
    ASSUME NEW A, NEW q \in Seq(A), NEW e \in A, NEW S
    PROVE  Only(Append(q, e), S) = IF e \in S THEN Append(Only(q, S), e) ELSE Only(q, S)
<1> DEFINE r == Append(q, e)
           n == Len(q)
<1>1. /\ n \in Nat /\ n + 1 \in Nat /\ n <= n + 1
      /\ Len(r) = n + 1 /\ Len(r) \in Nat /\ r[n + 1] = e
      /\ \A i \in 1 .. n : q[i] = r[i]
    BY AppendProperties
<1>2. PICK f : Selects(f, q, S, n) /\ Only(q, S) = f[n]
    BY <1>1, OnlySelects
<1> HIDE DEF r
<1>3. PICK g : Selects(g, r, S, Len(r)) /\ Only(r, S) = g[Len(r)]
    BY <1>1, OnlySelects
<1> HIDE DEF n
<1>4. f[n] = g[n]
    <2> DEFINE k == n + 1
    <2>1. k \in Nat /\ n \in 0 .. k /\ Selects(g, r, S, k)
        BY <1>1, <1>3
    <2> HIDE DEF k
    <2>2. n \in Nat /\ Selects(f, q, S, n) /\ \A i \in 1 .. n : q[i] = r[i]
        BY <1>1, <1>2
    <2> QED
        BY <2>1, <2>2, SelectsUnique
<1>5. g[n + 1] = IF r[n + 1] \in S THEN Append(g[n], r[n + 1]) ELSE g[n]
    <2>1. n + 1 \in 0 .. n + 1 /\ n + 1 # 0 /\ (n + 1) - 1 = n
        BY <1>1
    <2> QED
        BY <1>1, <2>1, <1>3, SelectsNext
<1> QED
    BY <1>1, <1>2, <1>3, <1>4, <1>5 DEF r

\* Induction on sequences, for a set in place of a predicate.
LEMMA AllSequences ==
    ASSUME NEW A, NEW Z, <<>> \in Z, \A q \in Seq(A), e \in A : q \in Z => Append(q, e) \in Z
    PROVE  Seq(A) \subseteq Z
<1> DEFINE N == {n \in Nat : \E q \in Seq(A) : q \notin Z /\ Len(q) = n}
<1> SUFFICES ASSUME NEW q \in Seq(A), q \notin Z PROVE FALSE
    OBVIOUS
<1>1. Len(q) \in N
    OBVIOUS
<1>2. PICK n \in N : \A k \in N : n <= k
    <2>1. N \in SUBSET Nat /\ N # {}
        BY <1>1
    <2> HIDE DEF N
    <2> QED
        BY <2>1, LeastNatural
<1>3. PICK r \in Seq(A) : r \notin Z /\ Len(r) = n
    OBVIOUS
<1>4. PICK s \in Seq(A), e \in A : r = Append(s, e)
    BY <1>3, SequenceEmptyOrAppend
<1>5. Len(s) \in Nat /\ Len(s) = n - 1
    BY <1>3, <1>4, AppendProperties
<1>6. s \notin Z
    BY <1>3, <1>4
<1> QED
    BY <1>2, <1>5, <1>6

\* What is selected are elements of the queue and of the set, and not more.
LEMMA OnlyType ==
    ASSUME NEW A, NEW S
    PROVE  \A q \in Seq(A) : Only(q, S) \in Seq(A \cap S) /\ Len(Only(q, S)) <= Len(q)
<1> DEFINE Z == {q \in Seq(A) : Only(q, S) \in Seq(A \cap S) /\ Len(Only(q, S)) <= Len(q)}
<1>1. <<>> \in Z
    <2>1. <<>> \in Seq(A) /\ <<>> \in Seq(A \cap S) /\ Len(<<>>) <= Len(<<>>)
        OBVIOUS
    <2> QED
        BY <2>1, OnlyEmpty, Zenon
<1>2. ASSUME NEW q \in Seq(A), NEW e \in A, q \in Z PROVE Append(q, e) \in Z
    <2>1. Append(q, e) \in Seq(A) /\ Len(Append(q, e)) = Len(q) + 1 /\ Len(q) \in Nat
        BY AppendProperties
    <2>2. CASE e \in S
        <3>1. Only(Append(q, e), S) = Append(Only(q, S), e)
            BY <2>2, OnlyAppend
        <3>2. e \in A \cap S /\ Only(q, S) \in Seq(A \cap S) /\ Len(Only(q, S)) <= Len(q)
            BY <1>2, <2>2
        <3>3. /\ Append(Only(q, S), e) \in Seq(A \cap S)
              /\ Len(Append(Only(q, S), e)) = Len(Only(q, S)) + 1
              /\ Len(Only(q, S)) \in Nat
            BY <3>2, AppendProperties
        <3> QED
            BY <2>1, <3>1, <3>2, <3>3
    <2>3. CASE e \notin S
        <3>1. Only(Append(q, e), S) = Only(q, S)
            BY <2>3, OnlyAppend
        <3>2. Len(Only(q, S)) \in Nat
            BY <1>2
        <3> QED
            BY <1>2, <2>1, <3>1, <3>2
    <2> QED
        BY <2>2, <2>3
<1> HIDE DEF Z
<1>3. Seq(A) \subseteq Z
    BY <1>1, <1>2, AllSequences
<1> QED
    BY <1>3 DEF Z

\* Where every element is in the set the queue is as it was,
LEMMA OnlyAll ==
    ASSUME NEW A, NEW S, A \subseteq S
    PROVE  \A q \in Seq(A) : Only(q, S) = q
<1> DEFINE Z == {q \in Seq(A) : Only(q, S) = q}
<1>1. <<>> \in Z
    BY OnlyEmpty
<1>2. ASSUME NEW q \in Seq(A), NEW e \in A, q \in Z PROVE Append(q, e) \in Z
    BY <1>2, OnlyAppend, AppendProperties
<1> HIDE DEF Z
<1>3. Seq(A) \subseteq Z
    BY <1>1, <1>2, AllSequences
<1> QED
    BY <1>3 DEF Z

\* and where none is, nothing is selected.
LEMMA OnlyNone ==
    ASSUME NEW A, NEW S, A \cap S = {}
    PROVE  \A q \in Seq(A) : Only(q, S) = <<>>
<1> DEFINE Z == {q \in Seq(A) : Only(q, S) = <<>>}
<1>1. <<>> \in Z
    BY OnlyEmpty
<1>2. ASSUME NEW q \in Seq(A), NEW e \in A, q \in Z PROVE Append(q, e) \in Z
    BY <1>2, OnlyAppend, AppendProperties
<1> HIDE DEF Z
<1>3. Seq(A) \subseteq Z
    BY <1>1, <1>2, AllSequences
<1> QED
    BY <1>3 DEF Z

\* And where nothing is selected no element is in the set.
LEMMA OnlyLeftOut ==
    ASSUME NEW A, NEW S
    PROVE  \A q \in Seq(A) : Only(q, S) = <<>> => q \in Seq(A \ S)
<1> DEFINE Z == {q \in Seq(A) : Only(q, S) = <<>> => q \in Seq(A \ S)}
<1>1. <<>> \in Z
    OBVIOUS
<1>2. ASSUME NEW q \in Seq(A), NEW e \in A, q \in Z PROVE Append(q, e) \in Z
    <2>1. CASE e \in S
        <3>1. Only(Append(q, e), S) = Append(Only(q, S), e) /\ Only(q, S) \in Seq(A \cap S) /\ e \in A \cap S
            BY <2>1, OnlyAppend, OnlyType
        <3>2. Only(Append(q, e), S) # <<>>
            BY <3>1, AppendProperties
        <3> QED
            BY <3>2
    <2>2. CASE e \notin S
        <3>1. Only(Append(q, e), S) = Only(q, S) /\ e \in A \ S
            BY <2>2, OnlyAppend
        <3> QED
            BY <1>2, <3>1, AppendProperties
    <2> QED
        BY <2>1, <2>2
<1> HIDE DEF Z
<1>3. Seq(A) \subseteq Z
    BY <1>1, <1>2, AllSequences
<1> QED
    BY <1>3 DEF Z

\* Of two queues in a row, first what the first has, then the second.
LEMMA OnlyConcat ==
    ASSUME NEW A, NEW q \in Seq(A), NEW S
    PROVE  \A r \in Seq(A) : Only(q \o r, S) = Only(q, S) \o Only(r, S)
<1> DEFINE Z == {r \in Seq(A) : Only(q \o r, S) = Only(q, S) \o Only(r, S)}
<1>0. Only(q, S) \in Seq(A \cap S)
    BY OnlyType
<1>1. <<>> \in Z
    BY <1>0, OnlyEmpty, ConcatEmptySeq
<1>2. ASSUME NEW r \in Seq(A), NEW e \in A, r \in Z PROVE Append(r, e) \in Z
    <2>1. q \o Append(r, e) = Append(q \o r, e)
        <3>1. <<e>> \in Seq(A)
            OBVIOUS
        <3>2. q \o (r \o <<e>>) = (q \o r) \o <<e>> /\ q \o r \in Seq(A)
            BY <3>1, ConcatAssociative, ConcatProperties
        <3> QED
            BY <3>2, AppendIsConcat
    <2>2. q \o r \in Seq(A) /\ Append(r, e) \in Seq(A) /\ Only(r, S) \in Seq(A \cap S)
        BY ConcatProperties, AppendProperties, OnlyType
    <2>a. /\ Only(Append(q \o r, e), S) = IF e \in S THEN Append(Only(q \o r, S), e) ELSE Only(q \o r, S)
          /\ Only(Append(r, e), S) = IF e \in S THEN Append(Only(r, S), e) ELSE Only(r, S)
        <3> DEFINE u == q \o r
        <3> HIDE DEF u
        <3>1. ASSUME u \in Seq(A)
              PROVE  Only(Append(u, e), S) = IF e \in S THEN Append(Only(u, S), e) ELSE Only(u, S)
            BY <3>1, OnlyAppend
        <3> QED
            BY <2>2, <3>1, OnlyAppend DEF u
    <2>b. Only(q \o r, S) = Only(q, S) \o Only(r, S)
        BY <1>2
    <2>3. CASE e \in S
        <3>1. /\ Only(q \o Append(r, e), S) = Append(Only(q, S) \o Only(r, S), e)
              /\ Only(Append(r, e), S) = Append(Only(r, S), e)
            BY <2>1, <2>3, <2>a, <2>b
        <3>2. Append(Only(q, S) \o Only(r, S), e) = Only(q, S) \o Append(Only(r, S), e)
            <4> DEFINE u == Only(q, S)
                       v == Only(r, S)
            <4>1. u \in Seq(A \cap S) /\ v \in Seq(A \cap S) /\ e \in A \cap S /\ <<e>> \in Seq(A \cap S)
                BY <1>0, <2>2, <2>3
            <4> HIDE DEF u, v
            <4>2. (u \o v) \o <<e>> = u \o (v \o <<e>>) /\ u \o v \in Seq(A \cap S)
                BY <4>1, ConcatAssociative, ConcatProperties
            <4>3. Append(u \o v, e) = u \o Append(v, e)
                BY <4>1, <4>2, AppendIsConcat
            <4> QED
                BY <4>3 DEF u, v
        <3> QED
            BY <2>2, <3>1, <3>2
    <2>4. CASE e \notin S
        BY <2>1, <2>2, <2>4, <2>a, <2>b
    <2> QED
        BY <2>3, <2>4
<1> HIDE DEF Z
<1>3. Seq(A) \subseteq Z
    BY <1>1, <1>2, AllSequences
<1> QED
    BY <1>3 DEF Z

\* A queue is its head and its tail.
LEMMA HeadThenTail ==
    ASSUME NEW A, NEW q \in Seq(A), q # <<>>
    PROVE  /\ Head(q) \in A /\ Tail(q) \in Seq(A) /\ <<Head(q)>> \in Seq(A)
           /\ q = <<Head(q)>> \o Tail(q)
<1>1. Head(q) \in A /\ Tail(q) \in Seq(A) /\ Len(Tail(q)) = Len(q) - 1
      /\ \A i \in 1 .. Len(Tail(q)) : Tail(q)[i] = q[i + 1]
    BY HeadTailProperties
<1>2. <<Head(q)>> \in Seq(A) /\ Len(<<Head(q)>>) = 1 /\ Len(q) \in Nat \ {0} /\ Head(q) = q[1]
    BY <1>1, EmptySeq
<1>3. <<Head(q)>> \o Tail(q) \in Seq(A) /\ Len(<<Head(q)>> \o Tail(q)) = Len(q)
    BY <1>1, <1>2, ConcatProperties
<1>4. \A i \in 1 .. Len(q) : (<<Head(q)>> \o Tail(q))[i] = q[i]
    BY <1>1, <1>2, ConcatProperties
<1>5. q = <<Head(q)>> \o Tail(q)
    BY <1>3, <1>4, SeqEqual
<1> QED
    BY <1>1, <1>2, <1>5

\* What is selected of one element.
LEMMA OnlyOne ==
    ASSUME NEW e, NEW S
    PROVE  Only(<<e>>, S) = IF e \in S THEN <<e>> ELSE <<>>
<1> DEFINE none == <<>>
<1>1. <<e>> = Append(none, e) /\ none \in Seq({e})
    OBVIOUS
<1>2. ASSUME NEW r \in Seq({e})
      PROVE  Only(Append(r, e), S) = IF e \in S THEN Append(Only(r, S), e) ELSE Only(r, S)
    BY OnlyAppend
<1>3. Only(Append(<<>>, e), S) = IF e \in S THEN Append(Only(<<>>, S), e) ELSE Only(<<>>, S)
    BY <1>1, <1>2
<1> QED
    BY <1>1, <1>3, OnlyEmpty

\* The head is the first that is selected, or left out.
LEMMA OnlyHeadTail ==
    ASSUME NEW A, NEW q \in Seq(A), q # <<>>, NEW S
    PROVE  Only(q, S) = IF Head(q) \in S THEN <<Head(q)>> \o Only(Tail(q), S)
                        ELSE Only(Tail(q), S)
<1>1. Head(q) \in A /\ Tail(q) \in Seq(A) /\ <<Head(q)>> \in Seq(A) /\ q = <<Head(q)>> \o Tail(q)
    BY HeadThenTail
<1>2. ASSUME NEW h \in Seq(A), NEW t \in Seq(A)
      PROVE  Only(h \o t, S) = Only(h, S) \o Only(t, S) /\ Only(t, S) \in Seq(A \cap S)
    BY OnlyConcat, OnlyType
<1>3. Only(q, S) = Only(<<Head(q)>>, S) \o Only(Tail(q), S) /\ Only(Tail(q), S) \in Seq(A \cap S)
    <2> DEFINE h == <<Head(q)>>
               t == Tail(q)
    <2>1. h \in Seq(A) /\ t \in Seq(A) /\ q = h \o t
        BY <1>1
    <2> HIDE DEF h, t
    <2>2. Only(q, S) = Only(h, S) \o Only(t, S) /\ Only(t, S) \in Seq(A \cap S)
        BY <2>1, <1>2
    <2> QED
        BY <2>2 DEF h, t
<1>4. Only(<<Head(q)>>, S) = IF Head(q) \in S THEN <<Head(q)>> ELSE <<>>
    BY OnlyOne
<1>5. <<>> \o Only(Tail(q), S) = Only(Tail(q), S)
    BY <1>3, ConcatEmptySeq
<1> QED
    BY <1>3, <1>4, <1>5

\* How many are selected: one more with an element of the set put at the end,
\* one less with one taken from the head.
LEMMA OnlyLength ==
    ASSUME NEW A, NEW q \in Seq(A), NEW S
    PROVE  /\ Len(Only(q, S)) \in Nat
           /\ \A e \in A : Len(Only(Append(q, e), S)) =
                   IF e \in S THEN Len(Only(q, S)) + 1 ELSE Len(Only(q, S))
           /\ q # <<>> => Len(Only(q, S)) =
                   IF Head(q) \in S THEN Len(Only(Tail(q), S)) + 1 ELSE Len(Only(Tail(q), S))
<1>1. \A r \in Seq(A) : Only(r, S) \in Seq(A \cap S) /\ Len(Only(r, S)) \in Nat
    BY OnlyType
<1>2. ASSUME NEW e \in A
      PROVE  Len(Only(Append(q, e), S)) = IF e \in S THEN Len(Only(q, S)) + 1 ELSE Len(Only(q, S))
    <2>1. Only(Append(q, e), S) = IF e \in S THEN Append(Only(q, S), e) ELSE Only(q, S)
        BY OnlyAppend
    <2>2. ASSUME e \in S PROVE Len(Append(Only(q, S), e)) = Len(Only(q, S)) + 1
        BY <1>1, <2>2, AppendProperties
    <2> QED
        BY <2>1, <2>2
<1>3. ASSUME q # <<>>
      PROVE  Len(Only(q, S)) =
                 IF Head(q) \in S THEN Len(Only(Tail(q), S)) + 1 ELSE Len(Only(Tail(q), S))
    <2>1. Head(q) \in A /\ Tail(q) \in Seq(A)
        BY <1>3, HeadThenTail
    <2>2. Only(q, S) = IF Head(q) \in S THEN <<Head(q)>> \o Only(Tail(q), S) ELSE Only(Tail(q), S)
        BY <1>3, OnlyHeadTail
    <2>3. ASSUME Head(q) \in S
          PROVE  Len(<<Head(q)>> \o Only(Tail(q), S)) = Len(Only(Tail(q), S)) + 1
        <3> DEFINE h == <<Head(q)>>
                   t == Only(Tail(q), S)
        <3>1. h \in Seq(A \cap S) /\ Len(h) = 1
            <4>1. Head(q) \in A \cap S
                BY <2>1, <2>3
            <4> QED
                BY <4>1
        <3>2. t \in Seq(A \cap S) /\ Len(t) \in Nat
            BY <1>1, <2>1
        <3> HIDE DEF h, t
        <3>3. Len(h \o t) = Len(h) + Len(t)
            BY <3>1, <3>2, ConcatProperties
        <3>4. Len(h \o t) = Len(t) + 1
            BY <3>1, <3>2, <3>3
        <3> QED
            BY <3>4 DEF h, t
    <2> QED
        BY <2>2, <2>3
<1> QED
    BY <1>1, <1>2, <1>3

=============================================================================
