---------------------------- MODULE SequenceLemmas ---------------------------
(* The lemmas about sequences that the proofs cite: the elements of a        *)
(* sequence, and what the operators do to them; induction over the numbers,  *)
(* as a statement about a set, since a leaf cannot instantiate a predicate;  *)
(* what FlattenSeq, a recursive function, computes; and where the elements   *)
(* of its parts are in it.                                                   *)
EXTENDS SequencesExt, FiniteSetTheorems, TLAPS

Elems(s) == {s[i] : i \in 1..Len(s)}

\* A sequence over a set is one over a larger set.
LEMMA WiderSeq ==
  ASSUME NEW S, NEW T, S \subseteq T, NEW s \in Seq(S)
  PROVE  s \in Seq(T)
<1>1. /\ Len(s) \in Nat /\ s = [i \in 1..Len(s) |-> s[i]]
      /\ \A i \in 1..Len(s) : s[i] \in S
  OBVIOUS
<1>2. \A i \in 1..Len(s) : s[i] \in T
  BY <1>1
<1> DEFINE n == Len(s)
<1> HIDE DEF n
<1>3. [i \in 1..n |-> s[i]] \in Seq(T)
  BY <1>1, <1>2 DEF n
<1>4. QED
  BY <1>1, <1>3 DEF n

\* Tail takes the head away.
LEMMA TailElems ==
  ASSUME NEW S, NEW s \in Seq(S), s # <<>>
  PROVE  /\ Tail(s) \in Seq(S) /\ Head(s) \in Elems(s) /\ Head(s) \in S
         /\ Elems(s) = Elems(Tail(s)) \cup {Head(s)}
<1>1. /\ Len(s) \in Nat /\ Len(s) >= 1 /\ Len(Tail(s)) = Len(s) - 1
      /\ Head(s) = s[1] /\ s[1] \in S /\ Tail(s) \in Seq(S)
      /\ \A i \in 1..(Len(s) - 1) : Tail(s)[i] = s[i + 1]
  OBVIOUS
<1>2. Elems(Tail(s)) \cup {Head(s)} \subseteq Elems(s)
  BY <1>1 DEF Elems
<1>3. ASSUME NEW i \in 1..Len(s)
      PROVE  s[i] \in Elems(Tail(s)) \cup {Head(s)}
  <2>1. CASE i = 1
    BY <1>1, <2>1
  <2>2. CASE i # 1
    <3>1. i - 1 \in 1..Len(Tail(s)) /\ Tail(s)[i - 1] = s[i]
      BY <1>1, <2>2
    <3>2. QED
      BY <3>1 DEF Elems
  <2>3. QED
    BY <2>1, <2>2
<1>4. QED
  BY <1>1, <1>2, <1>3 DEF Elems

\* An element at the end.
LEMMA AppendElems ==
  ASSUME NEW S, NEW s \in Seq(S), NEW e \in S
  PROVE  Append(s, e) \in Seq(S) /\ Elems(Append(s, e)) = Elems(s) \cup {e}
<1>1. /\ Len(s) \in Nat /\ Len(Append(s, e)) = Len(s) + 1 /\ Append(s, e) \in Seq(S)
      /\ Append(s, e)[Len(s) + 1] = e
      /\ \A i \in 1..Len(s) : Append(s, e)[i] = s[i]
  OBVIOUS
<1>2. Elems(s) \cup {e} \subseteq Elems(Append(s, e))
  <2>1. Len(s) + 1 \in 1..Len(Append(s, e))
    BY <1>1
  <2>2. QED
    BY <1>1, <2>1 DEF Elems
<1>3. ASSUME NEW i \in 1..Len(Append(s, e))
      PROVE  Append(s, e)[i] \in Elems(s) \cup {e}
  BY <1>1 DEF Elems
<1>4. QED
  BY <1>1, <1>2, <1>3 DEF Elems

\* The same element twice.
LEMMA TwiceElems ==
  ASSUME NEW S, NEW s \in Seq(S), NEW e \in S
  PROVE  /\ s \o <<e, e>> \in Seq(S)
         /\ Elems(s \o <<e, e>>) = Elems(s) \cup {e}
<1> DEFINE t == s \o <<e, e>>
<1>1. /\ Len(s) \in Nat /\ t \in Seq(S) /\ Len(t) = Len(s) + 2
      /\ t[Len(s) + 1] = e /\ t[Len(s) + 2] = e
      /\ \A i \in 1..Len(s) : t[i] = s[i]
  OBVIOUS
<1> HIDE DEF t
<1>2. Elems(s) \cup {e} \subseteq Elems(t)
  <2>1. Len(s) + 1 \in 1..Len(t) /\ 1..Len(s) \subseteq 1..Len(t)
    BY <1>1
  <2>2. QED
    BY <1>1, <2>1 DEF Elems
<1>3. ASSUME NEW i \in 1..Len(t)
      PROVE  t[i] \in Elems(s) \cup {e}
  <2>1. i \in 1..Len(s) \/ i = Len(s) + 1 \/ i = Len(s) + 2
    BY <1>1
  <2>2. QED
    BY <1>1, <2>1 DEF Elems
<1>4. QED
  BY <1>1, <1>2, <1>3 DEF Elems, t

-----------------------------------------------------------------------------
\* A set of numbers has a least element: of the intervals from 0 to one of them
\* one contains no other.
LEMMA LeastElement ==
  ASSUME NEW T \in SUBSET Nat, T # {}
  PROVE  \E n \in T : \A m \in T : n <= m
<1> DEFINE Intervals == {0..n : n \in T}
<1>1. Intervals \subseteq FiniteSubsetsOf(Nat)
  <2>1. \A n \in T : 0..n \in SUBSET Nat /\ IsFiniteSet(0..n)
    <3>1. \A n \in T : n \in Int /\ 0..n \in SUBSET Nat
      OBVIOUS
    <3>2. QED
      BY <3>1, FS_Interval
  <2>2. QED
    BY <2>1 DEF FiniteSubsetsOf
<1>2. Intervals # {}
  OBVIOUS
<1> HIDE DEF Intervals
<1>3. PICK x \in Intervals :
        \A y \in Intervals : ~ (<<y, x>> \in StrictSubsetOrdering(Nat))
  BY <1>1, <1>2, FS_StrictSubsetOrderingWellFounded, WFMin
<1>4. PICK n \in T : x = 0..n
  BY DEF Intervals
<1>5. ASSUME NEW m \in T, m < n
      PROVE  FALSE
  <2>1. 0..m \in Intervals
    BY DEF Intervals
  <2>2. 0..m \subseteq 0..n /\ 0..m # 0..n /\ 0..m \in SUBSET Nat /\ 0..n \in SUBSET Nat
    BY <1>5
  <2>3. QED
    BY <1>3, <1>4, <2>1, <2>2 DEF StrictSubsetOrdering
<1>6. QED
  BY <1>5

\* A set of numbers that is not empty, but finite, has a greatest element.
LEMMA GreatestElement ==
  ASSUME NEW T \in SUBSET Nat, IsFiniteSet(T), T # {}
  PROVE  \E n \in T : \A m \in T : m <= n
<1> DEFINE Above(n) == {m \in T : m > n}
           Sets == {Above(n) : n \in T}
<1>1. Sets \subseteq FiniteSubsetsOf(T) /\ Sets # {}
  <2>1. \A n \in T : Above(n) \in SUBSET T /\ IsFiniteSet(Above(n))
    BY FS_Subset
  <2>2. QED
    BY <2>1 DEF FiniteSubsetsOf
<1> HIDE DEF Sets
<1>2. PICK x \in Sets : \A y \in Sets : ~ (<<y, x>> \in StrictSubsetOrdering(T))
  BY <1>1, FS_StrictSubsetOrderingWellFounded, WFMin
<1>3. PICK n \in T : x = Above(n)
  BY DEF Sets
<1>4. ASSUME NEW m \in T, m > n
      PROVE  FALSE
  <2>1. Above(m) \in Sets
    BY DEF Sets
  <2>2. Above(m) \subseteq Above(n) /\ m \in Above(n) /\ m \notin Above(m)
    <3>1. m \in Nat /\ n \in Nat /\ \A k \in T : k \in Nat
      OBVIOUS
    <3>2. ~(m > m) /\ \A k \in T : k > m => k > n
      BY <1>4, <3>1
    <3>3. QED
      BY <1>4, <3>2
  <2>3. QED
    BY <1>2, <1>3, <2>1, <2>2 DEF StrictSubsetOrdering
<1>5. QED
  BY <1>4

\* Induction, over the numbers that are in a set.
LEMMA Induction ==
  ASSUME NEW S, 0 \in S, \A n \in Nat : n \in S => n + 1 \in S
  PROVE  Nat \subseteq S
<1>1. SUFFICES ASSUME Nat \ S # {} PROVE FALSE
  OBVIOUS
<1>2. PICK n \in Nat \ S : \A m \in Nat \ S : n <= m
  BY <1>1, LeastElement
<1>3. n - 1 \in Nat /\ (n - 1) + 1 = n /\ ~(n <= n - 1)
  BY <1>2
<1>4. QED
  BY <1>2, <1>3

\* The recursive function behind FlattenSeq.
Flattens(f, s) ==
  f = [i \in 1..Len(s) |-> IF i = 1 THEN s[i] ELSE f[i - 1] \o s[i]]

LEMMA FlattenExists ==
  ASSUME NEW X, NEW s \in Seq(Seq(X))
  PROVE  \E f \in [1..Len(s) -> Seq(X)] : Flattens(f, s)
<1> DEFINE P(n) == \E f \in [1..n -> Seq(X)] :
                     \A i \in 1..n : f[i] = IF i = 1 THEN s[i] ELSE f[i - 1] \o s[i]
           S == {n \in Nat : n <= Len(s) => P(n)}
<1>a. Len(s) \in Nat /\ \A i \in 1..Len(s) : s[i] \in Seq(X)
  OBVIOUS
<1>1. 0 \in S
  <2>1. P(0)
    <3>1. [i \in 1..0 |-> <<>>] \in [1..0 -> Seq(X)] /\ 1..0 = {}
      OBVIOUS
    <3>2. QED
      BY <3>1
  <2>2. QED
    BY <2>1
<1>2. ASSUME NEW n \in Nat, n \in S, n + 1 <= Len(s)
      PROVE  P(n + 1)
  <2>1. PICK f \in [1..n -> Seq(X)] :
          \A i \in 1..n : f[i] = IF i = 1 THEN s[i] ELSE f[i - 1] \o s[i]
    <3>1. n <= Len(s)
      BY <1>a, <1>2
    <3>2. QED
      BY <1>2, <3>1
  <2> DEFINE last == IF n = 0 THEN s[1] ELSE f[n] \o s[n + 1]
             g == [i \in 1..(n + 1) |-> IF i = n + 1 THEN last ELSE f[i]]
  <2>2. last \in Seq(X)
    <3>1. n + 1 \in 1..Len(s) /\ s[n + 1] \in Seq(X)
      BY <1>a, <1>2
    <3>2. n # 0 => f[n] \in Seq(X)
      OBVIOUS
    <3>3. QED
      BY <3>1, <3>2
  <2>3. g \in [1..(n + 1) -> Seq(X)]
    BY <2>2
  <2>4. \A i \in 1..(n + 1) : g[i] = IF i = 1 THEN s[i] ELSE g[i - 1] \o s[i]
    <3>1. ASSUME NEW i \in 1..(n + 1)
          PROVE  g[i] = IF i = 1 THEN s[i] ELSE g[i - 1] \o s[i]
      <4>1. CASE i = n + 1
        <5>1. i # 1 => i - 1 \in 1..(n + 1) /\ i - 1 # n + 1 /\ i - 1 = n
          BY <4>1
        <5>2. QED
          BY <4>1, <5>1
      <4>2. CASE i # n + 1
        <5>1. i \in 1..n /\ (i # 1 => i - 1 \in 1..(n + 1) /\ i - 1 # n + 1)
          BY <4>2
        <5>2. QED
          BY <2>1, <4>2, <5>1
      <4>3. QED
        BY <4>1, <4>2
    <3>2. QED
      BY <3>1
  <2>5. QED
    BY <2>3, <2>4
<1> HIDE DEF P
<1>3. \A n \in Nat : n \in S => n + 1 \in S
  BY <1>2, <1>a
<1>4. Nat \subseteq S
  <2> HIDE DEF S
  <2>1. QED
    BY <1>1, <1>3, Induction
<1>5. P(Len(s))
  BY <1>4, <1>a
<1>6. QED
  BY <1>5 DEF P, Flattens

\* Where two sequences agree, so do their functions.
LEMMA FlattenAgrees ==
  ASSUME NEW s, NEW t, NEW f, NEW g, Flattens(f, s), Flattens(g, t),
         Len(s) \in Nat, Len(t) \in Nat, Len(s) <= Len(t),
         \A i \in 1..Len(s) : s[i] = t[i]
  PROVE  \A i \in 1..Len(s) : f[i] = g[i]
<1> DEFINE S == {n \in Nat : n \in 1..Len(s) => f[n] = g[n]}
<1>1. \A i \in 1..Len(s) : f[i] = IF i = 1 THEN s[i] ELSE f[i - 1] \o s[i]
  BY DEF Flattens
<1>2. \A i \in 1..Len(s) : g[i] = IF i = 1 THEN s[i] ELSE g[i - 1] \o s[i]
  <2>1. \A i \in 1..Len(t) : g[i] = IF i = 1 THEN t[i] ELSE g[i - 1] \o t[i]
    BY DEF Flattens
  <2>2. QED
    BY <2>1
<1>3. 0 \in S
  OBVIOUS
<1>4. ASSUME NEW n \in Nat, n \in S, n + 1 \in 1..Len(s)
      PROVE  f[n + 1] = g[n + 1]
  <2>1. CASE n = 0
    BY <1>1, <1>2, <1>4, <2>1
  <2>2. CASE n # 0
    <3>1. n \in 1..Len(s) /\ (n + 1) - 1 = n /\ n + 1 # 1
      BY <1>4, <2>2
    <3>2. f[n] = g[n]
      BY <1>4, <3>1
    <3>3. QED
      BY <1>1, <1>2, <1>4, <3>1, <3>2
  <2>3. QED
    BY <2>1, <2>2
<1>5. \A n \in Nat : n \in S => n + 1 \in S
  BY <1>4
<1>6. Nat \subseteq S
  <2> HIDE DEF S
  <2>1. QED
    BY <1>3, <1>5, Induction
<1>7. QED
  BY <1>6

\* FlattenSeq is the last value of its function.
LEMMA FlattenIs ==
  ASSUME NEW X, NEW s \in Seq(Seq(X)), s # <<>>
  PROVE  \E f : /\ Flattens(f, s) /\ FlattenSeq(s) = f[Len(s)]
                /\ \A i \in 1..Len(s) : f[i] \in Seq(X)
<1>1. Len(s) \in Nat /\ Len(s) # 0 /\ Len(s) \in 1..Len(s)
  OBVIOUS
<1>2. PICK f \in [1..Len(s) -> Seq(X)] : Flattens(f, s)
  BY FlattenExists
<1> DEFINE g == CHOOSE h : Flattens(h, s)
<1>3. Flattens(g, s)
  BY <1>2
<1>4. FlattenSeq(s) = g[Len(s)]
  BY <1>1 DEF FlattenSeq, Flattens
<1> HIDE DEF g
<1>5. g[Len(s)] = f[Len(s)]
  BY <1>1, <1>2, <1>3, FlattenAgrees
<1>6. QED
  BY <1>2, <1>4, <1>5

\* A sequence and one element more.
LEMMA AppendIs ==
  ASSUME NEW S, NEW s \in Seq(S), NEW e \in S
  PROVE  /\ Len(s) \in Nat /\ Append(s, e) \in Seq(S) /\ Append(s, e) # <<>>
         /\ Len(Append(s, e)) = Len(s) + 1 /\ Append(s, e)[Len(s) + 1] = e
         /\ \A i \in 1..Len(s) : s[i] = Append(s, e)[i]
OBVIOUS

\* What is flattened is a sequence, and a sequence more is one to its end.
LEMMA FlattenAppend ==
  ASSUME NEW X, NEW s \in Seq(Seq(X)), NEW e \in Seq(X)
  PROVE  /\ FlattenSeq(s) \in Seq(X)
         /\ FlattenSeq(Append(s, e)) = FlattenSeq(s) \o e
<1>0. PICK t : t = Append(s, e)
  OBVIOUS
<1>1. /\ Len(s) \in Nat /\ t \in Seq(Seq(X)) /\ t # <<>> /\ Len(t) = Len(s) + 1
      /\ t[Len(s) + 1] = e /\ \A i \in 1..Len(s) : s[i] = t[i]
  BY <1>0, AppendIs
<1>2. PICK g : Flattens(g, t) /\ FlattenSeq(t) = g[Len(t)]
  BY <1>1, FlattenIs
<1>3. g[Len(t)] = IF Len(s) = 0 THEN e ELSE g[Len(s)] \o e
  <2>1. Len(t) \in 1..Len(t) /\ Len(t) - 1 = Len(s) /\ (Len(t) = 1 <=> Len(s) = 0)
    BY <1>1
  <2>2. g[Len(t)] = IF Len(t) = 1 THEN t[Len(t)] ELSE g[Len(t) - 1] \o t[Len(t)]
    BY <1>2, <2>1 DEF Flattens
  <2>3. QED
    BY <1>1, <2>1, <2>2
<1>4. CASE s = <<>>
  <2>1. FlattenSeq(s) = <<>> /\ <<>> \in Seq(X) /\ <<>> \o e = e
    BY <1>4 DEF FlattenSeq
  <2>2. FlattenSeq(t) = e
    BY <1>2, <1>3, <1>4
  <2>3. QED
    BY <1>0, <2>1, <2>2
<1>5. CASE s # <<>>
  <2>1. PICK f : /\ Flattens(f, s) /\ FlattenSeq(s) = f[Len(s)]
                 /\ \A i \in 1..Len(s) : f[i] \in Seq(X)
    BY <1>5, FlattenIs
  <2>2. Len(s) \in 1..Len(s) /\ Len(s) # 0 /\ Len(s) <= Len(t) /\ Len(t) \in Nat
    <3>1. Len(s) # 0
      BY <1>5
    <3>2. QED
      BY <1>1, <3>1
  <2>3. f[Len(s)] = g[Len(s)]
    <3>1. Flattens(f, s) /\ Flattens(g, t) /\ \A i \in 1..Len(s) : s[i] = t[i]
      BY <1>1, <1>2, <2>1
    <3>2. Len(s) \in Nat /\ Len(t) \in Nat /\ Len(s) <= Len(t)
      BY <1>1, <2>2
    <3>3. \A i \in 1..Len(s) : f[i] = g[i]
      BY <3>1, <3>2, FlattenAgrees
    <3>4. QED
      BY <2>2, <3>3
  <2>4. QED
    BY <1>2, <1>3, <2>1, <2>2, <1>0, <2>3
<1>6. QED
  BY <1>4, <1>5

\* Where the elements of two sequences are in their concatenation.
LEMMA ConcatIs ==
  ASSUME NEW X, NEW a \in Seq(X), NEW b \in Seq(X)
  PROVE  /\ a \o b \in Seq(X) /\ Len(a) \in Nat /\ Len(b) \in Nat
         /\ Len(a \o b) = Len(a) + Len(b)
         /\ \A n \in 1..Len(a) : n \in 1..Len(a \o b) /\ (a \o b)[n] = a[n]
         /\ \A k \in 1..Len(b) : Len(a) + k \in 1..Len(a \o b) /\ (a \o b)[Len(a) + k] = b[k]
OBVIOUS

\* Every element of a part is in what is flattened.
LEMMA FlattenPart ==
  ASSUME NEW X, NEW s \in Seq(Seq(X)), NEW i \in 1..Len(s), NEW k \in 1..Len(s[i])
  PROVE  \E n \in 1..Len(FlattenSeq(s)) : FlattenSeq(s)[n] = s[i][k]
<1>1. Len(s) \in Nat /\ i \in Nat /\ s # <<>> /\ \A m \in 1..Len(s) : s[m] \in Seq(X)
  OBVIOUS
<1>2. PICK f : /\ Flattens(f, s) /\ FlattenSeq(s) = f[Len(s)]
               /\ \A m \in 1..Len(s) : f[m] \in Seq(X)
  BY <1>1, FlattenIs
<1>3. \A m \in 1..Len(s) : f[m] = IF m = 1 THEN s[m] ELSE f[m - 1] \o s[m]
  BY <1>2 DEF Flattens
<1> DEFINE In(m) == \E n \in 1..Len(f[m]) : f[m][n] = s[i][k]
           S == {m \in Nat : m \in i..Len(s) => In(m)}
<1>4. In(i)
  <2>1. CASE i = 1
    BY <1>3, <2>1
  <2>2. CASE i # 1
    <3>1. i - 1 \in 1..Len(s)
      BY <1>1, <2>2
    <3>2. f[i] = f[i - 1] \o s[i]
      BY <1>3, <2>2, <3>1
    <3>3. PICK a \in Seq(X), b \in Seq(X) : a = f[i - 1] /\ b = s[i]
      BY <1>1, <1>2, <3>1
    <3>4. f[i] = a \o b /\ k \in 1..Len(b)
      BY <3>2, <3>3
    <3>5. Len(a) + k \in 1..Len(f[i]) /\ f[i][Len(a) + k] = b[k]
      BY <3>4, ConcatIs
    <3>6. QED
      BY <3>3, <3>5
  <2>3. QED
    BY <2>1, <2>2
<1>5. ASSUME NEW m \in Nat, m \in S, m + 1 \in i..Len(s)
      PROVE  In(m + 1)
  <2>1. CASE m + 1 = i
    BY <1>4, <2>1
  <2>2. CASE m + 1 # i
    <3>1. m \in i..Len(s) /\ m \in 1..Len(s) /\ m + 1 \in 1..Len(s) /\ m + 1 # 1 /\ (m + 1) - 1 = m
      BY <1>1, <1>5, <2>2
    <3>2. PICK n \in 1..Len(f[m]) : f[m][n] = s[i][k]
      BY <1>5, <3>1
    <3>3. f[m + 1] = f[m] \o s[m + 1] /\ f[m] \in Seq(X) /\ s[m + 1] \in Seq(X)
      BY <1>1, <1>2, <1>3, <3>1
    <3>4. n \in 1..Len(f[m + 1]) /\ f[m + 1][n] = f[m][n]
      <4>1. PICK a \in Seq(X), b \in Seq(X) : a = f[m] /\ b = s[m + 1]
        BY <3>3
      <4>2. f[m + 1] = a \o b /\ n \in 1..Len(a)
        BY <3>3, <4>1
      <4>3. n \in 1..Len(f[m + 1]) /\ f[m + 1][n] = a[n]
        BY <4>2, ConcatIs
      <4>4. QED
        BY <4>1, <4>3
    <3>5. QED
      BY <3>2, <3>4
  <2>3. QED
    BY <2>1, <2>2
<1> HIDE DEF In
<1>6. 0 \in S
  BY <1>1
<1>7. \A m \in Nat : m \in S => m + 1 \in S
  <2>1. SUFFICES ASSUME NEW m \in Nat, m \in S, m + 1 \in i..Len(s)
                 PROVE  In(m + 1)
    OBVIOUS
  <2>2. QED
    BY <1>5, <2>1, Zenon
<1>8. Nat \subseteq S
  <2> HIDE DEF S
  <2>1. QED
    BY <1>6, <1>7, Induction
<1>9. Len(s) \in Nat /\ Len(s) \in i..Len(s)
  BY <1>1
<1>10. In(Len(s))
  BY <1>8, <1>9
<1>11. QED
  BY <1>2, <1>10 DEF In

\* The elements of two sequences are those of their concatenation.
LEMMA ConcatElems ==
  ASSUME NEW X, NEW a \in Seq(X), NEW b \in Seq(X)
  PROVE  /\ a \o b \in Seq(X) /\ Elems(a \o b) \subseteq Elems(a) \cup Elems(b)
         /\ Elems(a) \cup Elems(b) \subseteq Elems(a \o b)
<1>1. /\ Len(a) \in Nat /\ Len(b) \in Nat /\ a \o b \in Seq(X) /\ Len(a \o b) = Len(a) + Len(b)
      /\ \A i \in 1..Len(a) : i \in 1..Len(a \o b) /\ (a \o b)[i] = a[i]
      /\ \A i \in 1..Len(b) : Len(a) + i \in 1..Len(a \o b) /\ (a \o b)[Len(a) + i] = b[i]
  BY ConcatIs
<1>2. ASSUME NEW i \in 1..Len(a \o b)
      PROVE  (a \o b)[i] \in Elems(a) \cup Elems(b)
  <2>1. CASE i \in 1..Len(a)
    BY <1>1, <2>1 DEF Elems
  <2>2. CASE i \notin 1..Len(a)
    <3>1. i - Len(a) \in 1..Len(b) /\ Len(a) + (i - Len(a)) = i
      BY <1>1, <2>2
    <3>2. (a \o b)[i] = b[i - Len(a)]
      BY <1>1, <3>1
    <3>3. QED
      BY <3>1, <3>2 DEF Elems
  <2>3. QED
    BY <2>1, <2>2
<1>3. Elems(a) \subseteq Elems(a \o b)
  BY <1>1 DEF Elems
<1>4. Elems(b) \subseteq Elems(a \o b)
  BY <1>1 DEF Elems
<1>5. QED
  BY <1>1, <1>2, <1>3, <1>4 DEF Elems

\* An element of a part is an element of what is flattened.
LEMMA FlattenElems ==
  ASSUME NEW X, NEW s \in Seq(Seq(X)), NEW i \in 1..Len(s), NEW x \in Elems(s[i])
  PROVE  x \in Elems(FlattenSeq(s))
<1>1. PICK k \in 1..Len(s[i]) : x = s[i][k]
  BY DEF Elems
<1>2. PICK n \in 1..Len(FlattenSeq(s)) : FlattenSeq(s)[n] = s[i][k]
  BY FlattenPart
<1>3. QED
  BY <1>1, <1>2 DEF Elems

LEMMA InductionTo ==
  ASSUME NEW N \in Nat, NEW S, 0 \in S, \A m \in Nat : m + 1 <= N /\ m \in S => m + 1 \in S
  PROVE  \A m \in 0..N : m \in S
<1> DEFINE T == {m \in Nat : m <= N => m \in S}
<1>1. 0 \in T
  OBVIOUS
<1>2. \A m \in Nat : m \in T => m + 1 \in T
  OBVIOUS
<1>3. Nat \subseteq T
  <2> HIDE DEF T
  <2>1. QED
    BY <1>1, <1>2, Induction
<1>4. QED
  BY <1>3

LEMMA SameSequence ==
  ASSUME NEW X, NEW s \in Seq(X), NEW t \in Seq(X), Len(s) = Len(t),
         \A k \in 1..Len(s) : s[k] = t[k]
  PROVE  s = t
OBVIOUS
=============================================================================
