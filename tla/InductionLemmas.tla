-------------------------- MODULE InductionLemmas --------------------------
(***************************************************************************)
(* Induction over the naturals, stated with sets so that it can be cited,  *)
(* and what the proofs about the lists and the buffers draw from it.       *)
(***************************************************************************)
EXTENDS Integers, SequencesExt, SequenceTheorems, WellFoundedInduction, FiniteSetTheorems, TLAPS

LEMMA LeastNatural ==
  ASSUME NEW S \in SUBSET Nat, S # {}
  PROVE  \E n \in S : \A m \in S : n <= m
  <1>1. IsWellFoundedOn(OpToRel(<, Nat), Nat)
    BY NatLessThanWellFounded
  <1>2. PICK n \in S : \A m \in S : ~(<<m, n>> \in OpToRel(<, Nat))
    BY <1>1, WFMin
  <1>3. \A m \in S : ~(m < n)
    BY <1>2 DEF OpToRel
  <1>4. QED
    BY <1>3

LEMMA SetInduction ==
  ASSUME NEW S, 0 \in S, \A n \in Nat : n \in S => n + 1 \in S
  PROVE  Nat \subseteq S
  <1>1. SUFFICES ASSUME Nat \ S # {} PROVE FALSE
    OBVIOUS
  <1>2. PICK n \in Nat \ S : \A m \in Nat \ S : n <= m
    BY <1>1, LeastNatural
  <1>3. n # 0 /\ n - 1 \in Nat /\ n - 1 \in S
    BY <1>2
  <1>4. QED
    BY <1>2, <1>3

-----------------------------------------------------------------------------
(* Flattened sequences: FlattenSeq is a recursive function on 1 .. Len(s). *)

\* What the recursion of FlattenSeq computes, written as a property of f.
Flattens(f, s, n) ==
  f[1] = s[1] /\ \A i \in 2 .. n : f[i] = f[i - 1] \o s[i]

\* The recursion has a solution, with values in any set closed under \o.
LEMMA JoinIsDefined ==
  ASSUME NEW U, \A a, b \in U : a \o b \in U,
         NEW s, NEW N \in Nat \ {0}, \A i \in 1 .. N : s[i] \in U
  PROVE  \E f \in [1 .. N -> U] : Flattens(f, s, N)
  <1> DEFINE Defined == {n \in Nat : n < N => \E f \in [1 .. n + 1 -> U] : Flattens(f, s, n + 1)}
  <1>1. 0 \in Defined
    <2> DEFINE f == [i \in 1 .. 1 |-> s[i]]
    <2>1. f \in [1 .. 1 -> U] /\ f[1] = s[1]
      OBVIOUS
    <2> HIDE DEF f
    <2>2. Flattens(f, s, 1)
      BY <2>1 DEF Flattens
    <2>3. 0 + 1 = 1
      OBVIOUS
    <2>4. QED
      BY <2>1, <2>2, <2>3
  <1>2. \A n \in Nat : n \in Defined => n + 1 \in Defined
    <2>1. SUFFICES ASSUME NEW n \in Nat, n + 1 < N, n \in Defined
                   PROVE  \E g \in [1 .. n + 2 -> U] : Flattens(g, s, n + 2)
      <3>1. \A n \in Nat : n + 1 + 1 = n + 2
        OBVIOUS
      <3>2. QED
        BY <3>1
    <2>2. PICK f \in [1 .. n + 1 -> U] : Flattens(f, s, n + 1)
      BY <2>1
    <2>3. n + 2 \in 1 .. N /\ n + 1 \in 1 .. n + 1
      BY <2>1
    <2>4. f[n + 1] \o s[n + 2] \in U
      BY <2>3
    <2>5. PICK last \in U : last = f[n + 1] \o s[n + 2]
      BY <2>4
    <2> DEFINE g == [i \in 1 .. n + 2 |-> IF i <= n + 1 THEN f[i] ELSE last]
    <2>6. g \in [1 .. n + 2 -> U]
      OBVIOUS
    <2>7. \A i \in 1 .. n + 1 : g[i] = f[i]
      OBVIOUS
    <2>8. g[n + 2] = last
      <3>1. n + 2 \in 1 .. n + 2 /\ ~(n + 2 <= n + 1)
        OBVIOUS
      <3>2. QED
        BY <3>1
    <2> HIDE DEF g
    <2>9. ASSUME NEW i \in 2 .. n + 2
          PROVE  g[i] = g[i - 1] \o s[i]
      <3>1. CASE i = n + 2
        <4>1. i - 1 = n + 1 /\ n + 1 \in 1 .. n + 1
          BY <3>1
        <4>2. g[i - 1] = f[n + 1]
          BY <2>7, <4>1
        <4>3. QED
          BY <2>5, <2>8, <3>1, <4>1, <4>2
      <3>2. CASE i # n + 2
        <4>1. i \in 2 .. n + 1 /\ i \in 1 .. n + 1 /\ i - 1 \in 1 .. n + 1
          BY <3>2
        <4>2. f[i] = f[i - 1] \o s[i]
          BY <2>2, <4>1 DEF Flattens
        <4>3. QED
          BY <2>7, <4>1, <4>2
      <3>3. QED
        BY <3>1, <3>2
    <2>10. g[1] = s[1]
      BY <2>2, <2>7 DEF Flattens
    <2>11. QED
      BY <2>6, <2>9, <2>10 DEF Flattens
  <1> HIDE DEF Defined
  <1>3. N - 1 \in Defined
    BY <1>1, <1>2, SetInduction
  <1>4. N - 1 + 1 = N /\ N - 1 < N
    OBVIOUS
  <1>5. QED
    BY <1>3, <1>4 DEF Defined

\* Two sequences that begin alike are joined alike as far as that.
LEMMA JoinIsUnique ==
  ASSUME NEW f, NEW g, NEW s, NEW t, NEW N \in Nat \ {0},
         \A i \in 1 .. N : s[i] = t[i], Flattens(f, s, N), Flattens(g, t, N)
  PROVE  f[N] = g[N]
  <1> DEFINE Same == {n \in Nat : n < N => f[n + 1] = g[n + 1]}
  <1>1. 0 \in Same
    <2>1. 0 + 1 = 1 /\ 1 \in 1 .. N
      OBVIOUS
    <2>2. f[1] = s[1] /\ g[1] = t[1]
      BY <2>1 DEF Flattens
    <2>3. QED
      BY <2>1, <2>2
  <1>2. \A n \in Nat : n \in Same => n + 1 \in Same
    <2>1. SUFFICES ASSUME NEW n \in Nat, n + 1 < N, f[n + 1] = g[n + 1]
                   PROVE  f[n + 2] = g[n + 2]
      <3>1. \A n \in Nat : n + 1 + 1 = n + 2 /\ (n + 1 < N => n < N)
        OBVIOUS
      <3>2. QED
        BY <3>1
    <2>2. n + 2 \in 2 .. N /\ n + 2 \in 1 .. N /\ n + 2 - 1 = n + 1
      BY <2>1
    <2>3. PICK i \in 2 .. N : i = n + 2 /\ i - 1 = n + 1
      BY <2>2
    <2>4. f[i] = f[i - 1] \o s[i] /\ g[i] = g[i - 1] \o t[i]
      BY Zenon DEF Flattens
    <2>5. s[n + 2] = t[n + 2]
      BY <2>2
    <2>6. QED
      BY <2>1, <2>3, <2>4, <2>5, Zenon
  <1> HIDE DEF Same
  <1>3. Nat \subseteq Same
    BY <1>1, <1>2, SetInduction
  <1>4. N - 1 \in Nat /\ N - 1 < N /\ N - 1 + 1 = N
    OBVIOUS
  <1>5. QED
    BY <1>3, <1>4 DEF Same

LEMMA FlattenIsDefined ==
  ASSUME NEW T, NEW s \in Seq(Seq(T)), s # <<>>
  PROVE  \E f : /\ Flattens(f, s, Len(s))
                /\ FlattenSeq(s) = f[Len(s)] /\ FlattenSeq(s) \in Seq(T)
  <1>1. PICK N \in Nat \ {0} : N = Len(s)
    BY EmptySeq
  <1>2. \A i \in 1 .. N : s[i] \in Seq(T)
    BY <1>1, ElementOfSeq
  <1>3. \A a, b \in Seq(T) : a \o b \in Seq(T)
    BY ConcatProperties
  <1>4. \E f \in [1 .. N -> Seq(T)] : Flattens(f, s, N)
    BY <1>2, <1>3, JoinIsDefined
  <1> DEFINE Def(f) == f = [i \in 1 .. N |-> IF i = 1 THEN s[i] ELSE f[i - 1] \o s[i]]
             flatten == CHOOSE f : Def(f)
  <1>5. \E f : Def(f)
    <2>1. PICK f \in [1 .. N -> Seq(T)] : Flattens(f, s, N)
      BY <1>4
    <2>2. f = [i \in 1 .. N |-> f[i]]
      OBVIOUS
    <2>3. ASSUME NEW i \in 1 .. N
          PROVE  f[i] = IF i = 1 THEN s[i] ELSE f[i - 1] \o s[i]
      <3>1. i # 1 => i \in 2 .. N
        OBVIOUS
      <3>2. QED
        BY <2>1, <3>1, Zenon DEF Flattens
    <2>4. Def(f)
      BY <2>2, <2>3, Zenon
    <2>5. QED
      BY <2>4
  <1>6. Def(flatten)
    BY <1>5, Zenon
  <1>7. FlattenSeq(s) = flatten[N]
    BY <1>1 DEF FlattenSeq
  <1> HIDE DEF flatten
  <1>8. \A i \in 1 .. N : flatten[i] = IF i = 1 THEN s[i] ELSE flatten[i - 1] \o s[i]
    BY <1>6, Zenon
  <1>9. Flattens(flatten, s, N)
    <2>1. 1 \in 1 .. N /\ \A i \in 2 .. N : i \in 1 .. N /\ i # 1
      OBVIOUS
    <2>2. QED
      BY <1>8, <2>1, Zenon DEF Flattens
  <1>10. PICK r : Flattens(r, s, N) /\ r[N] \in Seq(T)
    <2>1. N \in 1 .. N
      OBVIOUS
    <2>2. QED
      BY <1>4, <2>1
  <1>11. r[N] = flatten[N]
    <2>1. \A i \in 1 .. N : s[i] = s[i]
      OBVIOUS
    <2>2. QED
      BY <1>9, <1>10, <2>1, JoinIsUnique, Zenon
  <1>12. QED
    BY <1>1, <1>7, <1>9, <1>10, <1>11

LEMMA FlattenEmpty == FlattenSeq(<<>>) = <<>>
  BY DEF FlattenSeq

\* One sequence more is one more piece at the end.
LEMMA FlattenAppend ==
  ASSUME NEW T, NEW s \in Seq(Seq(T)), NEW x \in Seq(T)
  PROVE  /\ FlattenSeq(s) \in Seq(T)
         /\ FlattenSeq(Append(s, x)) = FlattenSeq(s) \o x
  <1>1. PICK longer \in Seq(Seq(T)) : longer = Append(s, x)
    BY AppendProperties
  <1>2. /\ longer # <<>> /\ Len(longer) = Len(s) + 1
        /\ \A i \in 1 .. Len(s) : longer[i] = s[i]
        /\ longer[Len(s) + 1] = x
    BY <1>1, AppendProperties
  <1>3. PICK N \in Nat : N = Len(s)
    BY EmptySeq
  <1>4. PICK g : Flattens(g, longer, N + 1) /\ FlattenSeq(longer) = g[N + 1]
    BY <1>2, <1>3, FlattenIsDefined
  <1>5. CASE s = <<>>
    <2>1. N = 0 /\ FlattenSeq(s) = <<>>
      BY <1>3, <1>5, FlattenEmpty
    <2>2. g[1] = longer[1] /\ longer[1] = x
      BY <1>2, <1>3, <1>4, <2>1 DEF Flattens
    <2>3. <<>> \o x = x /\ <<>> \in Seq(T)
      BY ConcatEmptySeq, EmptySeq
    <2>4. QED
      BY <1>1, <1>4, <2>1, <2>2, <2>3
  <1>6. CASE s # <<>>
    <2>1. N \in Nat \ {0}
      BY <1>3, <1>6, EmptySeq
    <2>2. PICK f : /\ Flattens(f, s, N)
                   /\ FlattenSeq(s) = f[N] /\ FlattenSeq(s) \in Seq(T)
      BY <1>3, <1>6, FlattenIsDefined
    <2>3. Flattens(g, longer, N)
      <3>1. \A i \in 2 .. N : i \in 2 .. N + 1
        BY <2>1
      <3>2. QED
        BY <1>4, <3>1, Zenon DEF Flattens
    <2>4. \A i \in 1 .. N : s[i] = longer[i]
      BY <1>2, <1>3
    <2>5. f[N] = g[N]
      BY <2>1, <2>2, <2>3, <2>4, JoinIsUnique, Zenon
    <2>6. N + 1 \in 2 .. N + 1 /\ N + 1 - 1 = N /\ N \in 1 .. N
      BY <2>1
    <2>7. g[N + 1] = g[N] \o longer[N + 1]
      <3>1. PICK i \in 2 .. N + 1 : i = N + 1 /\ i - 1 = N
        BY <2>6
      <3>2. g[i] = g[i - 1] \o longer[i]
        BY <1>4, Zenon DEF Flattens
      <3>3. QED
        BY <3>1, <3>2, Zenon
    <2>8. QED
      BY <1>1, <1>2, <1>3, <1>4, <2>2, <2>5, <2>7, Zenon
  <1>7. QED
    BY <1>5, <1>6

LEMMA AppendAfterConcat ==
  ASSUME NEW S, NEW s \in Seq(S), NEW t \in Seq(S), NEW x \in S
  PROVE  s \o Append(t, x) = Append(s \o t, x)
  <1>1. <<x>> \in Seq(S) /\ s \o t \in Seq(S)
    BY ConcatProperties
  <1>2. Append(t, x) = t \o <<x>> /\ Append(s \o t, x) = (s \o t) \o <<x>>
    BY <1>1, AppendIsConcat
  <1>3. QED
    BY <1>1, <1>2, ConcatAssociative

\* Flattening the parts flattens the whole.
LEMMA FlattenConcat ==
  ASSUME NEW T
  PROVE  \A s, t \in Seq(Seq(T)) : FlattenSeq(s \o t) = FlattenSeq(s) \o FlattenSeq(t)
  <1>1. \A a, b, c \in Seq(T) : (a \o b) \o c = a \o (b \o c)
    BY ConcatAssociative
  <1>2. TAKE s, t \in Seq(Seq(T))
  <1> DEFINE Joined(u) == FlattenSeq(s \o u) = FlattenSeq(s) \o FlattenSeq(u)
             Good == {n \in Nat : \A u \in Seq(Seq(T)) : Len(u) = n => Joined(u)}
  <1>3. FlattenSeq(s) \in Seq(T)
    BY FlattenAppend, EmptySeq
  <1>4. 0 \in Good
    <2>1. SUFFICES ASSUME NEW u \in Seq(Seq(T)), Len(u) = 0 PROVE Joined(u)
      OBVIOUS
    <2>2. u = <<>>
      BY <2>1, EmptySeq
    <2>3. s \o u = s /\ FlattenSeq(s) \o <<>> = FlattenSeq(s)
      BY <1>3, <2>2, ConcatEmptySeq
    <2>4. QED
      BY <2>2, <2>3, FlattenEmpty
  <1>5. \A n \in Nat : n \in Good => n + 1 \in Good
    <2> HIDE DEF Joined
    <2>1. SUFFICES ASSUME NEW n \in Nat, n \in Good,
                          NEW u \in Seq(Seq(T)), Len(u) = n + 1
                   PROVE  Joined(u)
      <3>1. \A n \in Nat : n + 1 \in Nat
        OBVIOUS
      <3>2. QED
        BY <3>1, Zenon
    <2>2. u # <<>>
      BY <2>1
    <2>3. PICK v \in Seq(Seq(T)), x \in Seq(T) : u = Append(v, x)
      BY <2>2, SequenceEmptyOrAppend
    <2>4. Len(v) = n
      BY <2>1, <2>3, AppendProperties
    <2>5. Joined(v)
      BY <2>1, <2>4
    <2>6. s \o u = Append(s \o v, x) /\ s \o v \in Seq(Seq(T))
      BY <2>3, AppendAfterConcat, ConcatProperties
    <2>7. FlattenSeq(s \o u) = FlattenSeq(s \o v) \o x
      BY <2>6, FlattenAppend
    <2>8. FlattenSeq(u) = FlattenSeq(v) \o x /\ FlattenSeq(v) \in Seq(T)
      BY <2>3, FlattenAppend
    <2>9. (FlattenSeq(s) \o FlattenSeq(v)) \o x = FlattenSeq(s) \o (FlattenSeq(v) \o x)
      BY <1>1, <1>3, <2>3, <2>8, Zenon
    <2>10. QED
      BY <2>5, <2>7, <2>8, <2>9 DEF Joined
  <1> HIDE DEF Good
  <1>6. Len(t) \in Nat /\ Len(t) \in Good
    BY <1>4, <1>5, SetInduction, LenProperties
  <1>7. QED
    BY <1>6 DEF Good

LEMMA FunctionsAreSequences ==
  ASSUME NEW S, NEW N \in Nat, NEW f \in [1 .. N -> S]
  PROVE  f \in Seq(S) /\ Len(f) = N
  OBVIOUS

\* What m makes of each element of s, in a row.
Each(m, s) == [n \in DOMAIN s |-> m[s[n]]]
Spelled(m, s) == FlattenSeq(Each(m, s))
Spells(m, S, T) == \A x \in S : m[x] \in Seq(T)

LEMMA EachTyped ==
  ASSUME NEW S, NEW T, NEW m, Spells(m, S, T), NEW s \in Seq(S)
  PROVE  Each(m, s) \in Seq(Seq(T))
  <1>1. PICK N \in Nat : N = Len(s) /\ DOMAIN s = 1 .. N
    BY LenProperties
  <1>2. \A n \in 1 .. N : m[s[n]] \in Seq(T)
    BY <1>1, ElementOfSeq DEF Spells
  <1>3. Each(m, s) \in [1 .. N -> Seq(T)]
    BY <1>1, <1>2 DEF Each
  <1>4. QED
    BY <1>3, FunctionsAreSequences

LEMMA EachElement ==
  ASSUME NEW S, NEW m, NEW s \in Seq(S)
  PROVE  Len(Each(m, s)) = Len(s) /\ \A n \in 1 .. Len(s) : Each(m, s)[n] = m[s[n]]
  <1>1. PICK N \in Nat : N = Len(s) /\ DOMAIN s = 1 .. N
    BY LenProperties
  <1>2. Each(m, s) = [n \in 1 .. N |-> m[s[n]]]
    BY <1>1 DEF Each
  <1>3. Len([n \in 1 .. N |-> m[s[n]]]) = N
    OBVIOUS
  <1>4. \A n \in 1 .. N : [i \in 1 .. N |-> m[s[i]]][n] = m[s[n]]
    OBVIOUS
  <1>5. QED
    BY <1>1, <1>2, <1>3, <1>4

LEMMA SpelledTyped ==
  ASSUME NEW S, NEW T, NEW m, Spells(m, S, T), NEW s \in Seq(S)
  PROVE  Spelled(m, s) \in Seq(T)
  <1>1. Each(m, s) \in Seq(Seq(T))
    BY EachTyped
  <1>2. QED
    BY <1>1, FlattenAppend, EmptySeq DEF Spelled

LEMMA SpelledConcat ==
  ASSUME NEW S, NEW T, NEW m, Spells(m, S, T), NEW s \in Seq(S), NEW t \in Seq(S)
  PROVE  Spelled(m, s \o t) = Spelled(m, s) \o Spelled(m, t)
  <1>1. ASSUME NEW u \in Seq(S)
        PROVE  /\ Each(m, u) \in Seq(Seq(T)) /\ Len(Each(m, u)) = Len(u)
               /\ \A n \in 1 .. Len(u) : Each(m, u)[n] = m[u[n]]
    <2>1. Each(m, u) \in Seq(Seq(T))
      BY EachTyped
    <2>2. Len(Each(m, u)) = Len(u) /\ \A n \in 1 .. Len(u) : Each(m, u)[n] = m[u[n]]
      BY EachElement
    <2>3. QED
      BY <2>1, <2>2
  <1>2. s \o t \in Seq(S) /\ Len(s \o t) = Len(s) + Len(t)
        /\ \A n \in 1 .. Len(s) + Len(t) : (s \o t)[n] = IF n <= Len(s) THEN s[n] ELSE t[n - Len(s)]
    BY ConcatProperties
  <1>3. Each(m, s \o t) = Each(m, s) \o Each(m, t)
    <2>1. /\ Each(m, s \o t) \in Seq(Seq(T)) /\ Len(Each(m, s \o t)) = Len(s) + Len(t)
          /\ \A n \in 1 .. Len(s) + Len(t) : Each(m, s \o t)[n] = m[(s \o t)[n]]
      BY <1>1, <1>2
    <2>2. /\ Each(m, s) \o Each(m, t) \in Seq(Seq(T)) /\ Len(Each(m, s) \o Each(m, t)) = Len(s) + Len(t)
          /\ \A n \in 1 .. Len(s) + Len(t) :
               (Each(m, s) \o Each(m, t))[n] = IF n <= Len(s) THEN Each(m, s)[n] ELSE Each(m, t)[n - Len(s)]
      <3>1. /\ Each(m, s) \in Seq(Seq(T)) /\ Each(m, t) \in Seq(Seq(T))
            /\ Len(Each(m, s)) = Len(s) /\ Len(Each(m, t)) = Len(t)
        BY <1>1
      <3>2. PICK p \in Seq(Seq(T)), q \in Seq(Seq(T)) : p = Each(m, s) /\ q = Each(m, t)
        BY <3>1
      <3>3. /\ p \o q \in Seq(Seq(T)) /\ Len(p \o q) = Len(p) + Len(q)
            /\ \A n \in 1 .. Len(p) + Len(q) : (p \o q)[n] = IF n <= Len(p) THEN p[n] ELSE q[n - Len(p)]
        BY ConcatProperties
      <3>4. QED
        BY <3>1, <3>2, <3>3, Zenon
    <2>3. \A n \in 1 .. Len(s) + Len(t) : Each(m, s \o t)[n] = (Each(m, s) \o Each(m, t))[n]
      <3>1. TAKE n \in 1 .. Len(s) + Len(t)
      <3>2. Len(s) \in Nat /\ Len(t) \in Nat
        OBVIOUS
      <3>3. CASE n <= Len(s)
        <4>1. n \in 1 .. Len(s)
          BY <3>2, <3>3
        <4>2. Each(m, s)[n] = m[s[n]]
          BY <1>1, <4>1
        <4>3. QED
          BY <1>2, <2>1, <2>2, <3>3, <4>2
      <3>4. CASE ~(n <= Len(s))
        <4>1. n - Len(s) \in 1 .. Len(t)
          BY <3>2, <3>4
        <4>2. Each(m, t)[n - Len(s)] = m[t[n - Len(s)]]
          BY <1>1, <4>1
        <4>3. QED
          BY <1>2, <2>1, <2>2, <3>4, <4>2
      <3>5. QED
        BY <3>3, <3>4
    <2>4. QED
      BY <2>1, <2>2, <2>3, SeqEqual
  <1>4. FlattenSeq(Each(m, s \o t)) = FlattenSeq(Each(m, s)) \o FlattenSeq(Each(m, t))
    BY <1>1, <1>3, FlattenConcat
  <1>5. QED
    BY <1>4 DEF Spelled

LEMMA SpelledOne ==
  ASSUME NEW T, NEW m, NEW x, m[x] \in Seq(T)
  PROVE  Spelled(m, <<x>>) = m[x] /\ Spelled(m, <<>>) = <<>>
  <1>1. [n \in DOMAIN <<x>> |-> m[<<x>>[n]]] = Append(<<>>, m[x])
    OBVIOUS
  <1>2. FlattenSeq(Append(<<>>, m[x])) = FlattenSeq(<<>>) \o m[x]
    BY FlattenAppend, EmptySeq
  <1>3. <<>> \o m[x] = m[x]
    BY ConcatEmptySeq
  <1>4. [n \in DOMAIN <<>> |-> m[<<>>[n]]] = <<>>
    OBVIOUS
  <1>5. QED
    BY <1>1, <1>2, <1>3, <1>4, FlattenEmpty DEF Spelled, Each

-----------------------------------------------------------------------------
(* What is read from a sequence, and what is moved from one to another. *)

\* A sequence is its first n elements, or all if they are fewer, and the others.
LEMMA CutInTwo ==
  ASSUME NEW S, NEW s \in Seq(S), NEW n \in Nat
  PROVE  /\ SubSeq(s, 1, IF Len(s) < n THEN Len(s) ELSE n) \in Seq(S)
         /\ SubSeq(s, n + 1, Len(s)) \in Seq(S)
         /\ Len(SubSeq(s, 1, IF Len(s) < n THEN Len(s) ELSE n)) <= n
         /\ Len(SubSeq(s, n + 1, Len(s))) <= Len(s)
         /\ SubSeq(s, 1, IF Len(s) < n THEN Len(s) ELSE n) \o SubSeq(s, n + 1, Len(s)) = s
  <1>1. PICK N \in Nat : N = Len(s)
    OBVIOUS
  <1>2. PICK m \in Nat : m = IF N < n THEN N ELSE n
    OBVIOUS
  <1>3. m <= n /\ m <= N
    BY <1>1, <1>2
  <1>4. \A i \in 1 .. N : s[i] \in S
    BY <1>1, ElementOfSeq
  <1>5. SubSeq(s, 1, m) \in Seq(S) /\ Len(SubSeq(s, 1, m)) = m
    <2>1. \A i \in 1 .. m : s[i] \in S
      BY <1>3, <1>4
    <2>2. QED
      BY <2>1, SubSeqProperties
  <1>6. SubSeq(s, n + 1, N) \in Seq(S) /\ Len(SubSeq(s, n + 1, N)) <= N
    <2>1. \A i \in n + 1 .. N : s[i] \in S
      BY <1>4
    <2>2. QED
      BY <2>1, SubSeqProperties
  <1>7. SubSeq(s, 1, m) \o SubSeq(s, n + 1, N) = s
    <2>1. CASE N < n
      <3>1. m = N /\ SubSeq(s, 1, N) = s /\ SubSeq(s, n + 1, N) = <<>>
        BY <1>1, <1>2, <2>1, SubSeqFull, SubSeqEmpty
      <3>2. QED
        BY <3>1, ConcatEmptySeq
    <2>2. CASE n <= N
      <3>1. m = n /\ n \in 0 .. N
        BY <1>2, <2>2
      <3>2. SubSeq(s, 1, n) \o SubSeq(s, n + 1, N) = SubSeq(s, 1, N)
        <4>1. 1 \in 1 .. Len(s) + 1 /\ n \in 1 - 1 .. Len(s) /\ Len(s) \in n .. Len(s)
          BY <1>1, <2>2
        <4>2. QED
          BY <1>1, <4>1, ConcatAdjacentSubSeq
      <3>3. QED
        BY <1>1, <3>1, <3>2, SubSeqFull
    <2>3. QED
      BY <2>1, <2>2
  <1>8. QED
    BY <1>1, <1>2, <1>3, <1>5, <1>6, <1>7

LEMMA HeadFirst ==
  ASSUME NEW S, NEW s \in Seq(S), s # <<>>
  PROVE  Head(s) \in S /\ Tail(s) \in Seq(S) /\ Len(Tail(s)) = Len(s) - 1 /\ s = <<Head(s)>> \o Tail(s)
  <1>1. Head(s) \in S /\ Tail(s) \in Seq(S) /\ Len(Tail(s)) = Len(s) - 1
    BY HeadTailProperties
  <1>2. Len(s) \in Nat \ {0} /\ 1 \in 1 .. Len(s) /\ Len(s) \in 1 .. Len(s)
    BY EmptySeq
  <1>3. SubSeq(s, 1, Len(s)) = <<s[1]>> \o SubSeq(s, 1 + 1, Len(s))
    BY <1>2, SubSeqRecursiveFirst
  <1>4. SubSeq(s, 1, Len(s)) = s /\ SubSeq(s, 2, Len(s)) = Tail(s) /\ s[1] = Head(s)
    BY <1>2, SubSeqFull, TailIsSubSeq
  <1>5. QED
    BY <1>1, <1>3, <1>4

\* The front of a sequence is a prefix of it, and is found by its length.
LEMMA FrontOfConcat ==
  ASSUME NEW S, NEW s \in Seq(S), NEW t \in Seq(S)
  PROVE  SubSeq(s \o t, 1, Len(s)) = s
  <1>1. PICK N \in Nat, M \in Nat : N = Len(s) /\ M = Len(t)
    OBVIOUS
  <1>2. PICK u \in Seq(S) : u = s \o t /\ Len(u) = N + M /\ \A i \in 1 .. N : u[i] = s[i]
    <2>1. s \o t \in Seq(S)
      BY ConcatProperties
    <2>2. Len(s \o t) = N + M
      BY <1>1
    <2>3. \A i \in 1 .. N : (s \o t)[i] = s[i]
      BY <1>1
    <2>4. QED
      BY <2>1, <2>2, <2>3
  <1>3. \A i \in 1 .. N : u[i] \in S
    BY <1>1, <1>2, ElementOfSeq
  <1>4. /\ SubSeq(u, 1, N) \in Seq(S) /\ Len(SubSeq(u, 1, N)) = N
        /\ \A i \in 1 .. N : SubSeq(u, 1, N)[i] = u[i]
    BY <1>3, SubSeqProperties
  <1>5. SubSeq(u, 1, N) = s
    BY <1>1, <1>2, <1>4, SeqEqual
  <1>6. QED
    BY <1>1, <1>2, <1>5

LEMMA PrefixOfConcat ==
  ASSUME NEW S, NEW s \in Seq(S), NEW t \in Seq(S)
  PROVE  IsPrefix(s, s \o t)
  <1>1. SubSeq(s \o t, 1, Len(s)) = s
    BY FrontOfConcat
  <1>2. SubSeq(s, 1, Len(s)) = s
    BY SubSeqFull
  <1>3. Len(s) <= Len(s \o t)
    OBVIOUS
  <1>4. QED
    BY <1>1, <1>2, <1>3 DEF IsPrefix

\* The rest of a sequence is a suffix of it.
LEMMA SuffixOfConcat ==
  ASSUME NEW S, NEW s \in Seq(S), NEW t \in Seq(S)
  PROVE  IsSuffix(t, s \o t)
  <1>1. PICK N \in Nat, M \in Nat : N = Len(s) /\ M = Len(t)
    OBVIOUS
  <1>2. PICK u \in Seq(S) : u = s \o t /\ Len(u) = N + M /\ \A i \in 1 .. M : u[N + i] = t[i]
    <2>1. s \o t \in Seq(S)
      BY ConcatProperties
    <2>2. Len(s \o t) = N + M
      BY <1>1, ConcatProperties
    <2>3. \A i \in 1 .. M : (s \o t)[N + i] = t[i]
      BY <1>1, ConcatProperties
    <2>4. QED
      BY <2>1, <2>2, <2>3
  <1>3. \A i \in 1 .. M : t[i] \in S
    BY <1>1, ElementOfSeq
  <1>4. \A i \in 1 .. N + M : u[i] \in S
    BY <1>2, ElementOfSeq
  <1>5. PICK a \in Seq(S) : a = Reverse(t) /\ Len(a) = M /\ \A i \in 1 .. M : a[i] = t[M - i + 1]
    <2>1. Reverse(t) = [i \in 1 .. M |-> t[M - i + 1]]
      BY <1>1 DEF Reverse
    <2>2. Reverse(t) \in [1 .. M -> S]
      BY <1>3, <2>1
    <2>3. Reverse(t) \in Seq(S) /\ Len(Reverse(t)) = M
      BY <2>2, FunctionsAreSequences
    <2>4. QED
      BY <2>1, <2>3
  <1>6. PICK b \in Seq(S) : b = Reverse(u) /\ Len(b) = N + M /\ \A i \in 1 .. N + M : b[i] = u[N + M - i + 1]
    <2>1. Reverse(u) = [i \in 1 .. N + M |-> u[N + M - i + 1]]
      BY <1>2 DEF Reverse
    <2>2. Reverse(u) \in [1 .. N + M -> S]
      BY <1>4, <2>1
    <2>3. Reverse(u) \in Seq(S) /\ Len(Reverse(u)) = N + M
      BY <2>2, FunctionsAreSequences
    <2>4. QED
      BY <2>1, <2>3
  <1>7. \A i \in 1 .. M : b[i] \in S /\ b[i] = a[i]
    <2>1. TAKE i \in 1 .. M
    <2>2. b[i] = u[N + (M - i + 1)] /\ M - i + 1 \in 1 .. M
      BY <1>6
    <2>3. b[i] = t[M - i + 1]
      BY <1>2, <2>2
    <2>4. QED
      BY <1>3, <1>5, <2>2, <2>3
  <1>8. PICK v \in Seq(S) : v = SubSeq(b, 1, M) /\ Len(v) = M /\ \A i \in 1 .. M : v[i] = b[i]
    <2>1. \A i \in 1 .. M : b[i] \in S
      BY <1>7
    <2>2. /\ SubSeq(b, 1, M) \in Seq(S) /\ Len(SubSeq(b, 1, M)) = M
          /\ \A i \in 1 .. M : SubSeq(b, 1, M)[i] = b[i]
      BY <2>1, SubSeqProperties
    <2>3. QED
      BY <2>2
  <1>9. v = a
    BY <1>5, <1>7, <1>8, SeqEqual
  <1>10. SubSeq(a, 1, M) = a
    BY <1>5, SubSeqFull
  <1>11. IsPrefix(a, b)
    BY <1>5, <1>6, <1>8, <1>9, <1>10 DEF IsPrefix
  <1>12. QED
    BY <1>2, <1>5, <1>6, <1>11 DEF IsSuffix

\* Moving the head of one sequence behind another leaves their concatenation.
LEMMA MoveHead ==
  ASSUME NEW S, NEW a \in Seq(S), NEW b \in Seq(S), b # <<>>
  PROVE  Append(a, Head(b)) \o Tail(b) = a \o b
  <1>1. Head(b) \in S /\ Tail(b) \in Seq(S) /\ b = <<Head(b)>> \o Tail(b)
    BY HeadFirst
  <1>2. PICK h \in S, r \in Seq(S) : h = Head(b) /\ r = Tail(b)
    BY <1>1
  <1>3. <<h>> \in Seq(S) /\ Append(a, h) = a \o <<h>>
    BY AppendIsConcat
  <1>4. (a \o <<h>>) \o r = a \o (<<h>> \o r)
    BY <1>3, ConcatAssociative
  <1>5. QED
    BY <1>1, <1>2, <1>3, <1>4

-----------------------------------------------------------------------------
(* Sequences put one after the other by a recursion on 0 .. n. *)

Rolled(f, n) ==
  (CHOOSE all : all = [m \in 0 .. n |-> IF m = 0 THEN <<>> ELSE all[m - 1] \o f[m]])[n]

Rolls(g, f, n) == g[0] = <<>> /\ \A m \in 1 .. n : g[m] = g[m - 1] \o f[m]

LEMMA RollsAgree ==
  ASSUME NEW f, NEW n \in Nat, NEW g, NEW h, Rolls(g, f, n), Rolls(h, f, n)
  PROVE  g[n] = h[n]
  <1> DEFINE Same == {m \in Nat : m <= n => g[m] = h[m]}
  <1>1. 0 \in Same
    BY DEF Rolls
  <1>2. ASSUME NEW m \in Nat, m \in Same, m + 1 <= n
        PROVE  g[m + 1] = h[m + 1]
    <2>1. m + 1 \in 1 .. n /\ (m + 1) - 1 = m /\ m <= n
      BY <1>2
    <2>2. g[m + 1] = g[(m + 1) - 1] \o f[m + 1] /\ h[m + 1] = h[(m + 1) - 1] \o f[m + 1]
      BY <2>1 DEF Rolls
    <2>3. g[m] = h[m]
      BY <1>2, <2>1
    <2>4. QED
      BY <2>1, <2>2, <2>3
  <1>3. Nat \subseteq Same
    <2>1. \A m \in Nat : m \in Same => m + 1 \in Same
      BY <1>2
    <2> HIDE DEF Same
    <2>2. QED
      BY <1>1, <2>1, SetInduction
  <1>4. QED
    BY <1>3

LEMMA RollsExist ==
  ASSUME NEW E, NEW f, NEW N \in Nat, \A m \in 1 .. N : f[m] \in Seq(E)
  PROVE  \E g \in [0 .. N -> Seq(E)] : Rolls(g, f, N)
  <1> DEFINE Defined == {n \in Nat : n <= N => \E g \in [0 .. n -> Seq(E)] : Rolls(g, f, n)}
  <1>1. 0 \in Defined
    <2>1. PICK e \in Seq(E) : e = <<>>
      BY EmptySeq
    <2> DEFINE g == [i \in 0 .. 0 |-> e]
    <2>2. g \in [0 .. 0 -> Seq(E)] /\ g[0] = e
      OBVIOUS
    <2> HIDE DEF g
    <2>3. Rolls(g, f, 0)
      BY <2>1, <2>2 DEF Rolls
    <2>4. QED
      BY <2>2, <2>3
  <1>2. ASSUME NEW n \in Nat, n \in Defined, n + 1 <= N
        PROVE  \E g \in [0 .. n + 1 -> Seq(E)] : Rolls(g, f, n + 1)
    <2>1. PICK h \in [0 .. n -> Seq(E)] : Rolls(h, f, n)
      BY <1>2
    <2>2. PICK last \in Seq(E) : last = h[n] \o f[n + 1]
      <3>1. f[n + 1] \in Seq(E) /\ h[n] \in Seq(E)
        BY <1>2
      <3>2. QED
        BY <3>1, ConcatProperties
    <2> DEFINE g == [i \in 0 .. n + 1 |-> IF i <= n THEN h[i] ELSE last]
    <2>3. g \in [0 .. n + 1 -> Seq(E)]
      OBVIOUS
    <2>4. (\A i \in 0 .. n : g[i] = h[i]) /\ g[n + 1] = last
      OBVIOUS
    <2> HIDE DEF g
    <2>5. g[0] = <<>>
      BY <2>1, <2>4 DEF Rolls
    <2>6. ASSUME NEW m \in 1 .. n + 1
          PROVE  g[m] = g[m - 1] \o f[m]
      <3>1. CASE m \in 1 .. n
        <4>1. m \in 0 .. n /\ m - 1 \in 0 .. n
          BY <3>1
        <4>2. h[m] = h[m - 1] \o f[m]
          BY <2>1, <3>1 DEF Rolls
        <4>3. QED
          BY <2>4, <4>1, <4>2
      <3>2. CASE m = n + 1
        <4>1. n \in 0 .. n /\ m - 1 = n
          BY <3>2
        <4>2. QED
          BY <2>2, <2>4, <3>2, <4>1
      <3>3. m \in 1 .. n \/ m = n + 1
        OBVIOUS
      <3>4. QED
        BY <3>1, <3>2, <3>3
    <2>7. QED
      BY <2>3, <2>5, <2>6 DEF Rolls
  <1>3. Nat \subseteq Defined
    <2>1. ASSUME NEW n \in Nat, n \in Defined
          PROVE  n + 1 \in Defined
      <3>1. n + 1 \in Nat
        OBVIOUS
      <3>2. n + 1 <= N => \E g \in [0 .. n + 1 -> Seq(E)] : Rolls(g, f, n + 1)
        BY <1>2, <2>1
      <3>3. QED
        BY <3>1, <3>2
    <2> HIDE DEF Defined
    <2>2. QED
      BY <1>1, <2>1, SetInduction
  <1>4. QED
    BY <1>3

LEMMA RolledRolls ==
  ASSUME NEW f, NEW n \in Nat, NEW S, NEW g \in [0 .. n -> S], Rolls(g, f, n)
  PROVE  Rolled(f, n) = g[n]
  <1> DEFINE c == CHOOSE all : all = [m \in 0 .. n |-> IF m = 0 THEN <<>> ELSE all[m - 1] \o f[m]]
  <1>1. g = [m \in 0 .. n |-> IF m = 0 THEN <<>> ELSE g[m - 1] \o f[m]]
    <2>1. g = [m \in 0 .. n |-> g[m]]
      OBVIOUS
    <2>2. ASSUME NEW m \in 0 .. n
          PROVE  g[m] = IF m = 0 THEN <<>> ELSE g[m - 1] \o f[m]
      <3>1. CASE m = 0
        BY <3>1 DEF Rolls
      <3>2. CASE m # 0
        BY <3>2 DEF Rolls
      <3>3. QED
        BY <3>1, <3>2
    <2>3. QED
      BY <2>1, <2>2
  <1>2. c = [m \in 0 .. n |-> IF m = 0 THEN <<>> ELSE c[m - 1] \o f[m]]
    BY <1>1
  <1>3. Rolled(f, n) = c[n]
    BY DEF Rolled
  <1> HIDE DEF c
  <1>4. Rolls(c, f, n)
    <2>1. \A m \in 0 .. n : c[m] = IF m = 0 THEN <<>> ELSE c[m - 1] \o f[m]
      BY <1>2
    <2>2. 0 \in 0 .. n /\ \A m \in 1 .. n : m \in 0 .. n /\ m # 0
      OBVIOUS
    <2>3. QED
      BY <2>1, <2>2 DEF Rolls
  <1>5. c[n] = g[n]
    BY <1>4, RollsAgree
  <1>6. QED
    BY <1>3, <1>5

LEMMA RolledNone ==
  ASSUME NEW f
  PROVE  Rolled(f, 0) = <<>>
  <1>1. PICK g \in [0 .. 0 -> {<<>>}] : g[0] = <<>>
    <2>1. [m \in 0 .. 0 |-> <<>>] \in [0 .. 0 -> {<<>>}] /\ [m \in 0 .. 0 |-> <<>>][0] = <<>>
      OBVIOUS
    <2>2. QED
      BY <2>1
  <1>2. Rolls(g, f, 0)
    BY <1>1 DEF Rolls
  <1>3. Rolled(f, 0) = g[0]
    BY <1>2, RolledRolls
  <1>4. QED
    BY <1>1, <1>3

LEMMA RolledMore ==
  ASSUME NEW E, NEW f, NEW n \in Nat, \A m \in 1 .. n + 1 : f[m] \in Seq(E)
  PROVE  Rolled(f, n) \in Seq(E) /\ Rolled(f, n + 1) = Rolled(f, n) \o f[n + 1]
  <1>1. PICK g \in [0 .. n + 1 -> Seq(E)] : Rolls(g, f, n + 1)
    <2>1. n + 1 \in Nat
      OBVIOUS
    <2>2. QED
      BY <2>1, RollsExist
  <1>2. Rolled(f, n + 1) = g[n + 1]
    <2>1. n + 1 \in Nat
      OBVIOUS
    <2>2. QED
      BY <1>1, <2>1, RolledRolls
  <1>3. PICK h \in [0 .. n -> Seq(E)] : \A m \in 0 .. n : h[m] = g[m]
    <2>1. [m \in 0 .. n |-> g[m]] \in [0 .. n -> Seq(E)]
      OBVIOUS
    <2>2. QED
      BY <2>1
  <1>4. Rolls(h, f, n)
    <2>1. h[0] = <<>>
      BY <1>1, <1>3 DEF Rolls
    <2>2. ASSUME NEW m \in 1 .. n
          PROVE  h[m] = h[m - 1] \o f[m]
      <3>1. m \in 0 .. n /\ m - 1 \in 0 .. n /\ m \in 1 .. n + 1
        OBVIOUS
      <3>2. g[m] = g[m - 1] \o f[m]
        BY <1>1, <3>1 DEF Rolls
      <3>3. QED
        BY <1>3, <3>1, <3>2
    <2>3. QED
      BY <2>1, <2>2 DEF Rolls
  <1>5. Rolled(f, n) = h[n]
    BY <1>4, RolledRolls
  <1>6. g[n + 1] = g[n] \o f[n + 1]
    <2>1. n + 1 \in 1 .. n + 1 /\ (n + 1) - 1 = n
      OBVIOUS
    <2>2. g[n + 1] = g[(n + 1) - 1] \o f[n + 1]
      BY <1>1, <2>1 DEF Rolls
    <2>3. QED
      BY <2>1, <2>2
  <1>7. h[n] = g[n] /\ h[n] \in Seq(E)
    BY <1>3
  <1>8. QED
    BY <1>2, <1>5, <1>6, <1>7

LEMMA RolledTyped ==
  ASSUME NEW E, NEW f, NEW n \in Nat, \A m \in 1 .. n : f[m] \in Seq(E)
  PROVE  Rolled(f, n) \in Seq(E)
  <1>1. PICK g \in [0 .. n -> Seq(E)] : Rolls(g, f, n)
    BY RollsExist
  <1>2. Rolled(f, n) = g[n]
    BY <1>1, RolledRolls
  <1>3. QED
    BY <1>2

-----------------------------------------------------------------------------
(* Sequences that list a set: each position has the value g of one member, and *)
(* each member has one position.                                               *)

ValuesOf(g) == {g[r] : r \in DOMAIN g}

Numbering(h, s, R, g) ==
  /\ h \in [1 .. Len(s) -> R]
  /\ \A m, n \in 1 .. Len(s) : h[m] = h[n] => m = n
  /\ \A r \in R : \E n \in 1 .. Len(s) : h[n] = r
  /\ \A n \in 1 .. Len(s) : s[n] = g[h[n]]

Enumerates(s, R, g) == R \subseteq DOMAIN g /\ s \in Seq(ValuesOf(g)) /\ \E h : Numbering(h, s, R, g)

LEMMA EnumeratesNone ==
  ASSUME NEW g
  PROVE  Enumerates(<<>>, {}, g)
  <1>1. <<>> \in Seq(ValuesOf(g)) /\ Len(<<>>) = 0
    BY EmptySeq
  <1>2. Numbering([n \in 1 .. 0 |-> 0], <<>>, {}, g)
    BY <1>1 DEF Numbering
  <1>3. QED
    BY <1>1, <1>2 DEF Enumerates

LEMMA EnumeratesOne ==
  ASSUME NEW g, NEW r \in DOMAIN g
  PROVE  Enumerates(<<g[r]>>, {r}, g)
  <1>1. g[r] \in ValuesOf(g)
    BY DEF ValuesOf
  <1>2. <<g[r]>> \in Seq(ValuesOf(g)) /\ Len(<<g[r]>>) = 1 /\ <<g[r]>>[1] = g[r]
    BY <1>1
  <1> DEFINE h == [n \in 1 .. 1 |-> r]
  <1>3. h \in [1 .. 1 -> {r}] /\ h[1] = r /\ 1 \in 1 .. 1 /\ \A n \in 1 .. 1 : n = 1
    OBVIOUS
  <1> HIDE DEF h
  <1>4. Numbering(h, <<g[r]>>, {r}, g)
    BY <1>2, <1>3 DEF Numbering
  <1>5. QED
    BY <1>2, <1>4 DEF Enumerates

LEMMA EnumeratesConcat ==
  ASSUME NEW g, NEW s, NEW t, NEW Q, NEW R, Enumerates(s, Q, g), Enumerates(t, R, g), Q \cap R = {}
  PROVE  Enumerates(s \o t, Q \cup R, g)
  <1>1. s \in Seq(ValuesOf(g)) /\ t \in Seq(ValuesOf(g)) /\ Q \cup R \subseteq DOMAIN g
    BY DEF Enumerates
  <1>2. PICK a \in Nat, b \in Nat : a = Len(s) /\ b = Len(t)
    BY <1>1, LenProperties
  <1>3. PICK i \in [1 .. a -> Q] : Numbering(i, s, Q, g)
    BY <1>2 DEF Enumerates, Numbering
  <1>4. PICK j \in [1 .. b -> R] : Numbering(j, t, R, g)
    BY <1>2 DEF Enumerates, Numbering
  <1>5. /\ s \o t \in Seq(ValuesOf(g)) /\ Len(s \o t) = a + b
        /\ \A n \in 1 .. a + b : (s \o t)[n] = IF n <= a THEN s[n] ELSE t[n - a]
    BY <1>1, <1>2, ConcatProperties
  <1>6. PICK st : st = s \o t
    OBVIOUS
  <1> DEFINE h == [n \in 1 .. a + b |-> IF n <= a THEN i[n] ELSE j[n - a]]
  <1>7. \A n \in 1 .. a + b : n <= a => n \in 1 .. a /\ i[n] \in Q /\ h[n] = i[n]
    OBVIOUS
  <1>8. \A n \in 1 .. a + b : ~(n <= a) => n - a \in 1 .. b /\ j[n - a] \in R /\ h[n] = j[n - a]
    OBVIOUS
  <1>9. h \in [1 .. a + b -> Q \cup R]
    BY <1>7, <1>8
  <1> HIDE DEF h
  <1>10. ASSUME NEW m \in 1 .. a + b, NEW n \in 1 .. a + b, h[m] = h[n]
         PROVE  m = n
    <2>1. CASE m <= a /\ n <= a
      BY <1>2, <1>3, <1>7, <1>10, <2>1 DEF Numbering
    <2>2. CASE ~(m <= a) /\ ~(n <= a)
      <3>1. m - a \in 1 .. b /\ n - a \in 1 .. b /\ j[m - a] = j[n - a]
        BY <1>8, <1>10, <2>2
      <3>2. m - a = n - a
        BY <1>2, <1>4, <3>1 DEF Numbering
      <3>3. QED
        BY <3>2
    <2>3. CASE m <= a /\ ~(n <= a)
      <3>1. h[m] \in Q /\ h[n] \in R
        BY <1>7, <1>8, <2>3
      <3>2. QED
        BY <1>10, <3>1
    <2>4. CASE ~(m <= a) /\ n <= a
      <3>1. h[n] \in Q /\ h[m] \in R
        BY <1>7, <1>8, <2>4
      <3>2. QED
        BY <1>10, <3>1
    <2>5. QED
      BY <2>1, <2>2, <2>3, <2>4
  <1>11. ASSUME NEW r \in Q \cup R
         PROVE  \E n \in 1 .. a + b : h[n] = r
    <2>1. CASE r \in Q
      <3>1. PICK n \in 1 .. a : i[n] = r
        BY <1>2, <1>3, <2>1 DEF Numbering
      <3>2. n \in 1 .. a + b /\ n <= a
        OBVIOUS
      <3>3. QED
        BY <1>7, <3>1, <3>2
    <2>2. CASE r \in R
      <3>1. PICK n \in 1 .. b : j[n] = r
        BY <1>2, <1>4, <2>2 DEF Numbering
      <3>2. PICK k \in 1 .. a + b : k = a + n
        OBVIOUS
      <3>3. ~(k <= a) /\ k - a = n
        BY <3>2
      <3>4. QED
        BY <1>8, <3>1, <3>3
    <2>3. QED
      BY <2>1, <2>2
  <1>12. ASSUME NEW n \in 1 .. a + b
         PROVE  st[n] = g[h[n]]
    <2>1. st[n] = IF n <= a THEN s[n] ELSE t[n - a]
      BY <1>5, <1>6
    <2>2. CASE n <= a
      <3>1. n \in 1 .. a /\ h[n] = i[n]
        BY <1>7, <2>2
      <3>2. s[n] = g[i[n]]
        BY <1>2, <1>3, <3>1 DEF Numbering
      <3>3. QED
        BY <2>1, <2>2, <3>1, <3>2
    <2>3. CASE ~(n <= a)
      <3>1. n - a \in 1 .. b /\ h[n] = j[n - a]
        BY <1>8, <2>3
      <3>2. t[n - a] = g[j[n - a]]
        BY <1>2, <1>4, <3>1 DEF Numbering
      <3>3. QED
        BY <2>1, <2>3, <3>1, <3>2
    <2>4. QED
      BY <2>2, <2>3
  <1>13. Numbering(h, st, Q \cup R, g)
    BY <1>5, <1>6, <1>9, <1>10, <1>11, <1>12 DEF Numbering
  <1>14. QED
    BY <1>1, <1>5, <1>6, <1>13 DEF Enumerates

\* What lists disjoint sets one after the other lists their union.
LEMMA EnumeratesAll ==
  ASSUME NEW g, NEW N \in Nat, NEW f, NEW R,
         \A m \in 1 .. N : Enumerates(f[m], R[m], g),
         \A m, n \in 1 .. N : m # n => R[m] \cap R[n] = {}
  PROVE  Enumerates(Rolled(f, N), UNION {R[m] : m \in 1 .. N}, g)
  <1>1. \A m \in 1 .. N : f[m] \in Seq(ValuesOf(g))
    BY DEF Enumerates
  <1> DEFINE Done == {n \in Nat : n <= N => Enumerates(Rolled(f, n), UNION {R[m] : m \in 1 .. n}, g)}
  <1>2. 0 \in Done
    <2>1. UNION {R[m] : m \in 1 .. 0} = {}
      OBVIOUS
    <2>2. Enumerates(Rolled(f, 0), UNION {R[m] : m \in 1 .. 0}, g)
      BY <2>1, RolledNone, EnumeratesNone
    <2>3. QED
      BY <2>2
  <1>3. ASSUME NEW n \in Nat, n \in Done
        PROVE  n + 1 \in Done
    <2>1. SUFFICES ASSUME n + 1 <= N
                   PROVE  Enumerates(Rolled(f, n + 1), UNION {R[m] : m \in 1 .. n + 1}, g)
      OBVIOUS
    <2>2. PICK k \in 1 .. N : k = n + 1
      BY <2>1
    <2>3. PICK Q : Q = UNION {R[m] : m \in 1 .. n}
      OBVIOUS
    <2>4. Enumerates(Rolled(f, n), Q, g)
      <3>1. n <= N
        BY <2>1
      <3>2. QED
        BY <1>3, <2>3, <3>1
    <2>5. Rolled(f, n + 1) = Rolled(f, n) \o f[n + 1]
      <3>1. \A m \in 1 .. n + 1 : f[m] \in Seq(ValuesOf(g))
        BY <1>1, <2>1
      <3>2. QED
        BY <3>1, RolledMore
    <2>6. Q \cap R[k] = {}
      <3>1. \A m \in 1 .. n : m \in 1 .. N /\ m # k
        BY <2>1, <2>2
      <3>2. QED
        BY <2>3, <3>1
    <2>7. Enumerates(Rolled(f, n) \o f[k], Q \cup R[k], g)
      BY <2>4, <2>6, EnumeratesConcat
    <2>8. Q \cup R[k] = UNION {R[m] : m \in 1 .. n + 1}
      <3>1. \A m : m \in 1 .. n + 1 <=> m \in 1 .. n \/ m = k
        BY <2>2
      <3>2. QED
        BY <2>3, <3>1
    <2>9. QED
      BY <2>2, <2>5, <2>7, <2>8
  <1>4. Nat \subseteq Done
    <2> HIDE DEF Done
    <2>1. QED
      BY <1>2, <1>3, SetInduction
  <1>5. QED
    BY <1>4

\* If each element of a listing stands for a listing in turn, so do all.
LEMMA EnumeratesThrough ==
  ASSUME NEW s, NEW P, NEW e, Enumerates(s, P, e), NEW g, NEW f, NEW R,
         \A n \in 1 .. Len(s), p \in P : s[n] = e[p] => Enumerates(f[n], R[p], g),
         \A p, q \in P : p # q => R[p] \cap R[q] = {}
  PROVE  Enumerates(Rolled(f, Len(s)), UNION {R[p] : p \in P}, g)
  <1>1. PICK h : Numbering(h, s, P, e)
    BY DEF Enumerates
  <1>2. PICK N \in Nat : N = Len(s)
    BY LenProperties DEF Enumerates
  <1> DEFINE T == [n \in 1 .. N |-> R[h[n]]]
  <1>3. \A n \in 1 .. N : h[n] \in P /\ s[n] = e[h[n]] /\ T[n] = R[h[n]]
    BY <1>1, <1>2 DEF Numbering
  <1>4. \A n \in 1 .. N : Enumerates(f[n], T[n], g)
    BY <1>2, <1>3
  <1>5. \A m, n \in 1 .. N : m # n => T[m] \cap T[n] = {}
    <2>1. \A m, n \in 1 .. N : m # n => h[m] # h[n]
      BY <1>1, <1>2 DEF Numbering
    <2>2. QED
      BY <1>3, <2>1
  <1>6. UNION {T[n] : n \in 1 .. N} = UNION {R[p] : p \in P}
    <2>1. \A p \in P : \E n \in 1 .. N : h[n] = p
      BY <1>1, <1>2 DEF Numbering
    <2>2. QED
      BY <1>3, <2>1
  <1> HIDE DEF T
  <1>7. Enumerates(Rolled(f, N), UNION {T[n] : n \in 1 .. N}, g)
    BY <1>4, <1>5, EnumeratesAll
  <1>8. QED
    BY <1>2, <1>6, <1>7

\* Every member is on the list, and everything on the list is a member's value.
LEMMA EnumeratesMembers ==
  ASSUME NEW s, NEW R, NEW g, Enumerates(s, R, g)
  PROVE  /\ \A r \in R : \E n \in 1 .. Len(s) : s[n] = g[r]
         /\ \A n \in 1 .. Len(s) : \E r \in R : s[n] = g[r]
  BY DEF Enumerates, Numbering

\* The positions, and the members, that have a value in V.
PositionsIn(s, V) == {n \in 1 .. Len(s) : s[n] \in V}
MembersIn(R, g, V) == {r \in R : g[r] \in V}

\* There are as many positions as members.
LEMMA EnumeratesCount ==
  ASSUME NEW s, NEW R, NEW g, Enumerates(s, R, g), NEW V
  PROVE  Cardinality(PositionsIn(s, V)) = Cardinality(MembersIn(R, g, V)) /\ IsFiniteSet(MembersIn(R, g, V))
  <1>1. PICK h : Numbering(h, s, R, g)
    BY DEF Enumerates
  <1>2. PICK N \in Nat : N = Len(s)
    BY LenProperties DEF Enumerates
  <1> DEFINE M == {n \in 1 .. N : s[n] \in V}
  <1> DEFINE K == {r \in R : g[r] \in V}
  <1> DEFINE b == [n \in M |-> h[n]]
  <1>3. \A n \in 1 .. N : h[n] \in R /\ s[n] = g[h[n]]
    BY <1>1, <1>2 DEF Numbering
  <1>4. b \in [M -> K]
    BY <1>3
  <1>5. \A m, n \in M : b[m] = b[n] => m = n
    BY <1>1, <1>2 DEF Numbering
  <1>6. \A r \in K : \E n \in M : b[n] = r
    BY <1>1, <1>2, <1>3 DEF Numbering
  <1>7. IsFiniteSet(M)
    <2>1. IsFiniteSet(1 .. N)
      BY FS_Interval
    <2>2. M \in SUBSET (1 .. N)
      OBVIOUS
    <2> HIDE DEF M
    <2>3. QED
      BY <2>1, <2>2, FS_Subset
  <1> HIDE DEF M, K, b
  <1>8. b \in Bijection(M, K)
    BY <1>4, <1>5, <1>6 DEF Bijection, Injection, Surjection, IsInjective
  <1>9. ExistsBijection(M, K)
    BY <1>8 DEF ExistsBijection
  <1>10. Cardinality(K) = Cardinality(M) /\ IsFiniteSet(K)
    BY <1>7, <1>9, FS_Bijection
  <1>11. QED
    BY <1>2, <1>10 DEF M, K, PositionsIn, MembersIn

\* Which of the sequences an element comes from goes up.
ComesFrom(w, s, f, n) ==
  /\ w \in [1 .. Len(s) -> 1 .. n]
  /\ \A j, k \in 1 .. Len(s) : j <= k => w[j] <= w[k]
  /\ \A k \in 1 .. Len(s) : \E i \in 1 .. Len(f[w[k]]) : s[k] = f[w[k]][i]

LEMMA ComesFromMore ==
  ASSUME NEW E, NEW f, NEW n \in Nat, NEW s \in Seq(E), NEW v, ComesFrom(v, s, f, n),
         NEW t \in Seq(E), t = f[n + 1]
  PROVE  \E w : ComesFrom(w, s \o t, f, n + 1)
  <1>1. PICK a \in Nat, b \in Nat : a = Len(s) /\ b = Len(t)
    BY LenProperties
  <1>2. PICK st : st = s \o t
    OBVIOUS
  <1>3. Len(st) = a + b /\ \A k \in 1 .. a + b : st[k] = IF k <= a THEN s[k] ELSE t[k - a]
    BY <1>1, <1>2, ConcatProperties
  <1> DEFINE w == [k \in 1 .. a + b |-> IF k <= a THEN v[k] ELSE n + 1]
  <1>4. \A k \in 1 .. a : v[k] \in 1 .. n
    BY <1>1 DEF ComesFrom
  <1>5. \A k \in 1 .. a + b : k <= a => k \in 1 .. a /\ w[k] = v[k] /\ w[k] \in 1 .. n
    BY <1>4
  <1>6. \A k \in 1 .. a + b : ~(k <= a) => k - a \in 1 .. b /\ w[k] = n + 1
    OBVIOUS
  <1>7. w \in [1 .. a + b -> 1 .. n + 1]
    BY <1>5, <1>6
  <1> HIDE DEF w
  <1>8. ASSUME NEW j \in 1 .. a + b, NEW k \in 1 .. a + b, j <= k
        PROVE  w[j] <= w[k]
    <2>1. CASE k <= a
      <3>1. j <= a /\ j \in 1 .. a /\ k \in 1 .. a
        BY <1>8, <2>1
      <3>2. v[j] <= v[k]
        BY <1>1, <1>8, <3>1 DEF ComesFrom
      <3>3. QED
        BY <1>5, <2>1, <3>1, <3>2
    <2>2. CASE ~(k <= a)
      <3>1. w[k] = n + 1 /\ w[j] \in 1 .. n + 1
        BY <1>6, <1>7, <2>2
      <3>2. QED
        BY <3>1
    <2>3. QED
      BY <2>1, <2>2
  <1>9. ASSUME NEW k \in 1 .. a + b
        PROVE  \E i \in 1 .. Len(f[w[k]]) : st[k] = f[w[k]][i]
    <2>1. CASE k <= a
      <3>1. k \in 1 .. a /\ w[k] = v[k] /\ st[k] = s[k]
        BY <1>3, <1>5, <2>1
      <3>2. \E i \in 1 .. Len(f[v[k]]) : s[k] = f[v[k]][i]
        BY <1>1, <3>1 DEF ComesFrom
      <3>3. QED
        BY <3>1, <3>2
    <2>2. CASE ~(k <= a)
      <3>1. k - a \in 1 .. b /\ w[k] = n + 1 /\ st[k] = t[k - a]
        BY <1>3, <1>6, <2>2
      <3>2. QED
        BY <1>1, <3>1
    <2>3. QED
      BY <2>1, <2>2
  <1>10. ComesFrom(w, st, f, n + 1)
    BY <1>3, <1>7, <1>8, <1>9 DEF ComesFrom
  <1>11. QED
    BY <1>2, <1>10

LEMMA RolledComesFrom ==
  ASSUME NEW E, NEW f, NEW N \in Nat, \A m \in 1 .. N : f[m] \in Seq(E)
  PROVE  \E w : ComesFrom(w, Rolled(f, N), f, N)
  <1> DEFINE Done == {n \in Nat : n <= N => \E w : ComesFrom(w, Rolled(f, n), f, n)}
  <1>1. 0 \in Done
    <2>1. Rolled(f, 0) = <<>> /\ Len(<<>>) = 0
      BY RolledNone
    <2>2. ComesFrom([k \in 1 .. 0 |-> 0], <<>>, f, 0)
      BY <2>1 DEF ComesFrom
    <2>3. QED
      BY <2>1, <2>2
  <1>2. ASSUME NEW n \in Nat, n \in Done
        PROVE  n + 1 \in Done
    <2>1. SUFFICES ASSUME n + 1 <= N
                   PROVE  \E w : ComesFrom(w, Rolled(f, n + 1), f, n + 1)
      OBVIOUS
    <2>2. PICK v : ComesFrom(v, Rolled(f, n), f, n)
      BY <1>2, <2>1
    <2>3. Rolled(f, n) \in Seq(E) /\ Rolled(f, n + 1) = Rolled(f, n) \o f[n + 1] /\ f[n + 1] \in Seq(E)
      <3>1. \A m \in 1 .. n + 1 : f[m] \in Seq(E)
        BY <2>1
      <3>2. n + 1 \in 1 .. n + 1
        OBVIOUS
      <3>3. QED
        BY <3>1, <3>2, RolledMore
    <2>4. \E w : ComesFrom(w, Rolled(f, n) \o f[n + 1], f, n + 1)
      BY <2>2, <2>3, ComesFromMore
    <2>5. QED
      BY <2>3, <2>4
  <1>3. Nat \subseteq Done
    <2> HIDE DEF Done
    <2>1. QED
      BY <1>1, <1>2, SetInduction
  <1>4. QED
    BY <1>3
=============================================================================
