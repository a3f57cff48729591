----------------------------- MODULE ConsoleProofs -----------------------------
(***************************************************************************)
(* What is proved about Console, for every size of the screen and of the   *)
(* buffer and all texts: formatting stays in the buffer, and the screen    *)
(* shows the last lines of what was to be printed.                         *)
(***************************************************************************)
EXTENDS Console, SequenceTheorems, WellFoundedInduction, TLAPS

------------------------------------------------------------------------------
(***************************************************************************)
(* Induction and recursion, for sets and functions: the forms that need no *)
(* operator as a parameter.                                                *)
(***************************************************************************)

(* A set with 0 and every successor has all numbers. *)
LEMMA SetInduction ==
  ASSUME NEW S, 0 \in S, \A n \in Nat : n \in S => n + 1 \in S
  PROVE  Nat \subseteq S
<1> DEFINE T == Nat \ S
           R == {p \in Nat \X Nat : p[1] < p[2]}
<1> SUFFICES ASSUME T # {} PROVE FALSE
  OBVIOUS
<1>1. IsWellFoundedOn(R, Nat)
  BY NatLessThanWellFounded DEF OpToRel
<1>2. T \subseteq Nat
  OBVIOUS
<1> HIDE DEF R, T
<1>3. PICK m \in T : \A l \in T : ~ (<<l, m>> \in R)
  BY <1>1, <1>2, WFMin, Zenon
<1>4. m \in Nat /\ m \notin S /\ m # 0
  BY DEF T
<1>5. m - 1 \in Nat /\ <<m - 1, m>> \in R
  BY <1>4 DEF R
<1>6. m - 1 \in S
  BY <1>3, <1>4, <1>5 DEF T
<1>7. (m - 1) + 1 \in S
  BY <1>5, <1>6
<1> QED
  BY <1>4, <1>7

(* The same up to a number. *)
LEMMA SetInductionUpTo ==
  ASSUME NEW N \in Nat, NEW S, 0 \in S, \A n \in 1 .. N : n - 1 \in S => n \in S
  PROVE  0 .. N \subseteq S
<1> DEFINE T == {n \in Nat : n <= N => n \in S}
<1>1. 0 \in T
  OBVIOUS
<1>2. ASSUME NEW n \in Nat, n \in T PROVE n + 1 \in T
  <2>1. CASE n + 1 <= N
    <3>1. n + 1 \in 1 .. N /\ (n + 1) - 1 = n /\ n \in S
      BY <1>2, <2>1
    <3> QED BY <3>1
  <2>2. CASE ~ (n + 1 <= N)
    BY <2>2
  <2> QED BY <2>1, <2>2
<1> HIDE DEF T
<1>3. Nat \subseteq T
  BY <1>1, <1>2, SetInduction, Zenon
<1> QED
  BY <1>3 DEF T

(* A function with a first value and, for every index, a step. *)
IsRecursion(g, N, base, step) ==
  g[0] = base /\ \A n \in 1 .. N : g[n] = step[<<n, g[n - 1]>>]

(* A first value and a step make a function. *)
LEMMA RecursionExists ==
  ASSUME NEW N \in Nat, NEW V, NEW base \in V, NEW step \in [(1 .. N) \X V -> V]
  PROVE  \E g \in [0 .. N -> V] : IsRecursion(g, N, base, step)
<1> DEFINE Good(n, g) == g[0] = base /\ \A m \in 1 .. n : g[m] = step[<<m, g[m - 1]>>]
           T == {n \in Nat : n <= N => \E g \in [0 .. n -> V] : Good(n, g)}
<1>1. 0 \in T
  <2>1. [m \in 0 .. 0 |-> base] \in [0 .. 0 -> V] /\ Good(0, [m \in 0 .. 0 |-> base])
    OBVIOUS
  <2> QED BY <2>1
<1>2. ASSUME NEW n \in Nat, n \in T PROVE n + 1 \in T
  <2> SUFFICES ASSUME n + 1 <= N PROVE \E h \in [0 .. n + 1 -> V] : Good(n + 1, h)
    OBVIOUS
  <2>1. PICK g \in [0 .. n -> V] : Good(n, g)
    BY <1>2
  <2> DEFINE h == [m \in 0 .. n + 1 |-> IF m <= n THEN g[m] ELSE step[<<n + 1, g[n]>>]]
  <2>2. step[<<n + 1, g[n]>>] \in V
    OBVIOUS
  <2>3. h \in [0 .. n + 1 -> V]
    BY <2>2
  <2>4. Good(n + 1, h)
    <3>1. h[0] = base
      BY <2>1
    <3>2. ASSUME NEW m \in 1 .. n + 1 PROVE h[m] = step[<<m, h[m - 1]>>]
      <4>1. CASE m <= n
        <5>1. m \in 1 .. n /\ m - 1 \in 0 .. n /\ h[m - 1] = g[m - 1] /\ h[m] = g[m]
          BY <4>1
        <5> QED BY <2>1, <5>1
      <4>2. CASE m = n + 1
        <5>1. h[m - 1] = g[n] /\ h[m] = step[<<n + 1, g[n]>>]
          BY <4>2
        <5> QED BY <4>2, <5>1
      <4> QED BY <4>1, <4>2
    <3> QED BY <3>1, <3>2
  <2> HIDE DEF h
  <2> QED BY <2>3, <2>4
<1> HIDE DEF T
<1>3. N \in T
  BY <1>1, <1>2, SetInduction, Zenon
<1> QED
  BY <1>3 DEF T, IsRecursion

(* Two functions that start alike and step alike are alike. *)
StepAlike(g, h, N) == g[0] = h[0] /\ \A n \in 1 .. N : g[n - 1] = h[n - 1] => g[n] = h[n]

LEMMA RecursionUnique ==
  ASSUME NEW N \in Nat, NEW g, NEW h, StepAlike(g, h, N)
  PROVE  \A n \in 0 .. N : g[n] = h[n]
<1> DEFINE S == {n \in 0 .. N : g[n] = h[n]}
<1>1. 0 \in S /\ \A n \in 1 .. N : n - 1 \in S => n \in S
  BY DEF StepAlike
<1> HIDE DEF S
<1>2. 0 .. N \subseteq S
  BY <1>1, SetInductionUpTo
<1> QED
  BY <1>2 DEF S

------------------------------------------------------------------------------
(***************************************************************************)
(* FlattenSeq, by its own recursion.                                       *)
(***************************************************************************)

(* What FlattenSeq computes on the way: the first i sequences in a row. *)
IsFlattening(f, s) ==
  f = [i \in 1 .. Len(s) |-> IF i = 1 THEN s[i] ELSE f[i - 1] \o s[i]]

(* Concatenation as a function, and that it is associative. *)
Cat(V) == [p \in V \X V |-> p[1] \o p[2]]

IsAssociative(V, cat) ==
  \A a, b, c \in V : cat[<<cat[<<a, b>>], c>>] = cat[<<a, cat[<<b, c>>]>>]

LEMMA CatProperties ==
  ASSUME NEW S, NEW V, V = Seq(S)
  PROVE  /\ Cat(V) \in [V \X V -> V]
         /\ \A a, b \in V : Cat(V)[<<a, b>>] = a \o b
         /\ IsAssociative(V, Cat(V))
<1>1. \A a, b \in V : a \o b \in V
  BY ConcatProperties
<1>2. Cat(V) \in [V \X V -> V]
  BY <1>1 DEF Cat
<1>3. \A a, b \in V : Cat(V)[<<a, b>>] = a \o b
  BY DEF Cat
<1>4. ASSUME NEW a \in V, NEW b \in V, NEW c \in V
      PROVE Cat(V)[<<Cat(V)[<<a, b>>], c>>] = Cat(V)[<<a, Cat(V)[<<b, c>>]>>]
  <2>1. Cat(V)[<<a, b>>] = a \o b /\ a \o b \in V /\ Cat(V)[<<b, c>>] = b \o c /\ b \o c \in V
    BY <1>1, <1>3
  <2>2. Cat(V)[<<a \o b, c>>] = (a \o b) \o c /\ Cat(V)[<<a, b \o c>>] = a \o (b \o c)
    BY <1>3, <2>1
  <2>3. (a \o b) \o c = a \o (b \o c)
    BY ConcatAssociative
  <2> QED BY <2>1, <2>2, <2>3
<1> QED
  BY <1>2, <1>3, <1>4 DEF IsAssociative

(* The row of the values of s from the k-th on. *)
IsRow(f, V, cat, s, k, N) ==
  /\ f[1] = s[k]
  /\ \A i \in 1 .. N - 1 : f[i] \in V => f[i + 1] = cat[<<f[i], s[k + i]>>]

LEMMA RowType ==
  ASSUME NEW V, NEW cat \in [V \X V -> V], NEW k \in Nat, NEW N \in Nat,
         NEW s, \A i \in k .. k + N : s[i] \in V, NEW f, IsRow(f, V, cat, s, k, N + 1)
  PROVE  \A i \in 1 .. N + 1 : f[i] \in V
<1> DEFINE T == {n \in 0 .. N : f[n + 1] \in V}
<1>1. 0 \in T
  BY DEF IsRow
<1>2. ASSUME NEW n \in 1 .. N, n - 1 \in T PROVE n \in T
  <2>1. k + n \in k .. k + N /\ n \in 1 .. (N + 1) - 1
    OBVIOUS
  <2>2. f[n] \in V /\ s[k + n] \in V
    BY <1>2, <2>1
  <2>3. f[n + 1] = cat[<<f[n], s[k + n]>>]
    BY <2>1, <2>2 DEF IsRow
  <2>4. f[n + 1] \in V
    BY <2>2, <2>3
  <2> QED BY <2>4
<1> HIDE DEF T
<1>3. 0 .. N \subseteq T
  BY <1>1, <1>2, SetInductionUpTo
<1>4. ASSUME NEW i \in 1 .. N + 1 PROVE f[i] \in V
  <2>1. i - 1 \in T /\ (i - 1) + 1 = i
    BY <1>3
  <2> QED BY <2>1 DEF T
<1> QED
  BY <1>4

(* The row of all the values and the one of all but the first. *)
RowAndTail(V, cat, N, s, f, g) ==
  /\ cat \in [V \X V -> V] /\ IsAssociative(V, cat) /\ N \in Nat
  /\ \A i \in 1 .. N + 2 : s[i] \in V
  /\ IsRow(f, V, cat, s, 1, N + 2) /\ IsRow(g, V, cat, s, 2, N + 1)

InFront(cat, N, s, f, g) == f[N + 2] = cat[<<s[1], g[N + 1]>>]

(* Steps of a function that is associative put the first value in front. *)
LEMMA RowOfTail ==
  ASSUME NEW V, NEW cat, NEW N, NEW s, NEW f, NEW g, RowAndTail(V, cat, N, s, f, g)
  PROVE  InFront(cat, N, s, f, g)
<1> USE DEF RowAndTail
<1> DEFINE T == {n \in 0 .. N : f[n + 2] = cat[<<s[1], g[n + 1]>>]}
<1>1. \A i \in 1 .. N + 1 : g[i] \in V
  <2>1. \A i \in 2 .. 2 + N : s[i] \in V
    OBVIOUS
  <2> QED BY <2>1, RowType
<1>2. \A i \in 1 .. N + 2 : f[i] \in V
  <2>1. N + 1 \in Nat /\ (N + 1) + 1 = N + 2
    OBVIOUS
  <2>2. \A i \in 1 .. 1 + (N + 1) : s[i] \in V
    OBVIOUS
  <2> QED BY <2>1, <2>2, RowType
<1>3. 0 \in T
  <2>1. f[2] = cat[<<f[1], s[2]>>]
    <3>1. 1 \in 1 .. (N + 2) - 1 /\ 1 \in 1 .. N + 2 /\ 1 + 1 = 2
      OBVIOUS
    <3> QED BY <1>2, <3>1 DEF IsRow
  <2>2. f[0 + 2] = cat[<<s[1], g[0 + 1]>>]
    BY <2>1 DEF IsRow
  <2> QED BY <2>2
<1>4. ASSUME NEW n \in 1 .. N, n - 1 \in T PROVE n \in T
  <2>1. /\ (n - 1) + 1 = n /\ (n - 1) + 2 = n + 1 /\ n + 1 \in 1 .. (N + 2) - 1
        /\ (n + 1) + 1 = n + 2 /\ n \in 1 .. (N + 1) - 1 /\ n \in 1 .. N + 1
        /\ n + 1 \in 1 .. N + 2 /\ n + 2 \in 1 .. N + 2 /\ 1 + (n + 1) = n + 2 /\ 2 + n = n + 2
    OBVIOUS
  <2>2. /\ f[n + 1] = cat[<<s[1], g[n]>>] /\ g[n] \in V /\ s[1] \in V /\ s[n + 2] \in V
        /\ f[n + 1] \in V
    BY <1>1, <1>2, <1>4, <2>1
  <2>3. g[n + 1] = cat[<<g[n], s[n + 2]>>]
    BY <2>1, <2>2 DEF IsRow
  <2>4. f[n + 2] = cat[<<f[n + 1], s[n + 2]>>]
    BY <2>1, <2>2 DEF IsRow
  <2>5. cat[<<cat[<<s[1], g[n]>>], s[n + 2]>>] = cat[<<s[1], cat[<<g[n], s[n + 2]>>]>>]
    BY <2>2, Zenon DEF IsAssociative
  <2>6. f[n + 2] = cat[<<s[1], g[n + 1]>>]
    BY <2>2, <2>3, <2>4, <2>5, Zenon
  <2> QED BY <2>6
<1> HIDE DEF T
<1>5. 0 .. N \subseteq T
  BY <1>3, <1>4, SetInductionUpTo
<1> QED
  BY <1>5 DEF T, InFront

(* A flattening has these steps. *)
LEMMA FlatteningSteps ==
  ASSUME NEW s, NEW f, IsFlattening(f, s), NEW i \in 1 .. Len(s)
  PROVE  f[i] = IF i = 1 THEN s[i] ELSE f[i - 1] \o s[i]
<1>1. f = [k \in 1 .. Len(s) |-> IF k = 1 THEN s[k] ELSE f[k - 1] \o s[k]]
  BY Zenon DEF IsFlattening
<1> DEFINE h(k) == IF k = 1 THEN s[k] ELSE f[k - 1] \o s[k]
<1>2. f = [k \in 1 .. Len(s) |-> h(k)]
  BY <1>1, Zenon
<1> HIDE DEF h
<1>3. f[i] = h(i)
  BY <1>2, Zenon
<1> QED
  BY <1>3, Zenon DEF h

LEMMA FlatteningExists ==
  ASSUME NEW S, NEW s \in Seq(Seq(S)), s # << >>
  PROVE  \E f : IsFlattening(f, s)
<1> DEFINE N == Len(s) - 1
           V == Seq(S)
<1>1. N \in Nat /\ Len(s) = N + 1
  BY EmptySeq, LenProperties
<1>2. \A i \in 1 .. N + 1 : s[i] \in V
  BY <1>1, ElementOfSeq
<1>3. V = Seq(S)
  OBVIOUS
<1> HIDE DEF N, V
<1>4. \A a, b \in V : a \o b \in V
  BY <1>3, ConcatProperties
<1> DEFINE step == [p \in (1 .. N) \X V |-> p[2] \o s[p[1] + 1]]
<1>5. step \in [(1 .. N) \X V -> V]
  <2> SUFFICES ASSUME NEW p \in (1 .. N) \X V PROVE p[2] \o s[p[1] + 1] \in V
    BY Zenon
  <2>1. p[2] \in V /\ p[1] + 1 \in 1 .. N + 1
    BY <1>1
  <2> QED BY <1>2, <1>4, <2>1, Zenon
<1>6. ASSUME NEW n \in 1 .. N, NEW v \in V PROVE step[<<n, v>>] = v \o s[n + 1]
  <2>1. <<n, v>> \in (1 .. N) \X V /\ <<n, v>>[1] = n /\ <<n, v>>[2] = v
    OBVIOUS
  <2>2. step[<<n, v>>] = <<n, v>>[2] \o s[<<n, v>>[1] + 1]
    BY <2>1, Zenon
  <2> QED BY <2>1, <2>2, Zenon
<1> HIDE DEF step
<1>7. s[1] \in V
  BY <1>1, <1>2
<1>8. PICK g \in [0 .. N -> V] : IsRecursion(g, N, s[1], step)
  BY <1>1, <1>5, <1>7, RecursionExists, Zenon
<1> DEFINE h(f, i) == IF i = 1 THEN s[i] ELSE f[i - 1] \o s[i]
           f == [i \in 1 .. N + 1 |-> g[i - 1]]
<1>9. ASSUME NEW i \in 1 .. N + 1 PROVE f[i] = h(f, i)
  <2>1. CASE i = 1
    BY <1>1, <1>8, <2>1 DEF IsRecursion
  <2>2. CASE i # 1
    <3>1. i - 1 \in 1 .. N /\ i - 1 \in 1 .. N + 1 /\ (i - 1) - 1 \in 0 .. N /\ (i - 1) + 1 = i
      BY <1>1, <2>2
    <3>2. f[i] = step[<<i - 1, g[(i - 1) - 1]>>] /\ f[i - 1] = g[(i - 1) - 1]
      BY <1>8, <3>1 DEF IsRecursion
    <3>3. g[(i - 1) - 1] \in V
      BY <1>8, <3>1
    <3>4. f[i] = f[i - 1] \o s[i]
      <4> HIDE DEF f
      <4> QED BY <1>6, <3>1, <3>2, <3>3, Zenon
    <3> QED BY <2>2, <3>4, Zenon
  <2> QED BY <2>1, <2>2
<1>10. f = [i \in 1 .. N + 1 |-> h(f, i)]
  <2> HIDE DEF h
  <2>1. [i \in 1 .. N + 1 |-> g[i - 1]] = [i \in 1 .. N + 1 |-> h(f, i)]
    BY <1>9
  <2> QED BY <2>1
<1>11. IsFlattening(f, s)
  BY <1>1, <1>10, Zenon DEF IsFlattening
<1> QED
  BY <1>11

LEMMA FlattenSeqDef ==
  ASSUME NEW S, NEW s \in Seq(Seq(S)), s # << >>
  PROVE  \E f : IsFlattening(f, s) /\ FlattenSeq(s) = f[Len(s)]
<1> DEFINE f == CHOOSE g : IsFlattening(g, s)
<1>1. IsFlattening(f, s)
  BY FlatteningExists, Zenon
<1>2. FlattenSeq(s) = f[Len(s)]
  BY EmptySeq DEF FlattenSeq, IsFlattening
<1> QED
  BY <1>1, <1>2

(* A flattening is a row under concatenation. *)
LEMMA FlatteningIsRow ==
  ASSUME NEW S, NEW V, V = Seq(S), NEW s, NEW f, IsFlattening(f, s),
         NEW u, NEW k \in Nat, NEW N \in Nat, Len(s) = N + 1,
         \A i \in 1 .. N + 1 : s[i] \in V /\ s[i] = u[k + i - 1]
  PROVE  IsRow(f, V, Cat(V), u, k, N + 1)
<1>1. f[1] = u[k]
  <2>1. 1 \in 1 .. Len(s) /\ 1 \in 1 .. N + 1 /\ k + 1 - 1 = k
    OBVIOUS
  <2>2. f[1] = s[1]
    BY <2>1, FlatteningSteps
  <2> QED BY <2>1, <2>2
<1>2. ASSUME NEW i \in 1 .. (N + 1) - 1, f[i] \in V
      PROVE f[i + 1] = Cat(V)[<<f[i], u[k + i]>>]
  <2>1. i + 1 \in 1 .. Len(s) /\ i + 1 # 1 /\ (i + 1) - 1 = i /\ k + (i + 1) - 1 = k + i
        /\ i + 1 \in 1 .. N + 1
    OBVIOUS
  <2>2. f[i + 1] = IF i + 1 = 1 THEN s[i + 1] ELSE f[(i + 1) - 1] \o s[i + 1]
    BY <2>1, FlatteningSteps, Zenon
  <2>3. f[i + 1] = f[i] \o s[i + 1]
    BY <2>1, <2>2, Zenon
  <2>4. s[i + 1] = u[k + i] /\ s[i + 1] \in V
    BY <2>1
  <2>5. Cat(V)[<<f[i], s[i + 1]>>] = f[i] \o s[i + 1]
    <3>1. f[i] \in V
      BY <1>2
    <3>2. s[i + 1] \in V
      BY <2>4
    <3>3. \A a, b \in V : Cat(V)[<<a, b>>] = a \o b
      BY DEF Cat
    <3> QED BY <3>1, <3>2, <3>3, Zenon
  <2>6. f[i + 1] = Cat(V)[<<f[i], s[i + 1]>>]
    BY <2>3, <2>5, Zenon
  <2> QED BY <2>4, <2>6, Zenon
<1> QED
  BY <1>1, <1>2 DEF IsRow

(* The first of the sequences, then the others in a row. *)
LEMMA FlattenSeqHead ==
  ASSUME NEW S, NEW s \in Seq(Seq(S))
  PROVE  /\ FlattenSeq(s) \in Seq(S)
         /\ s = << >> => FlattenSeq(s) = << >>
         /\ s # << >> => FlattenSeq(s) = Head(s) \o FlattenSeq(Tail(s))
<1>1. CASE s = << >>
  BY <1>1, EmptySeq DEF FlattenSeq
<1>2. CASE s # << >>
  <2> DEFINE V == Seq(S)
             N == Len(s) - 1
             t == Tail(s)
  <2>1. V = Seq(S)
    OBVIOUS
  <2>2. N \in Nat /\ Len(s) = N + 1 /\ \A i \in 1 .. N + 1 : s[i] \in V
    BY <1>2, EmptySeq, ElementOfSeq
  <2>3. Head(s) = s[1] /\ t \in Seq(V) /\ Len(t) = N /\ \A i \in 1 .. N : t[i] = s[i + 1]
    BY <1>2, HeadTailProperties
  <2>4. PICK f : IsFlattening(f, s) /\ FlattenSeq(s) = f[N + 1]
    BY <1>2, <2>2, FlattenSeqDef
  <2> HIDE DEF N, V, t
  <2>5. Cat(V) \in [V \X V -> V] /\ IsAssociative(V, Cat(V))
    BY <2>1, CatProperties, Zenon
  <2>6. IsRow(f, V, Cat(V), s, 1, N + 1)
    <3>1. \A i \in 1 .. N + 1 : s[i] \in V /\ s[i] = s[1 + i - 1]
      BY <2>2
    <3> QED BY <2>1, <2>2, <2>4, <3>1, FlatteningIsRow
  <2>7. \A i \in 1 .. N + 1 : f[i] \in V
    <3>1. \A i \in 1 .. 1 + N : s[i] \in V
      BY <2>2
    <3> QED BY <2>2, <2>5, <2>6, <3>1, RowType
  <2>8. FlattenSeq(s) \in V /\ s[1] \in V
    BY <2>2, <2>4, <2>7
  <2>9. CASE N = 0
    <3>1. t = << >>
      BY <2>3, <2>9, EmptySeq DEF V
    <3>2. FlattenSeq(t) = << >>
      BY <3>1, EmptySeq DEF FlattenSeq
    <3>3. FlattenSeq(s) = s[1] /\ s[1] \o << >> = s[1]
      BY <2>4, <2>6, <2>8, <2>9, ConcatEmptySeq DEF V, IsRow
    <3> QED BY <1>2, <2>3, <2>8, <3>2, <3>3, Zenon DEF t, V
  <2>10. CASE N # 0
    <3> DEFINE M == N - 1
    <3>1. M \in Nat /\ N = M + 1 /\ N + 1 = M + 2
      BY <2>2, <2>10
    <3>2. t # << >>
      BY <2>3, <2>10, EmptySeq
    <3> HIDE DEF M
    <3>3. PICK g : IsFlattening(g, t) /\ FlattenSeq(t) = g[N]
      BY <2>3, <3>2, FlattenSeqDef DEF V
    <3>4. \A i \in 1 .. M + 1 : t[i] \in V /\ t[i] = s[2 + i - 1]
      BY <2>2, <2>3, <3>1
    <3>5. IsRow(g, V, Cat(V), s, 2, M + 1)
      BY <2>1, <2>3, <3>1, <3>3, <3>4, FlatteningIsRow
    <3>6. RowAndTail(V, Cat(V), M, s, f, g)
      <4>1. IsRow(f, V, Cat(V), s, 1, M + 2)
        BY <2>6, <3>1, Zenon
      <4>2. \A i \in 1 .. M + 2 : s[i] \in V
        BY <2>2, <3>1
      <4> QED BY <2>5, <3>1, <3>5, <4>1, <4>2, Zenon DEF RowAndTail
    <3>7. f[M + 2] = Cat(V)[<<s[1], g[M + 1]>>]
      <4>1. InFront(Cat(V), M, s, f, g)
        BY <3>6, RowOfTail, Zenon
      <4> QED BY <4>1, Zenon DEF InFront
    <3>8. FlattenSeq(t) \in V
      <4>1. \A i \in 2 .. 2 + M : s[i] \in V
        BY <2>2, <3>1
      <4>2. \A i \in 1 .. M + 1 : g[i] \in V
        BY <2>5, <3>1, <3>5, <4>1, RowType
      <4> QED BY <3>1, <3>3, <4>2
    <3>9. FlattenSeq(s) = s[1] \o FlattenSeq(t)
      <4>1. FlattenSeq(s) = f[M + 2] /\ FlattenSeq(t) = g[M + 1]
        BY <2>4, <3>1, <3>3, Zenon
      <4>2. Cat(V)[<<s[1], FlattenSeq(t)>>] = s[1] \o FlattenSeq(t)
        BY <2>1, <2>8, <3>8, CatProperties, Zenon
      <4> QED BY <3>7, <4>1, <4>2, Zenon
    <3> QED BY <1>2, <2>3, <2>8, <3>9, Zenon DEF t, V
  <2> QED BY <2>9, <2>10
<1> QED
  BY <1>1, <1>2

------------------------------------------------------------------------------
(***************************************************************************)
(* The digits of a number.                                                 *)
(***************************************************************************)

(* The sizes are numbers. *)
LEMMA Sizes ==
  /\ COLS \in Nat \ {0} /\ LINES \in Nat \ {0}
  /\ BUF_SIZE \in Nat \ {0} /\ MaxDigits \in Nat \ {0}
  /\ MemSize \in Nat /\ MemSize > BUF_SIZE
BY ConsoleAssumption

LEMMA WorthSteps ==
  /\ Worth[0] = 1
  /\ \A k \in 1 .. MaxDigits : Worth[k] = 16 * Worth[k - 1]
<1> DEFINE step == [p \in (1 .. MaxDigits) \X Nat |-> 16 * p[2]]
           IsWorth(g) == g = [k \in 0 .. MaxDigits |-> IF k = 0 THEN 1 ELSE 16 * g[k - 1]]
<1>1. MaxDigits \in Nat
  BY Sizes
<1>2. step \in [(1 .. MaxDigits) \X Nat -> Nat]
  OBVIOUS
<1>3. \A n \in 1 .. MaxDigits, v \in Nat : step[<<n, v>>] = 16 * v
  OBVIOUS
<1> HIDE DEF step
<1>4. PICK g \in [0 .. MaxDigits -> Nat] : IsRecursion(g, MaxDigits, 1, step)
  <2>1. 1 \in Nat
    OBVIOUS
  <2> QED BY <1>1, <1>2, <2>1, RecursionExists, Zenon
<1>5. IsWorth(g)
  <2>1. ASSUME NEW k \in 0 .. MaxDigits PROVE g[k] = IF k = 0 THEN 1 ELSE 16 * g[k - 1]
    <3>1. CASE k = 0
      BY <1>4, <3>1 DEF IsRecursion
    <3>2. CASE k # 0
      <4>1. k \in 1 .. MaxDigits /\ k - 1 \in 0 .. MaxDigits
        BY <1>1, <3>2
      <4>2. g[k] = step[<<k, g[k - 1]>>] /\ g[k - 1] \in Nat
        BY <1>4, <4>1 DEF IsRecursion
      <4> QED BY <1>3, <3>2, <4>1, <4>2
    <3> QED BY <3>1, <3>2
  <2> QED BY <2>1
<1>6. Worth = CHOOSE h : IsWorth(h)
  BY DEF Worth
<1>7. IsWorth(Worth)
  <2> HIDE DEF IsWorth
  <2> QED BY <1>5, <1>6, Zenon
<1> QED
  BY <1>1, <1>7

LEMMA WorthType == \A k \in 0 .. MaxDigits : Worth[k] \in Nat \ {0}
<1> DEFINE S == {k \in 0 .. MaxDigits : Worth[k] \in Nat \ {0}}
<1>1. 0 \in S
  BY WorthSteps, Sizes
<1>2. ASSUME NEW k \in 1 .. MaxDigits, k - 1 \in S PROVE k \in S
  BY <1>2, WorthSteps, Sizes
<1> HIDE DEF S
<1>3. 0 .. MaxDigits \subseteq S
  BY <1>1, <1>2, SetInductionUpTo, Sizes
<1> QED
  BY <1>3 DEF S

(* The longer number is worth more. *)
LEMMA WorthGrows ==
  ASSUME NEW l \in 0 .. MaxDigits, NEW k \in 0 .. MaxDigits, l <= k
  PROVE  Worth[l] <= Worth[k]
<1> DEFINE S == {n \in 0 .. MaxDigits : n < l \/ Worth[l] <= Worth[n]}
<1>1. 0 \in S
  BY WorthType, Sizes
<1>2. ASSUME NEW n \in 1 .. MaxDigits, n - 1 \in S PROVE n \in S
  <2>1. Worth[n] = 16 * Worth[n - 1] /\ Worth[n - 1] \in Nat /\ Worth[l] \in Nat
    BY WorthSteps, WorthType, Sizes
  <2>2. CASE n - 1 < l
    <3>1. n < l \/ n = l
      BY <2>2, Sizes
    <3> QED BY <2>1, <3>1
  <2>3. CASE Worth[l] <= Worth[n - 1]
    BY <2>1, <2>3
  <2> QED BY <1>2, <2>2, <2>3
<1> HIDE DEF S
<1>3. k \in S
  BY <1>1, <1>2, SetInductionUpTo, Sizes
<1> QED
  BY <1>3 DEF S

(* A number has one length: n has k digits when it is below 16 to the k and
   not below any smaller power, but that 0 has a digit too. *)
HasDigits(n, k) == k \in 1 .. MaxDigits /\ n < Worth[k] /\ \A l \in 1 .. k - 1 : n >= Worth[l]

LEMMA HasDigitsExists ==
  ASSUME NEW n \in 0 .. Worth[MaxDigits] - 1
  PROVE  \E k \in 1 .. MaxDigits : HasDigits(n, k)
<1> DEFINE S == {m \in 0 .. MaxDigits : m = 0 \/ (\A l \in 1 .. m : n >= Worth[l])
                                        \/ \E k \in 1 .. MaxDigits : HasDigits(n, k)}
<1>1. 0 \in S
  BY Sizes
<1>2. ASSUME NEW m \in 1 .. MaxDigits, m - 1 \in S PROVE m \in S
  <2>1. CASE \E k \in 1 .. MaxDigits : HasDigits(n, k)
    BY <2>1
  <2>2. CASE \A l \in 1 .. m - 1 : n >= Worth[l]
    <3>1. Worth[m] \in Nat /\ n \in Nat
      BY WorthType, Sizes
    <3>2. CASE n < Worth[m]
      BY <2>2, <3>2 DEF HasDigits
    <3>3. CASE n >= Worth[m]
      <4>1. \A l \in 1 .. m : n >= Worth[l]
        BY <2>2, <3>3, Sizes
      <4> QED BY <4>1
    <3> QED BY <3>1, <3>2, <3>3
  <2> QED BY <1>2, <2>1, <2>2, Sizes
<1> HIDE DEF S
<1>3. MaxDigits \in S
  BY <1>1, <1>2, SetInductionUpTo, Sizes
<1>4. ~ \A l \in 1 .. MaxDigits : n >= Worth[l]
  BY Sizes, WorthType
<1> QED
  BY <1>3, <1>4, Sizes DEF S

LEMMA HasDigitsUnique ==
  ASSUME NEW n \in Nat, NEW k, HasDigits(n, k), NEW l, HasDigits(n, l)
  PROVE  k = l
<1>1. ASSUME NEW a \in 1 .. MaxDigits, NEW b \in 1 .. MaxDigits,
             HasDigits(n, a), HasDigits(n, b), a < b
      PROVE FALSE
  <2>1. n >= Worth[a] /\ n < Worth[a] /\ Worth[a] \in Nat
    BY <1>1, WorthType, Sizes DEF HasDigits
  <2> QED BY <2>1
<1>2. k \in 1 .. MaxDigits /\ l \in 1 .. MaxDigits
  BY DEF HasDigits
<1> QED
  BY <1>1, <1>2, Sizes

LEMMA NrDigitsIs ==
  ASSUME NEW n \in 0 .. Worth[MaxDigits] - 1
  PROVE  HasDigits(n, NrDigits(n))
<1>1. NrDigits(n) = CHOOSE k \in 1 .. MaxDigits : HasDigits(n, k)
  <2>1. \A k \in 1 .. MaxDigits :
          HasDigits(n, k) <=> n < Worth[k] /\ \A l \in 1 .. k - 1 : n >= Worth[l]
    BY Zenon DEF HasDigits
  <2> QED BY <2>1, Zenon DEF NrDigits
<1> QED
  BY <1>1, HasDigitsExists, Zenon

(* Division with remainder. *)
LEMMA DivMod ==
  ASSUME NEW n \in Nat, NEW d \in Nat \ {0}
  PROVE  n \div d \in Nat /\ n % d \in 0 .. d - 1 /\ n = d * (n \div d) + (n % d)
OBVIOUS

LEMMA DivUnique ==
  ASSUME NEW d \in Nat \ {0}, NEW q \in Nat, NEW r \in 0 .. d - 1
  PROVE  (d * q + r) \div d = q
OBVIOUS

(* To shift by one digit and then by more is to shift by all of them. *)
LEMMA ShiftTwice ==
  ASSUME NEW n \in Nat, NEW p \in Nat \ {0}
  PROVE  (n \div 16) \div p = n \div (16 * p)
<1> DEFINE m == n \div 16
           q == m \div p
           r == 16 * (m % p) + (n % 16)
           d == 16 * p
<1>1. m \in Nat /\ n % 16 \in 0 .. 15 /\ n = 16 * m + (n % 16)
  BY DivMod
<1>2. q \in Nat /\ m % p \in 0 .. p - 1 /\ m = p * q + (m % p)
  BY <1>1, DivMod
<1>3. d \in Nat \ {0} /\ r \in 0 .. d - 1
  <2> HIDE DEF m
  <2> QED BY <1>1, <1>2
<1>4. n = d * q + r
  <2> HIDE DEF m, q
  <2> QED BY <1>1, <1>2
<1> HIDE DEF d, q, r, m
<1>5. (d * q + r) \div d = q
  BY <1>2, <1>3, DivUnique
<1> QED
  BY <1>4, <1>5 DEF d, q, m

(* Without its last digit a number is shorter by one. *)
LEMMA NrDigitsShift ==
  ASSUME NEW n \in 0 .. Worth[MaxDigits] - 1
  PROVE  /\ n < 16 => NrDigits(n) = 1
         /\ n >= 16 => /\ n \div 16 \in 0 .. Worth[MaxDigits] - 1
                       /\ n \div 16 < n
                       /\ NrDigits(n) = NrDigits(n \div 16) + 1
<1>1. n \in Nat
  BY WorthType, Sizes
<1>2. HasDigits(n, NrDigits(n))
  BY NrDigitsIs
<1>3. 1 \in 1 .. MaxDigits /\ Worth[1] = 16
  BY WorthSteps, Sizes
<1>4. ASSUME n < 16 PROVE NrDigits(n) = 1
  <2>1. HasDigits(n, 1)
    BY <1>3, <1>4 DEF HasDigits
  <2> QED BY <1>1, <1>2, <2>1, HasDigitsUnique
<1>5. ASSUME n >= 16
      PROVE  /\ n \div 16 \in 0 .. Worth[MaxDigits] - 1 /\ n \div 16 < n
             /\ NrDigits(n) = NrDigits(n \div 16) + 1
  <2> DEFINE m == n \div 16
             k == NrDigits(m)
  <2>1. m \in Nat /\ m < n /\ n % 16 \in 0 .. 15 /\ n = 16 * m + (n % 16)
    BY <1>1, <1>5, DivMod
  <2>2. Worth[MaxDigits] \in Nat /\ n < Worth[MaxDigits]
    BY <1>1, WorthType, Sizes
  <2> HIDE DEF m
  <2>3. m \in 0 .. Worth[MaxDigits] - 1
    BY <1>1, <2>1, <2>2
  <2>4. HasDigits(m, k)
    BY <2>3, NrDigitsIs
  <2>5. k \in 1 .. MaxDigits
    BY <2>4 DEF HasDigits
  <2>6. k < MaxDigits
    <3>1. SUFFICES ASSUME k = MaxDigits PROVE FALSE
      BY <2>5, Sizes
    <3>2. Worth[MaxDigits] = 16 * Worth[MaxDigits - 1] /\ Worth[MaxDigits - 1] \in Nat
      BY WorthSteps, WorthType, Sizes
    <3>3. CASE MaxDigits = 1
      BY <1>3, <1>5, <2>2, <3>3
    <3>4. CASE MaxDigits # 1
      <4>1. m >= Worth[MaxDigits - 1]
        BY <2>4, <3>1, <3>4, Sizes DEF HasDigits
      <4> QED BY <2>1, <2>2, <3>2, <4>1
    <3> QED BY <3>3, <3>4
  <2> HIDE DEF k
  <2>7. HasDigits(n, k + 1)
    <3>1. k + 1 \in 1 .. MaxDigits /\ (k + 1) - 1 = k
      BY <2>5, <2>6, Sizes
    <3>2. n < Worth[k + 1]
      <4>1. Worth[k + 1] = 16 * Worth[k] /\ Worth[k] \in Nat
        BY <2>5, <3>1, WorthSteps, WorthType, Sizes
      <4>2. m < Worth[k]
        BY <2>4 DEF HasDigits
      <4> QED BY <2>1, <4>1, <4>2
    <3>3. ASSUME NEW l \in 1 .. k PROVE n >= Worth[l]
      <4>1. l \in 1 .. MaxDigits /\ l - 1 \in 0 .. MaxDigits
        BY <2>5, Sizes
      <4>2. Worth[l] = 16 * Worth[l - 1] /\ Worth[l - 1] \in Nat
        BY <4>1, WorthSteps, WorthType
      <4>3. CASE l = 1
        BY <1>3, <1>5, <4>3
      <4>4. CASE l # 1
        <5>1. l - 1 \in 1 .. k - 1
          BY <2>5, <4>4
        <5>2. m >= Worth[l - 1]
          BY <2>4, <5>1 DEF HasDigits
        <5> QED BY <2>1, <4>2, <5>2
      <4> QED BY <4>3, <4>4
    <3> QED BY <3>1, <3>2, <3>3, Zenon DEF HasDigits
  <2>8. NrDigits(n) = k + 1
    BY <1>1, <1>2, <2>7, HasDigitsUnique
  <2> QED BY <2>1, <2>3, <2>8 DEF m, k
<1> QED
  BY <1>4, <1>5

(* The digits as number writes them. *)
Digits(n) == [i \in 1 .. NrDigits(n) |-> DigitAt(n, i - 1)]

IsHex(h) ==
  h = [n \in 0 .. Worth[MaxDigits] - 1 |->
         IF n < 16 THEN << Digit(n) >> ELSE Append(h[n \div 16], Digit(n % 16))]

LEMMA DigitsAppend ==
  ASSUME NEW n \in 0 .. Worth[MaxDigits] - 1
  PROVE  Digits(n) = IF n < 16 THEN << Digit(n) >> ELSE Append(Digits(n \div 16), Digit(n % 16))
<1>1. n \in Nat
  BY WorthType, Sizes
<1>2. CASE n < 16
  <2>1. NrDigits(n) = 1
    BY <1>2, NrDigitsShift
  <2>2. DigitAt(n, 0) = Digit(n)
    <3>1. Worth[NrDigits(n) - 0 - 1] = 1
      BY <2>1, WorthSteps
    <3>2. (n \div 1) % 16 = n
      BY <1>1, <1>2
    <3> QED BY <3>1, <3>2 DEF DigitAt
  <2>3. Digits(n) = [i \in 1 .. 1 |-> Digit(n)]
    <3>1. \A i \in 1 .. 1 : DigitAt(n, i - 1) = Digit(n)
      BY <2>2
    <3>2. [i \in 1 .. 1 |-> DigitAt(n, i - 1)] = [i \in 1 .. 1 |-> Digit(n)]
      BY <3>1, Zenon
    <3> QED BY <2>1, <3>2 DEF Digits
  <2>4. [i \in 1 .. 1 |-> Digit(n)] = << Digit(n) >>
    <3> DEFINE d == Digit(n)
    <3> HIDE DEF d
    <3>1. [i \in 1 .. 1 |-> d] = << d >>
      OBVIOUS
    <3> QED BY <3>1 DEF d
  <2> QED BY <1>2, <2>3, <2>4, Zenon
<1>3. CASE n >= 16
  <2> DEFINE m == n \div 16
             k == NrDigits(m)
             d == Digit(n % 16)
  <2>1. m \in 0 .. Worth[MaxDigits] - 1 /\ NrDigits(n) = k + 1
    BY <1>3, NrDigitsShift
  <2>2. k \in 1 .. MaxDigits /\ k \in Nat /\ k + 1 \in 1 .. MaxDigits
    <3>1. HasDigits(m, k) /\ HasDigits(n, k + 1)
      BY <2>1, NrDigitsIs
    <3> HIDE DEF m, k
    <3> QED BY <3>1 DEF HasDigits
  <2>3. ASSUME NEW i \in 1 .. k PROVE DigitAt(n, i - 1) = DigitAt(m, i - 1)
    <3> DEFINE p == Worth[k - (i - 1) - 1]
    <3>1. (k + 1) - (i - 1) - 1 \in 1 .. MaxDigits
          /\ ((k + 1) - (i - 1) - 1) - 1 = k - (i - 1) - 1
          /\ k - (i - 1) - 1 \in 0 .. MaxDigits
      <4> HIDE DEF k
      <4> QED BY <2>2, Sizes
    <3>2. p \in Nat \ {0} /\ Worth[(k + 1) - (i - 1) - 1] = 16 * p
      <4> HIDE DEF k
      <4> QED BY <3>1, WorthSteps, WorthType
    <3> HIDE DEF p
    <3>3. m \div p = n \div (16 * p)
      BY <1>1, <3>2, ShiftTwice
    <3>4. DigitAt(n, i - 1) = Digit((n \div (16 * p)) % 16)
      BY <2>1, <3>2, Zenon DEF DigitAt
    <3>5. DigitAt(m, i - 1) = Digit((m \div p) % 16)
      BY Zenon DEF DigitAt, p
    <3> QED BY <3>3, <3>4, <3>5, Zenon
  <2>4. DigitAt(n, (k + 1) - 1) = d
    <3>1. (k + 1) - ((k + 1) - 1) - 1 = 0
      <4> HIDE DEF k
      <4> QED BY <2>2
    <3>2. n \div 1 = n
      BY <1>1
    <3> HIDE DEF k
    <3> QED BY <2>1, <3>1, <3>2, WorthSteps, Zenon DEF DigitAt
  <2>5. Digits(n) = [i \in 1 .. k + 1 |-> IF i <= k THEN DigitAt(m, i - 1) ELSE d]
    <3> HIDE DEF k, m, d
    <3>1. ASSUME NEW i \in 1 .. k + 1
          PROVE DigitAt(n, i - 1) = IF i <= k THEN DigitAt(m, i - 1) ELSE d
      <4>1. CASE i <= k
        <5>1. i \in 1 .. k
          BY <2>2, <4>1
        <5> QED BY <2>3, <4>1, <5>1, Zenon
      <4>2. CASE ~ (i <= k)
        <5>1. i = k + 1
          BY <2>2, <4>2
        <5> QED BY <2>4, <4>2, <5>1, Zenon
      <4> QED BY <4>1, <4>2, Zenon
    <3>2. Digits(n) = [i \in 1 .. k + 1 |-> DigitAt(n, i - 1)]
      BY <2>1, Zenon DEF Digits
    <3> QED BY <3>1, <3>2, Zenon
  <2>6. Append(Digits(m), d) = [i \in 1 .. k + 1 |-> IF i <= k THEN DigitAt(m, i - 1) ELSE d]
    <3> DEFINE S == {DigitAt(m, i - 1) : i \in 1 .. k} \cup {d}
               s == [i \in 1 .. k |-> DigitAt(m, i - 1)]
    <3> HIDE DEF k, m, d
    <3>1. \A i \in 1 .. k : DigitAt(m, i - 1) \in S
      BY Zenon
    <3>2. d \in S
      OBVIOUS
    <3> HIDE DEF S
    <3>3. s \in Seq(S) /\ Len(s) = k /\ \A i \in 1 .. k : s[i] = DigitAt(m, i - 1)
      BY <2>2, <3>1
    <3>4. Digits(m) = s
      BY Zenon DEF Digits, k
    <3> HIDE DEF s
    <3>5. Append(s, d) = [i \in 1 .. k + 1 |-> IF i <= k THEN s[i] ELSE d]
      <4> DEFINE r == Append(s, d)
      <4>1. r \in Seq(S) /\ Len(r) = k + 1 /\ r[k + 1] = d /\ \A i \in 1 .. k : r[i] = s[i]
        BY <3>2, <3>3, AppendProperties
      <4> HIDE DEF r
      <4>2. r = [i \in 1 .. k + 1 |-> r[i]]
        BY <4>1
      <4>3. \A i \in 1 .. k + 1 : r[i] = IF i <= k THEN s[i] ELSE d
        BY <2>2, <4>1
      <4> QED BY <4>2, <4>3 DEF r
    <3>6. [i \in 1 .. k + 1 |-> IF i <= k THEN s[i] ELSE d]
            = [i \in 1 .. k + 1 |-> IF i <= k THEN DigitAt(m, i - 1) ELSE d]
      <4>1. ASSUME NEW i \in 1 .. k + 1, i <= k PROVE i \in 1 .. k
        BY <2>2, <4>1
      <4>2. ASSUME NEW i \in 1 .. k + 1
            PROVE (IF i <= k THEN s[i] ELSE d) = IF i <= k THEN DigitAt(m, i - 1) ELSE d
        BY <3>3, <4>1, Zenon
      <4> QED BY <4>2, Zenon
    <3> QED BY <3>4, <3>5, <3>6, Zenon
  <2>7. ~ (n < 16)
    BY <1>1, <1>3
  <2> QED BY <2>5, <2>6, <2>7, Zenon
<1> QED
  BY <1>1, <1>2, <1>3

LEMMA DigitsType ==
  ASSUME NEW n \in 0 .. Worth[MaxDigits] - 1
  PROVE  /\ NrDigits(n) \in 1 .. MaxDigits
         /\ \A i \in 0 .. NrDigits(n) - 1 : DigitAt(n, i) \in Chars
         /\ Digits(n) \in Seq(Chars) /\ Len(Digits(n)) = NrDigits(n)
<1>1. NrDigits(n) \in 1 .. MaxDigits /\ n \in Nat
  BY NrDigitsIs, WorthType, Sizes DEF HasDigits
<1>2. ASSUME NEW i \in 0 .. NrDigits(n) - 1 PROVE DigitAt(n, i) \in Chars
  <2> DEFINE w == Worth[NrDigits(n) - i - 1]
             d == (n \div w) % 16
  <2>1. w \in Nat \ {0}
    BY <1>1, WorthType, Sizes
  <2> HIDE DEF w
  <2>2. d \in 0 .. 15
    BY <1>1, <2>1, DivMod
  <2> HIDE DEF d
  <2>3. Digit(d) \in Chars
    BY <2>2, ConsoleAssumption
  <2> QED BY <2>3, Zenon DEF DigitAt, d, w
<1>3. Digits(n) \in Seq(Chars) /\ Len(Digits(n)) = NrDigits(n)
  <2>1. \A i \in 1 .. NrDigits(n) : DigitAt(n, i - 1) \in Chars
    BY <1>1, <1>2
  <2> QED BY <1>1, <2>1 DEF Digits
<1> QED
  BY <1>1, <1>2, <1>3

(* The recursion of Hex has one solution, the digits of number. *)
LEMMA HexIs ==
  ASSUME NEW n \in 0 .. Worth[MaxDigits] - 1
  PROVE  Hex[n] = Digits(n)
<1> DEFINE D == 0 .. Worth[MaxDigits] - 1
           g == [m \in D |-> Digits(m)]
           next(h, m) == IF m < 16 THEN << Digit(m) >> ELSE Append(h[m \div 16], Digit(m % 16))
<1>1. \A m \in D : m \in Nat /\ (~ (m < 16) => m \div 16 \in D /\ m \div 16 < m)
  BY NrDigitsShift, WorthType, Sizes
<1>2. \A m \in D : g[m] = next(g, m)
  <2> SUFFICES ASSUME NEW m \in D PROVE g[m] = next(g, m)
    OBVIOUS
  <2>1. g[m] = IF m < 16 THEN << Digit(m) >> ELSE Append(Digits(m \div 16), Digit(m % 16))
    BY DigitsAppend, Zenon
  <2>2. ~ (m < 16) => g[m \div 16] = Digits(m \div 16)
    BY <1>1, Zenon
  <2> HIDE DEF g, D
  <2> QED BY <2>1, <2>2, Zenon
<1>3. IsHex(g)
  <2> HIDE DEF next
  <2>1. g = [m \in D |-> g[m]]
    OBVIOUS
  <2>2. g = [m \in D |-> next(g, m)]
    <3> HIDE DEF g, D
    <3> QED BY <1>2, <2>1, Zenon
  <2> QED BY <2>2, Zenon DEF IsHex, next
<1>4. Hex = CHOOSE h : IsHex(h)
  BY Zenon DEF Hex, IsHex
<1>5. IsHex(Hex)
  BY <1>3, <1>4, Zenon
<1>6. \A m \in D : Hex[m] = next(Hex, m)
  <2>1. Hex = [m \in D |-> next(Hex, m)]
    BY <1>5, Zenon DEF IsHex
  <2> HIDE DEF next, D
  <2> QED BY <2>1, Zenon
<1>0. D \subseteq Nat
  BY <1>1
<1> DEFINE S == {b \in Nat : \A m \in D : m <= b => Hex[m] = Digits(m)}
<1>7. ASSUME NEW m \in D, \A l \in D : l < m => Hex[l] = Digits(l) PROVE Hex[m] = Digits(m)
  <2>1. Digits(m) = IF m < 16 THEN << Digit(m) >> ELSE Append(Digits(m \div 16), Digit(m % 16))
    BY DigitsAppend, Zenon
  <2>2. ~ (m < 16) => Hex[m \div 16] = Digits(m \div 16)
    BY <1>1, <1>7, Zenon
  <2> HIDE DEF D
  <2> QED BY <1>6, <2>1, <2>2, Zenon
<1> HIDE DEF D, next, g
<1>8. 0 \in S
  <2>1. ASSUME NEW m \in D, m <= 0 PROVE Hex[m] = Digits(m)
    <3>1. \A l \in D : ~ (l < m)
      BY <1>0, <2>1
    <3> QED BY <1>7, <3>1, Zenon
  <2> QED BY <2>1
<1>9. ASSUME NEW b \in Nat, b \in S PROVE b + 1 \in S
  <2>1. ASSUME NEW m \in D, m <= b + 1 PROVE Hex[m] = Digits(m)
    <3>1. \A l \in D : l < m => l <= b
      BY <1>0, <2>1
    <3>2. \A l \in D : l <= b => Hex[l] = Digits(l)
      BY <1>9, Zenon
    <3> QED BY <1>7, <3>1, <3>2, Zenon
  <2> QED BY <2>1
<1> HIDE DEF S
<1>10. n \in S
  BY <1>1, <1>8, <1>9, SetInduction DEF D
<1> QED
  BY <1>1, <1>10 DEF S, D

(* The text of a format, item by item. *)
LEMMA ItemTextType ==
  ASSUME NEW item \in Item
  PROVE  /\ ItemText(item) \in Seq(Chars)
         /\ item.conv = "x" => /\ ItemText(item) = <<"0", "x">> \o Digits(item.num)
                               /\ Len(ItemText(item)) = NrDigits(item.num) + 2
<1>1. item.text \in Seq(Chars) /\ item.num \in 0 .. Worth[MaxDigits] - 1
  BY DEF Item
<1>2. Digits(item.num) \in Seq(Chars) /\ Len(Digits(item.num)) = NrDigits(item.num)
      /\ Hex[item.num] = Digits(item.num)
  BY <1>1, DigitsType, HexIs
<1>3. "0" \in Chars /\ "x" \in Chars
  <2>1. Digit(0) = "0"
    BY DEF Digit, DIGITS
  <2>2. 0 \in 0 .. 15
    OBVIOUS
  <2> QED BY <2>1, <2>2, ConsoleAssumption
<1>4. <<"0", "x">> \in Seq(Chars) /\ Len(<<"0", "x">>) = 2
  BY <1>3
<1>5. /\ <<"0", "x">> \o Digits(item.num) \in Seq(Chars)
      /\ Len(<<"0", "x">> \o Digits(item.num)) = NrDigits(item.num) + 2
  BY <1>1, <1>2, <1>4, ConcatProperties, DigitsType, Sizes
<1> QED
  BY <1>1, <1>2, <1>5, Zenon DEF ItemText

LEMMA TextOfHead ==
  ASSUME NEW f \in Seq(Item)
  PROVE  /\ TextOf(f) \in Seq(Chars)
         /\ f = << >> => TextOf(f) = << >>
         /\ f # << >> => TextOf(f) = ItemText(Head(f)) \o TextOf(Tail(f))
<1> DEFINE Texts(g) == [k \in DOMAIN g |-> ItemText(g[k])]
<1>1. ASSUME NEW g \in Seq(Item)
      PROVE /\ Texts(g) \in Seq(Seq(Chars)) /\ Len(Texts(g)) = Len(g)
            /\ \A k \in 1 .. Len(g) : Texts(g)[k] = ItemText(g[k])
  <2>1. DOMAIN g = 1 .. Len(g) /\ Len(g) \in Nat /\ \A k \in 1 .. Len(g) : g[k] \in Item
    BY LenProperties, ElementOfSeq
  <2>2. \A k \in 1 .. Len(g) : ItemText(g[k]) \in Seq(Chars)
    BY <2>1, ItemTextType
  <2> QED BY <2>1, <2>2
<1>2. TextOf(f) = FlattenSeq(Texts(f)) /\ TextOf(Tail(f)) = FlattenSeq(Texts(Tail(f)))
  BY Zenon DEF TextOf
<1> HIDE DEF Texts
<1>3. Texts(f) \in Seq(Seq(Chars)) /\ FlattenSeq(Texts(f)) \in Seq(Chars)
  BY <1>1, FlattenSeqHead
<1>4. CASE f = << >>
  <2>1. Texts(f) = << >>
    BY <1>1, <1>3, <1>4, EmptySeq
  <2> QED BY <1>2, <1>3, <1>4, <2>1, FlattenSeqHead
<1>5. CASE f # << >>
  <2>1. Tail(f) \in Seq(Item) /\ Head(f) = f[1] /\ Len(f) \in Nat \ {0} /\ Len(Tail(f)) = Len(f) - 1
        /\ \A k \in 1 .. Len(Tail(f)) : Tail(f)[k] = f[k + 1]
    BY <1>5, HeadTailProperties, EmptySeq
  <2>2. Texts(f) # << >>
    BY <1>1, <2>1, EmptySeq
  <2>3. Head(Texts(f)) = ItemText(Head(f))
    BY <1>1, <1>3, <2>1, <2>2
  <2>4. Tail(Texts(f)) = Texts(Tail(f))
    <3> DEFINE a == Tail(Texts(f))
               b == Texts(Tail(f))
    <3>1. /\ a \in Seq(Seq(Chars)) /\ Len(a) = Len(f) - 1
          /\ \A k \in 1 .. Len(a) : a[k] = Texts(f)[k + 1]
      BY <1>1, <1>3, <2>2, HeadTailProperties
    <3>2. /\ b \in Seq(Seq(Chars)) /\ Len(b) = Len(f) - 1
          /\ \A k \in 1 .. Len(b) : b[k] = ItemText(Tail(f)[k])
      BY <1>1, <2>1
    <3> HIDE DEF a, b
    <3>3. ASSUME NEW k \in 1 .. Len(a) PROVE a[k] = b[k]
      <4>1. k + 1 \in 1 .. Len(f) /\ k \in 1 .. Len(b) /\ k \in 1 .. Len(Tail(f))
        BY <2>1, <3>1, <3>2
      <4>2. a[k] = ItemText(f[k + 1]) /\ b[k] = ItemText(Tail(f)[k]) /\ Tail(f)[k] = f[k + 1]
        BY <1>1, <2>1, <3>1, <3>2, <4>1, Zenon
      <4> QED BY <4>2, Zenon
    <3>4. a = b
      BY <3>1, <3>2, <3>3, SeqEqual
    <3> QED BY <3>4 DEF a, b
  <2> QED BY <1>2, <1>3, <1>5, <2>2, <2>3, <2>4, FlattenSeqHead
<1> QED
  BY <1>4, <1>5

------------------------------------------------------------------------------
(***************************************************************************)
(* The lines of a text.                                                    *)
(***************************************************************************)

(* There is a last line, and it is not full. *)
Lines == {ls \in Seq(Seq(Chars)) : ls # << >> /\ Len(Last(ls)) < COLS}

LEMMA LinesParts ==
  ASSUME NEW ls \in Lines
  PROVE  /\ ls \in Seq(Seq(Chars)) /\ Len(ls) \in Nat \ {0}
         /\ \A k \in 1 .. Len(ls) : ls[k] \in Seq(Chars) /\ Len(ls[k]) \in Nat
         /\ Last(ls) = ls[Len(ls)] /\ Len(ls[Len(ls)]) < COLS
<1>1. ls \in Seq(Seq(Chars)) /\ Len(ls) \in Nat \ {0}
  BY EmptySeq DEF Lines
<1>2. \A k \in 1 .. Len(ls) : ls[k] \in Seq(Chars)
  BY <1>1, ElementOfSeq
<1>3. \A k \in 1 .. Len(ls) : Len(ls[k]) \in Nat
  BY <1>2, LenProperties
<1>4. Last(ls) = ls[Len(ls)]
  BY Zenon DEF Last
<1> QED
  BY <1>1, <1>2, <1>3, <1>4 DEF Lines

(* An empty line behind the others. *)
LEMMA LinesNewLine ==
  ASSUME NEW ls \in Seq(Seq(Chars))
  PROVE  /\ Append(ls, << >>) \in Lines /\ Len(Append(ls, << >>)) = Len(ls) + 1
         /\ \A k \in 1 .. Len(ls) : Append(ls, << >>)[k] = ls[k]
         /\ Append(ls, << >>)[Len(ls) + 1] = << >>
<1> DEFINE ms == Append(ls, << >>)
<1>1. << >> \in Seq(Chars) /\ Len(<< >>) = 0 /\ Len(ls) \in Nat
  BY EmptySeq, LenProperties
<1>2. /\ ms \in Seq(Seq(Chars)) /\ Len(ms) = Len(ls) + 1 /\ ms[Len(ls) + 1] = << >>
      /\ \A k \in 1 .. Len(ls) : ms[k] = ls[k]
  BY <1>1, AppendProperties
<1> HIDE DEF ms
<1>3. ms # << >> /\ Last(ms) = << >>
  BY <1>1, <1>2, EmptySeq DEF Last
<1>4. ms \in Lines
  BY <1>1, <1>2, <1>3, Sizes DEF Lines
<1> QED
  BY <1>2, <1>4 DEF ms

(* A character behind the last line. *)
LEMMA WithCharacterParts ==
  ASSUME NEW ls \in Lines, NEW c \in Chars
  PROVE  LET ms == WithCharacter(ls, c)
             n == Len(ls)
         IN /\ ms \in Seq(Seq(Chars)) /\ Len(ms) = n
            /\ \A k \in 1 .. n - 1 : ms[k] = ls[k]
            /\ Len(ms[n]) = Len(ls[n]) + 1 /\ ms[n][Len(ls[n]) + 1] = c
            /\ \A k \in 1 .. Len(ls[n]) : ms[n][k] = ls[n][k]
<1> DEFINE ms == WithCharacter(ls, c)
           n == Len(ls)
           l == ls[n]
           m == Append(l, c)
<1>1. ls \in Seq(Seq(Chars)) /\ n \in Nat \ {0} /\ l \in Seq(Chars)
  BY LinesParts
<1>2. /\ m \in Seq(Chars) /\ Len(m) = Len(l) + 1 /\ m[Len(l) + 1] = c
      /\ \A k \in 1 .. Len(l) : m[k] = l[k]
  BY <1>1, AppendProperties
<1>3. ms = [ls EXCEPT ![n] = m]
  BY Zenon DEF WithCharacter
<1> HIDE DEF ms, m
<1>4. /\ ms \in Seq(Seq(Chars)) /\ Len(ms) = n
      /\ \A k \in 1 .. n : ms[k] = IF k = n THEN m ELSE ls[k]
  BY <1>1, <1>2, <1>3, ExceptSeq
<1>5. ms[n] = m /\ \A k \in 1 .. n - 1 : ms[k] = ls[k]
  BY <1>1, <1>4
<1> QED
  BY <1>2, <1>4, <1>5 DEF ms

LEMMA NextLinesType ==
  ASSUME NEW ls \in Lines, NEW c \in Chars
  PROVE  NextLines(ls, c) \in Lines
<1> DEFINE ms == WithCharacter(ls, c)
<1>1. ls \in Seq(Seq(Chars)) /\ Len(ls) \in Nat \ {0} /\ Last(ls) = ls[Len(ls)]
  BY LinesParts
<1>2. ms \in Seq(Seq(Chars)) /\ Len(ms) = Len(ls) /\ Len(ms[Len(ls)]) = Len(ls[Len(ls)]) + 1
  BY WithCharacterParts
<1> HIDE DEF ms
<1>3. Append(ls, << >>) \in Lines /\ Append(ms, << >>) \in Lines
  BY <1>1, <1>2, LinesNewLine
<1>4. ASSUME Len(Last(ls)) + 1 < COLS PROVE ms \in Lines
  <2>1. Last(ms) = ms[Len(ls)] /\ ms # << >>
    BY <1>1, <1>2, EmptySeq DEF Last
  <2> QED BY <1>1, <1>2, <1>4, <2>1 DEF Lines
<1> QED
  BY <1>3, <1>4, Zenon DEF NextLines, ms

IsLines(f, text) ==
  f = [n \in 0 .. Len(text) |-> IF n = 0 THEN << << >> >> ELSE NextLines(f[n - 1], text[n])]

LEMMA LinesRecursion ==
  ASSUME NEW text \in Seq(Chars)
  PROVE  \E f \in [0 .. Len(text) -> Lines] :
           /\ LinesOf(text) = f[Len(text)]
           /\ f[0] = << << >> >>
           /\ \A n \in 1 .. Len(text) : f[n] = NextLines(f[n - 1], text[n])
<1> DEFINE N == Len(text)
           step == [p \in (1 .. N) \X Lines |-> NextLines(p[2], text[p[1]])]
           base == << << >> >>
           next(f, n) == IF n = 0 THEN base ELSE NextLines(f[n - 1], text[n])
<1>1. N \in Nat /\ \A n \in 1 .. N : text[n] \in Chars
  BY LenProperties, ElementOfSeq
<1>2. base \in Lines
  <2>1. << >> \in Seq(Seq(Chars)) /\ Append(<< >>, << >>) = base
    OBVIOUS
  <2> QED BY <2>1, LinesNewLine
<1> HIDE DEF N, base
<1>3. step \in [(1 .. N) \X Lines -> Lines]
  <2> SUFFICES ASSUME NEW p \in (1 .. N) \X Lines PROVE NextLines(p[2], text[p[1]]) \in Lines
    BY Zenon
  <2>1. p[1] \in 1 .. N /\ p[2] \in Lines
    OBVIOUS
  <2> QED BY <1>1, <2>1, NextLinesType, Zenon
<1>4. ASSUME NEW n \in 1 .. N, NEW v \in Lines PROVE step[<<n, v>>] = NextLines(v, text[n])
  <2>1. <<n, v>> \in (1 .. N) \X Lines /\ <<n, v>>[1] = n /\ <<n, v>>[2] = v
    OBVIOUS
  <2>2. step[<<n, v>>] = NextLines(<<n, v>>[2], text[<<n, v>>[1]])
    BY <2>1, Zenon
  <2> QED BY <2>1, <2>2, Zenon
<1> HIDE DEF step
<1>5. PICK g \in [0 .. N -> Lines] : IsRecursion(g, N, base, step)
  BY <1>1, <1>2, <1>3, RecursionExists, Zenon
<1>6. ASSUME NEW n \in 0 .. N PROVE g[n] = next(g, n)
  <2>1. CASE n = 0
    BY <1>5, <2>1 DEF IsRecursion
  <2>2. CASE n # 0
    <3>1. n \in 1 .. N /\ n - 1 \in 0 .. N
      BY <1>1, <2>2
    <3>2. g[n] = step[<<n, g[n - 1]>>] /\ g[n - 1] \in Lines
      BY <1>5, <3>1 DEF IsRecursion
    <3> QED BY <1>4, <2>2, <3>1, <3>2, Zenon
  <2> QED BY <2>1, <2>2
<1>7. IsLines(g, text)
  <2> HIDE DEF next
  <2>1. g = [n \in 0 .. N |-> next(g, n)]
    BY <1>5, <1>6
  <2> QED BY <2>1, Zenon DEF IsLines, next, N, base
<1> DEFINE f == CHOOSE h : IsLines(h, text)
<1>8. IsLines(f, text)
  BY <1>7, Zenon
<1>9. LinesOf(text) = f[N]
  BY Zenon DEF LinesOf, IsLines, N
<1> HIDE DEF f
<1>10. \A n \in 0 .. N : f[n] = next(f, n)
  <2>1. f = [n \in 0 .. N |-> next(f, n)]
    BY <1>8, Zenon DEF IsLines, N, base
  <2> HIDE DEF next
  <2> QED BY <2>1, Zenon
<1>11. f[0] = base /\ \A n \in 1 .. N : f[n] = NextLines(f[n - 1], text[n])
  <2>1. 0 \in 0 .. N /\ \A n \in 1 .. N : n \in 0 .. N /\ n # 0
    BY <1>1
  <2> QED BY <1>10, <2>1, Zenon
<1>12. \A n \in 0 .. N : f[n] \in Lines
  <2> DEFINE S == {n \in 0 .. N : f[n] \in Lines}
  <2>1. 0 \in S
    BY <1>1, <1>2, <1>11
  <2>2. ASSUME NEW n \in 1 .. N, n - 1 \in S PROVE n \in S
    <3>1. f[n] \in Lines
      BY <1>1, <1>11, <2>2, NextLinesType
    <3> QED BY <3>1
  <2> HIDE DEF S
  <2>3. 0 .. N \subseteq S
    BY <1>1, <2>1, <2>2, SetInductionUpTo
  <2> QED BY <2>3 DEF S
<1>13. f \in [0 .. N -> Lines]
  <2>1. f = [n \in 0 .. N |-> next(f, n)]
    BY <1>8, Zenon DEF IsLines, N, base
  <2> HIDE DEF next
  <2>2. f = [n \in 0 .. N |-> f[n]]
    BY <2>1
  <2> QED BY <1>12, <2>2
<1> QED
  BY <1>9, <1>11, <1>13, Zenon DEF N, base

(* The next character of a text is the next of its lines. *)
LEMMA LinesOfAppend ==
  /\ LinesOf(<< >>) = << << >> >>
  /\ \A text \in Seq(Chars) : LinesOf(text) \in Lines
  /\ \A text \in Seq(Chars), c \in Chars :
       LinesOf(Append(text, c)) = NextLines(LinesOf(text), c)
<1>1. LinesOf(<< >>) = << << >> >>
  <2>1. << >> \in Seq(Chars) /\ Len(<< >>) = 0
    OBVIOUS
  <2> QED BY <2>1, LinesRecursion
<1>2. ASSUME NEW text \in Seq(Chars) PROVE LinesOf(text) \in Lines
  <2>1. Len(text) \in 0 .. Len(text)
    BY LenProperties
  <2> QED BY <2>1, LinesRecursion
<1>3. ASSUME NEW text \in Seq(Chars), NEW c \in Chars
      PROVE LinesOf(Append(text, c)) = NextLines(LinesOf(text), c)
  <2> DEFINE more == Append(text, c)
             N == Len(text)
  <2>1. /\ N \in Nat /\ more \in Seq(Chars) /\ Len(more) = N + 1 /\ more[N + 1] = c
        /\ \A n \in 1 .. N : more[n] = text[n]
    BY LenProperties, AppendProperties
  <2>2. PICK f \in [0 .. N -> Lines] :
          /\ LinesOf(text) = f[N] /\ f[0] = << << >> >>
          /\ \A n \in 1 .. N : f[n] = NextLines(f[n - 1], text[n])
    BY LinesRecursion
  <2> HIDE DEF more, N
  <2>3. PICK g \in [0 .. N + 1 -> Lines] :
          /\ LinesOf(more) = g[N + 1] /\ g[0] = << << >> >>
          /\ \A n \in 1 .. N + 1 : g[n] = NextLines(g[n - 1], more[n])
    <3>1. more \in Seq(Chars) /\ Len(more) = N + 1
      BY <2>1
    <3> QED BY <3>1, LinesRecursion, SMTT(30)
  <2>4. g[0] = f[0]
    BY <2>2, <2>3, Zenon
  <2>5. ASSUME NEW n \in 1 .. N, g[n - 1] = f[n - 1] PROVE g[n] = f[n]
    <3>1. n \in 1 .. N + 1
      BY <2>1
    <3> QED BY <2>1, <2>2, <2>3, <2>5, <3>1, Zenon
  <2>6. g[N] = f[N]
    <3>1. StepAlike(g, f, N)
      BY <2>4, <2>5, Zenon DEF StepAlike
    <3>2. N \in Nat
      BY <2>1
    <3>3. \A n \in 0 .. N : g[n] = f[n]
      BY <3>1, <3>2, RecursionUnique
    <3> QED BY <3>2, <3>3
  <2>7. g[N + 1] = NextLines(g[N], c)
    <3>1. N + 1 \in 1 .. N + 1 /\ (N + 1) - 1 = N
      BY <2>1
    <3>2. g[N + 1] = NextLines(g[(N + 1) - 1], more[N + 1])
      BY <2>3, <3>1, Zenon
    <3> QED BY <2>1, <3>1, <3>2, Zenon
  <2> QED BY <2>2, <2>3, <2>6, <2>7, Zenon DEF more
<1> QED
  BY <1>1, <1>2, <1>3

------------------------------------------------------------------------------
(***************************************************************************)
(* The screen.                                                             *)
(***************************************************************************)
Rows == 0 .. LINES - 1
Columns == 0 .. COLS - 1

(* Every row and column has a cell of its own; the cells of the last row are
   the last ones. *)
LEMMA CellParts ==
  ASSUME NEW row \in Rows, NEW col \in Columns
  PROVE  /\ col + COLS * row \in Cells
         /\ col + COLS * row < (LINES - 1) * COLS <=> row < LINES - 1
         /\ (col + COLS * row) + COLS = col + COLS * (row + 1)
<1>1. row \in Nat /\ col \in Nat /\ col < COLS /\ row <= LINES - 1 /\ COLS * row \in Nat
  BY Sizes DEF Rows, Columns
<1>2. COLS * (row + 1) = COLS * row + COLS
  BY <1>1, Sizes
<1>3. COLS * (row + 1) <= COLS * LINES /\ COLS * LINES \in Nat
  <2>1. row + 1 <= LINES /\ row + 1 \in Nat
    BY <1>1, Sizes
  <2> QED BY <2>1, Sizes
<1>4. COLS * LINES = (LINES - 1) * COLS + COLS /\ (LINES - 1) * COLS \in Nat
  BY Sizes
<1>5. ASSUME row < LINES - 1 PROVE COLS * (row + 1) <= (LINES - 1) * COLS
  <2>1. row + 1 <= LINES - 1 /\ row + 1 \in Nat /\ LINES - 1 \in Nat
    BY <1>1, <1>5, Sizes
  <2> QED BY <2>1, Sizes
<1>6. ASSUME ~ (row < LINES - 1) PROVE COLS * row = (LINES - 1) * COLS
  <2>1. row = LINES - 1
    BY <1>1, <1>6, Sizes
  <2> QED BY <2>1, Sizes
<1>7. col + COLS * row \in Cells
  BY <1>1, <1>2, <1>3, Sizes DEF Cells
<1> QED
  BY <1>1, <1>2, <1>4, <1>5, <1>6, <1>7, Sizes

LEMMA CellUnique ==
  ASSUME NEW r1 \in Rows, NEW c1 \in Columns, NEW r2 \in Rows, NEW c2 \in Columns,
         c1 + COLS * r1 = c2 + COLS * r2
  PROVE  r1 = r2 /\ c1 = c2
<1>1. ASSUME NEW a \in Rows, NEW b \in Rows, NEW c \in Columns, NEW d \in Columns, a < b
      PROVE  c + COLS * a < d + COLS * b
  <2>1. a \in Nat /\ b \in Nat /\ a + 1 <= b /\ c \in Nat /\ d \in Nat /\ c < COLS
    BY <1>1, Sizes DEF Rows, Columns
  <2>2. COLS * (a + 1) <= COLS * b
    BY <2>1, Sizes
  <2>3. COLS * (a + 1) = COLS * a + COLS /\ COLS * a \in Nat /\ COLS * b \in Nat
    BY <2>1, Sizes
  <2> QED BY <2>1, <2>2, <2>3, Sizes
<1>2. r1 \in Nat /\ r2 \in Nat /\ c1 \in Nat /\ c2 \in Nat
  BY Sizes DEF Rows, Columns
<1>3. COLS * r1 \in Nat /\ COLS * r2 \in Nat
  BY <1>2, Sizes
<1>4. ~ (r1 < r2)
  BY <1>1, <1>2, <1>3
<1>5. ~ (r2 < r1)
  BY <1>1, <1>2, <1>3
<1>6. r1 = r2
  BY <1>2, <1>4, <1>5
<1> QED
  BY <1>2, <1>3, <1>6

(* The line that a row shows. *)
LineOf(ls, row) == row + IF Len(ls) > LINES THEN Len(ls) - LINES ELSE 0

(* The row with the last line. *)
LastRow(ls) == (IF Len(ls) > LINES THEN LINES ELSE Len(ls)) - 1

Shows(scr, ls) ==
  \A row \in Rows, col \in Columns : scr[col + COLS * row] = Shown(ls, row, col)

LEMMA ShownIs ==
  ASSUME NEW ls, NEW row, NEW col
  PROVE  Shown(ls, row, col) =
           IF LineOf(ls, row) < Len(ls) /\ col < Len(ls[LineOf(ls, row) + 1])
           THEN ls[LineOf(ls, row) + 1][col + 1]
           ELSE IF LineOf(ls, row) < LINES THEN first[col + COLS * LineOf(ls, row)] ELSE " "
BY Zenon DEF Shown, LineOf

LEMMA LastRowIs ==
  ASSUME NEW ls, Len(ls) \in Nat \ {0}
  PROVE  LastRow(ls) \in Rows /\ \A row \in Rows : LineOf(ls, row) + 1 = Len(ls) <=> row = LastRow(ls)
BY Sizes DEF LastRow, LineOf, Rows

(* A character is put behind the last line. *)
LEMMA ShowsCharacter ==
  ASSUME NEW ls \in Lines, NEW c \in Chars, NEW scr, DOMAIN scr = Cells, Shows(scr, ls)
  PROVE  Shows([scr EXCEPT ![Len(ls[Len(ls)]) + COLS * LastRow(ls)] = c], WithCharacter(ls, c))
<1> DEFINE n == Len(ls)
           xx == Len(ls[n])
           yy == LastRow(ls)
           ms == WithCharacter(ls, c)
           new == [scr EXCEPT ![xx + COLS * yy] = c]
<1>1. n \in Nat \ {0} /\ xx \in Columns /\ \A k \in 1 .. n : Len(ls[k]) \in Nat
  BY LinesParts, Sizes DEF Columns
<1>2. /\ Len(ms) = n /\ \A k \in 1 .. n - 1 : ms[k] = ls[k]
      /\ Len(ms[n]) = xx + 1 /\ ms[n][xx + 1] = c
      /\ \A k \in 1 .. xx : ms[n][k] = ls[n][k]
  BY WithCharacterParts
<1>3. yy \in Rows /\ \A row \in Rows : LineOf(ls, row) + 1 = n <=> row = yy
  BY <1>1, LastRowIs
<1>4. \A row : LineOf(ms, row) = LineOf(ls, row)
  BY <1>2 DEF LineOf
<1> HIDE DEF n, xx, yy, ms
<1>5. ASSUME NEW row \in Rows, NEW col \in Columns
      PROVE  new[col + COLS * row] = Shown(ms, row, col)
  <2> DEFINE line == LineOf(ls, row)
  <2>1. line \in Nat /\ col \in Nat /\ xx \in Nat
    BY <1>1, Sizes DEF LineOf, Rows, Columns, n
  <2>2. Shown(ms, row, col) =
          IF line < n /\ col < Len(ms[line + 1]) THEN ms[line + 1][col + 1]
          ELSE IF line < LINES THEN first[col + COLS * line] ELSE " "
    <3> HIDE DEF line
    <3>1. LineOf(ms, row) = line
      BY <1>4 DEF line
    <3> QED BY <1>2, <3>1, ShownIs
  <2>3. Shown(ls, row, col) =
          IF line < n /\ col < Len(ls[line + 1]) THEN ls[line + 1][col + 1]
          ELSE IF line < LINES THEN first[col + COLS * line] ELSE " "
    <3> HIDE DEF line
    <3> QED BY ShownIs, Zenon DEF n, line
  <2>4. scr[col + COLS * row] = Shown(ls, row, col)
    BY Zenon DEF Shows
  <2>5. col + COLS * row \in Cells
    BY CellParts
  <2>6. line + 1 = n <=> row = yy
    BY <1>3
  <2> HIDE DEF line
  <2>7. CASE row = yy /\ col = xx
    <3>1. new[col + COLS * row] = c
      BY <2>5, <2>7
    <3>2. line < n /\ col < Len(ms[line + 1]) /\ ms[line + 1][col + 1] = c
      BY <1>1, <1>2, <2>1, <2>6, <2>7
    <3> QED BY <2>2, <3>1, <3>2, Zenon
  <2>8. CASE ~ (row = yy /\ col = xx)
    <3>1. col + COLS * row # xx + COLS * yy
      BY <1>1, <1>3, <2>8, CellUnique
    <3>2. new[col + COLS * row] = scr[col + COLS * row]
      BY <2>5, <3>1
    <3>3. CASE line + 1 = n
      <4>1. row = yy /\ col # xx
        BY <2>6, <2>8, <3>3
      <4>2. col < Len(ms[line + 1]) <=> col < Len(ls[line + 1])
        BY <1>2, <2>1, <3>3, <4>1 DEF xx
      <4>3. col < Len(ls[line + 1]) => ms[line + 1][col + 1] = ls[line + 1][col + 1]
        <5>1. ASSUME col < xx PROVE col + 1 \in 1 .. xx
          BY <2>1, <5>1
        <5> QED BY <1>2, <3>3, <5>1 DEF xx
      <4> QED BY <2>2, <2>3, <2>4, <3>2, <4>2, <4>3, Zenon
    <3>4. CASE line + 1 # n
      <4>1. line < n => ms[line + 1] = ls[line + 1]
        BY <1>1, <1>2, <2>1, <3>4
      <4> QED BY <2>2, <2>3, <2>4, <3>2, <4>1, Zenon
    <3> QED BY <3>3, <3>4
  <2> QED BY <2>7, <2>8
<1>6. Shows(new, ms)
  <2> HIDE DEF new
  <2> QED BY <1>5, Zenon DEF Shows
<1> QED
  BY <1>6 DEF n, xx, yy, ms

(* A line is begun, with the screen moved up where it was full. *)
LEMMA ShowsNewLine ==
  ASSUME NEW ls \in Seq(Seq(Chars)), Len(ls) # 0, NEW scr, DOMAIN scr = Cells, Shows(scr, ls)
  PROVE  Shows(IF Len(ls) >= LINES THEN scroll(scr) ELSE scr, Append(ls, << >>))
<1> DEFINE n == Len(ls)
           ms == Append(ls, << >>)
           new == IF n >= LINES THEN scroll(scr) ELSE scr
<1>1. n \in Nat \ {0}
  BY LenProperties
<1>2. Len(ms) = n + 1 /\ ms[n + 1] = << >> /\ \A k \in 1 .. n : ms[k] = ls[k]
  BY LinesNewLine
<1> HIDE DEF n, ms
<1>3. ASSUME NEW row \in Rows, NEW col \in Columns
      PROVE  new[col + COLS * row] = Shown(ms, row, col)
  <2> DEFINE line == LineOf(ms, row)
             up == IF n >= LINES THEN row + 1 ELSE row
  <2>1. row \in Nat /\ row <= LINES - 1 /\ col \in Nat /\ LINES \in Nat \ {0} /\ COLS \in Nat
    BY Sizes DEF Rows, Columns
  <2>2. line \in Nat /\ LineOf(ls, up) = line /\ (n >= LINES /\ row = LINES - 1 => line = n)
    <3>1. line = row + IF n + 1 > LINES THEN n + 1 - LINES ELSE 0
      <4>1. line = row + IF Len(ms) > LINES THEN Len(ms) - LINES ELSE 0
        BY Zenon DEF LineOf
      <4>2. Len(ms) = n + 1
        BY <1>2
      <4> HIDE DEF line
      <4> QED BY <1>1, <2>1, <4>1, <4>2
    <3>2. LineOf(ls, up) = up + IF n > LINES THEN n - LINES ELSE 0
      BY Zenon DEF LineOf, n
    <3>3. CASE n >= LINES
      <4>1. up = row + 1
        BY <3>3
      <4> HIDE DEF up, line
      <4>2. line = row + (n + 1 - LINES) /\ LineOf(ls, up) = row + 1 + (n - LINES)
        BY <1>1, <2>1, <3>1, <3>2, <3>3, <4>1
      <4> QED BY <1>1, <2>1, <3>3, <4>2
    <3>4. CASE ~ (n >= LINES)
      <4>1. up = row
        BY <3>4
      <4> HIDE DEF up, line
      <4>2. line = row /\ LineOf(ls, up) = row
        BY <1>1, <2>1, <3>1, <3>2, <3>4, <4>1
      <4> QED BY <1>1, <2>1, <3>4, <4>2
    <3> QED BY <3>3, <3>4
  <2>3. Shown(ms, row, col) =
          IF line < n + 1 /\ col < Len(ms[line + 1]) THEN ms[line + 1][col + 1]
          ELSE IF line < LINES THEN first[col + COLS * line] ELSE " "
    <3> HIDE DEF line
    <3> QED BY <1>2, ShownIs DEF line
  <2>4. LineOf(ls, up) = line
    BY <2>2
  <2> HIDE DEF line
  <2>5. Shown(ls, up, col) =
          IF line < n /\ col < Len(ls[line + 1]) THEN ls[line + 1][col + 1]
          ELSE IF line < LINES THEN first[col + COLS * line] ELSE " "
    <3> HIDE DEF up
    <3> QED BY <2>4, ShownIs DEF n
  <2>6. Shown(ms, row, col) = Shown(ls, up, col)
    <3>1. CASE line = n
      <4>1. Len(ms[line + 1]) = 0 /\ ~ (line < n)
        BY <1>1, <1>2, <3>1, EmptySeq
      <4>2. ~ (col < Len(ms[line + 1]))
        BY <2>1, <4>1
      <4> QED BY <2>3, <2>5, <4>1, <4>2, Zenon
    <3>2. CASE line < n
      <4>1. line < n + 1 /\ line + 1 \in 1 .. n
        BY <1>1, <2>2, <3>2
      <4>2. ms[line + 1] = ls[line + 1]
        BY <1>2, <4>1
      <4> QED BY <2>3, <2>5, <3>2, <4>1, <4>2, Zenon
    <3>3. CASE line > n
      <4>1. ~ (line < n + 1) /\ ~ (line < n)
        BY <1>1, <2>2, <3>3
      <4> QED BY <2>3, <2>5, <4>1, Zenon
    <3> QED BY <1>1, <2>2, <3>1, <3>2, <3>3
  <2>7. CASE n < LINES
    <3>1. new = scr /\ up = row
      BY <1>1, <2>1, <2>7
    <3>2. scr[col + COLS * row] = Shown(ls, row, col)
      BY Zenon DEF Shows
    <3> HIDE DEF new, up
    <3> QED BY <2>6, <3>1, <3>2, Zenon
  <2>8. CASE n >= LINES
    <3>1. new = scroll(scr) /\ up = row + 1
      BY <2>8
    <3> HIDE DEF new, up
    <3>2. /\ col + COLS * row \in Cells
          /\ col + COLS * row < (LINES - 1) * COLS <=> row < LINES - 1
          /\ (col + COLS * row) + COLS = col + COLS * (row + 1)
      BY CellParts
    <3>3. CASE row < LINES - 1
      <4>1. new[col + COLS * row] = scr[(col + COLS * row) + COLS]
        BY <3>1, <3>2, <3>3, Zenon DEF scroll
      <4>2. row + 1 \in Rows
        BY <2>1, <3>3 DEF Rows
      <4>3. scr[col + COLS * (row + 1)] = Shown(ls, row + 1, col)
        BY <4>2, Zenon DEF Shows
      <4> QED BY <2>6, <3>1, <3>2, <4>1, <4>3, Zenon
    <3>4. CASE ~ (row < LINES - 1)
      <4>1. new[col + COLS * row] = " "
        BY <3>1, <3>2, <3>4, Zenon DEF scroll
      <4>2. line = n
        BY <1>1, <2>1, <2>2, <2>8, <3>4
      <4>3. ~ (line < n) /\ ~ (line < LINES)
        BY <1>1, <2>1, <2>8, <4>2
      <4> QED BY <2>5, <2>6, <4>1, <4>3, Zenon
    <3> QED BY <3>3, <3>4
  <2> QED BY <1>1, <2>1, <2>7, <2>8
<1>4. Shows(new, ms)
  <2> HIDE DEF new
  <2> QED BY <1>3, Zenon DEF Shows
<1> QED
  BY <1>4 DEF n, ms

(* The cursor is behind the last line, and the screen shows the lines. *)
OnScreen(put) ==
  LET ls == LinesOf(put)
  IN /\ x = Len(ls[Len(ls)]) /\ y = LastRow(ls)
     /\ Shows(screen, ls)

(* putstr puts one character more. *)
LEMMA PutCharacter ==
  ASSUME NEW put \in Seq(Chars), NEW c \in Chars, putstr, c = Head(src),
         DOMAIN screen = Cells, OnScreen(put)
  PROVE  OnScreen(Append(put, c))'
<1> DEFINE ls == LinesOf(put)
           n == Len(ls)
           ms == NextLines(ls, c)
           written == WithCharacter(ls, c)
<1>1. ls \in Lines /\ LinesOf(Append(put, c)) = ms
  BY LinesOfAppend
<1>2. x = Len(ls[n]) /\ y = LastRow(ls) /\ Shows(screen, ls)
  BY Zenon DEF OnScreen
<1>3. /\ screen' = IF Scrolls(c) THEN scroll(WithChar(c)) ELSE WithChar(c)
      /\ x' = IF Wraps(c) THEN 0 ELSE x + 1
      /\ y' = IF Wraps(c) /\ ~ Scrolls(c) THEN y + 1 ELSE y
      /\ first' = first
  BY Zenon DEF putstr
<1> HIDE DEF ls
<1>4. /\ ls \in Seq(Seq(Chars)) /\ n \in Nat \ {0} /\ x \in Nat /\ x < COLS
      /\ Last(ls) = ls[n]
  BY <1>1, <1>2, LinesParts
<1>5. y \in Nat /\ (y + 1 >= LINES <=> n >= LINES) /\ (n < LINES => y + 1 = n) /\ (n >= LINES => y = LINES - 1)
  BY <1>2, <1>4, Sizes DEF LastRow
<1>6. /\ written \in Seq(Seq(Chars)) /\ Len(written) = n /\ Len(written[n]) = x + 1
  BY <1>1, <1>2, WithCharacterParts
<1>7. ASSUME c # "\n"
      PROVE  /\ WithChar(c) = [screen EXCEPT ![x + COLS * y] = c]
             /\ DOMAIN WithChar(c) = Cells /\ Shows(WithChar(c), written)
  <2>1. WithChar(c) = [screen EXCEPT ![x + COLS * y] = c]
    BY <1>7, Zenon DEF WithChar
  <2>2. DOMAIN [screen EXCEPT ![x + COLS * y] = c] = Cells
    BY Zenon
  <2>3. Shows([screen EXCEPT ![Len(ls[n]) + COLS * LastRow(ls)] = c], written)
    BY <1>1, <1>2, ShowsCharacter, Zenon
  <2> QED BY <1>2, <2>1, <2>2, <2>3, Zenon
<1> HIDE DEF written
<1>8. ASSUME NEW l \in Seq(Seq(Chars)), Len(l) = n, Wraps(c), ms = Append(l, << >>),
             DOMAIN WithChar(c) = Cells, Shows(WithChar(c), l)
      PROVE  x' = Len(ms[Len(ms)]) /\ y' = LastRow(ms) /\ Shows(screen', ms)
  <2>1. Len(ms) = n + 1 /\ ms[n + 1] = << >>
    BY <1>8, LinesNewLine
  <2>2. Shows(IF Len(l) >= LINES THEN scroll(WithChar(c)) ELSE WithChar(c), Append(l, << >>))
    BY <1>4, <1>8, ShowsNewLine
  <2>3. Scrolls(c) <=> n >= LINES
    BY <1>5, <1>8, Zenon DEF Scrolls
  <2>4. Shows(screen', ms)
    BY <1>3, <1>8, <2>2, <2>3, Zenon
  <2>5. x' = Len(ms[Len(ms)])
    BY <1>3, <1>8, <2>1, EmptySeq
  <2>6. y' = LastRow(ms)
    <3> HIDE DEF ms
    <3>1. CASE n >= LINES
      <4>1. y' = y
        BY <1>3, <1>8, <2>3, <3>1
      <4>2. Len(ms) > LINES /\ y = LINES - 1
        BY <1>4, <1>5, <2>1, <3>1, Sizes
      <4>3. LastRow(ms) = LINES - 1
        BY <4>2, Zenon DEF LastRow
      <4> QED BY <4>1, <4>2, <4>3, Zenon
    <3>2. CASE ~ (n >= LINES)
      <4>1. y' = y + 1
        BY <1>3, <1>8, <2>3, <3>2
      <4> QED BY <1>4, <1>5, <2>1, <3>2, <4>1, Sizes DEF LastRow
    <3> QED BY <3>1, <3>2
  <2> QED BY <2>4, <2>5, <2>6
<1>9. x' = Len(ms[Len(ms)]) /\ y' = LastRow(ms) /\ Shows(screen', ms)
  <2>1. CASE c = "\n"
    <3>1. ms = Append(ls, << >>) /\ Wraps(c) /\ WithChar(c) = screen
      BY <2>1, Zenon DEF NextLines, Wraps, WithChar
    <3> QED BY <1>2, <1>4, <1>8, <3>1, Zenon
  <2>2. CASE c # "\n" /\ x + 1 < COLS
    <3>1. ms = written /\ ~ Wraps(c)
      BY <1>2, <1>4, <2>2, Sizes DEF NextLines, Wraps, written
    <3>2. ~ Scrolls(c)
      BY <3>1, Zenon DEF Scrolls
    <3>3. LastRow(written) = LastRow(ls)
      BY <1>6, Zenon DEF LastRow
    <3> HIDE DEF ms
    <3> QED BY <1>2, <1>3, <1>6, <1>7, <2>2, <3>1, <3>2, <3>3, Zenon
  <2>3. CASE c # "\n" /\ ~ (x + 1 < COLS)
    <3>1. ms = Append(written, << >>) /\ Wraps(c)
      BY <1>2, <1>4, <2>3, Sizes DEF NextLines, Wraps, written
    <3> HIDE DEF ms
    <3> QED BY <1>6, <1>7, <1>8, <2>3, <3>1, Zenon
  <2> QED BY <2>1, <2>2, <2>3
<1> HIDE DEF ms
<1>10. Shows(screen, ms)'
  <2>1. \A row, col : Shown(ms, row, col)' = Shown(ms, row, col)
    BY <1>3, Zenon DEF Shown
  <2> QED BY <1>9, <2>1, Zenon DEF Shows
<1> QED
  BY <1>1, <1>9, <1>10, Zenon DEF OnScreen

------------------------------------------------------------------------------
(***************************************************************************)
(* The types: the screen keeps its cells and the memory its addresses, and *)
(* what is printed are formats of known characters.                        *)
(***************************************************************************)
TypeInv ==
  /\ pc \in {"ready", "vsnprintf", "putstr", "fatal", "dead"}
  /\ DOMAIN screen = Cells /\ DOMAIN mem = Addresses
  /\ fmt \in Seq(Item) /\ pending \in Seq(Seq(Item))
  /\ j \in Nat /\ asked \in Seq(Chars)

(* FATAL FAILURE: vsnprintf *)
LEMMA FatalTextType == FatalPrefix \o <<"vsnprintf">> \in Seq(Chars)
<1>1. FatalPrefix \in Seq(Chars) /\ <<"vsnprintf">> \in Seq(Chars)
  BY ConsoleAssumption
<1> QED
  BY <1>1, ConcatProperties

(* The formats of print_binary are formats. *)
LEMMA BinaryFormatsType ==
  ASSUME NEW bytes \in Dumps
  PROVE  BinaryFormats(bytes) \in Seq(Seq(Item))
<1>1. ASSUME NEW s \in Seq(Chars) PROVE << Text(s) >> \in Seq(Item)
  <2>1. Text(s) \in Item
    <3>1. 0 \in 0 .. Worth[MaxDigits] - 1
      BY WorthType, Sizes
    <3> QED BY <3>1 DEF Text, Item
  <2> QED BY <2>1
<1>2. <<" ">> \in Seq(Chars) /\ <<"\n">> \in Seq(Chars)
  BY ConsoleAssumption
<1>3. ASSUME NEW byte \in 0 .. 255, NEW b \in 1 .. 8
      PROVE << Text(<< Digit(BitOf(byte, b)) >>) >> \in Seq(Item)
  <2> DEFINE w == << 1, 2, 4, 8, 16, 32, 64, 128 >>[b]
             d == BitOf(byte, b)
  <2>1. w \in Nat \ {0}
    OBVIOUS
  <2> HIDE DEF w
  <2>2. d = (byte \div w) % 2
    BY Zenon DEF BitOf, w
  <2>3. byte \div w \in Nat
    BY <2>1, DivMod
  <2> HIDE DEF d
  <2>4. d \in 0 .. 15
    BY <2>2, <2>3
  <2>5. Digit(d) \in Chars
    BY <2>4, ConsoleAssumption
  <2>6. << Digit(d) >> \in Seq(Chars)
    BY <2>5
  <2> QED BY <1>1, <2>6 DEF d
<1>4. ASSUME NEW byte \in 0 .. 255, NEW k \in Nat PROVE ByteFormats(byte, k) \in Seq(Seq(Item))
  <2> DEFINE bits == [b \in 1 .. 8 |-> << Text(<< Digit(BitOf(byte, b)) >>) >>]
             space == << << Text(<<" ">>) >> >>
             end == IF (k - 1) % 4 = 3 THEN << << Text(<<"\n">>) >> >> ELSE << >>
  <2>1. bits \in Seq(Seq(Item))
    <3> DEFINE f(b) == << Text(<< Digit(BitOf(byte, b)) >>) >>
    <3>1. \A b \in 1 .. 8 : f(b) \in Seq(Item)
      BY <1>3
    <3> HIDE DEF f
    <3>2. [b \in 1 .. 8 |-> f(b)] \in Seq(Seq(Item))
      BY <3>1
    <3> QED BY <3>2 DEF f
  <2>2. space \in Seq(Seq(Item))
    <3> DEFINE f == << Text(<<" ">>) >>
    <3>1. f \in Seq(Item)
      BY <1>1, <1>2
    <3> HIDE DEF f
    <3>2. << f >> \in Seq(Seq(Item))
      BY <3>1
    <3> QED BY <3>2 DEF f
  <2>3. end \in Seq(Seq(Item))
    <3> DEFINE f == << Text(<<"\n">>) >>
    <3>1. f \in Seq(Item)
      BY <1>1, <1>2
    <3> HIDE DEF f
    <3>2. << f >> \in Seq(Seq(Item)) /\ << >> \in Seq(Seq(Item))
      BY <3>1
    <3> QED BY <3>2, Zenon DEF f
  <2>4. ByteFormats(byte, k) = bits \o space \o end
    BY Zenon DEF ByteFormats
  <2> HIDE DEF bits, space, end
  <2>5. bits \o space \in Seq(Seq(Item))
    BY <2>1, <2>2, ConcatProperties
  <2> QED BY <2>3, <2>4, <2>5, ConcatProperties
<1>5. bytes \in Seq(0 .. 255)
  BY ConsoleAssumption
<1>6. [k \in DOMAIN bytes |-> ByteFormats(bytes[k], k)] \in Seq(Seq(Seq(Item)))
  <2> DEFINE f(k) == ByteFormats(bytes[k], k)
  <2>1. Len(bytes) \in Nat /\ DOMAIN bytes = 1 .. Len(bytes)
        /\ \A k \in 1 .. Len(bytes) : bytes[k] \in 0 .. 255
    BY <1>5, LenProperties, ElementOfSeq
  <2>2. ASSUME NEW k \in 1 .. Len(bytes) PROVE f(k) \in Seq(Seq(Item))
    <3>1. bytes[k] \in 0 .. 255 /\ k \in Nat
      BY <2>1
    <3> QED BY <1>4, <3>1, Zenon
  <2> HIDE DEF f
  <2>3. [k \in 1 .. Len(bytes) |-> f(k)] \in Seq(Seq(Seq(Item)))
    BY <2>1, <2>2
  <2> QED BY <2>1, <2>3 DEF f
<1> QED
  BY <1>6, FlattenSeqHead DEF BinaryFormats

LEMMA TypeInit == Init => TypeInv
<1> SUFFICES ASSUME Init PROVE TypeInv
  OBVIOUS
<1>1. DOMAIN screen = Cells /\ DOMAIN mem = Addresses
  BY ConsoleAssumption DEF Init
<1>2. fmt \in Seq(Item) /\ pending \in Seq(Seq(Item)) /\ asked \in Seq(Chars)
  BY EmptySeq DEF Init
<1> QED
  BY <1>1, <1>2 DEF Init, TypeInv

(* A printf is begun with a format. *)
LEMMA StartPrintfType ==
  ASSUME NEW format \in Seq(Item), StartPrintf(format), asked \in Seq(Chars)
  PROVE  pc' = "vsnprintf" /\ fmt' \in Seq(Item) /\ j' \in Nat /\ asked' \in Seq(Chars)
<1>1. TextOf(format) \in Seq(Chars)
  BY TextOfHead
<1>2. asked' = asked \o TextOf(format) \/ asked' = asked \o (FatalPrefix \o <<"vsnprintf">>)
  BY Zenon DEF StartPrintf
<1>3. asked' \in Seq(Chars)
  <2> DEFINE a == FatalPrefix \o <<"vsnprintf">>
  <2>1. a \in Seq(Chars)
    BY FatalTextType
  <2> HIDE DEF a
  <2> QED BY <1>1, <1>2, <2>1, ConcatProperties DEF a
<1> QED
  BY <1>3 DEF StartPrintf

LEMMA TypeStep ==
  ASSUME TypeInv, [Next]_vars
  PROVE  TypeInv'
<1> USE DEF TypeInv
<1>1. ASSUME printf PROVE TypeInv'
  <2>1. PICK format \in Formats : StartPrintf(format)
    BY <1>1 DEF printf
  <2>2. format \in Seq(Item)
    BY ConsoleAssumption
  <2>3. pc' = "vsnprintf" /\ fmt' \in Seq(Item) /\ j' \in Nat /\ asked' \in Seq(Chars)
    BY <2>1, <2>2, StartPrintfType
  <2> QED BY <1>1, <2>3 DEF printf
<1>2. ASSUME print_binary PROVE TypeInv'
  <2>1. pending' \in Seq(Seq(Item))
    BY <1>2, BinaryFormatsType DEF print_binary
  <2> QED BY <1>2, <2>1 DEF print_binary
<1>3. ASSUME PrintBit PROVE TypeInv'
  <2>1. Head(pending) \in Seq(Item) /\ Tail(pending) \in Seq(Seq(Item)) /\ StartPrintf(Head(pending))
    BY <1>3, HeadTailProperties DEF PrintBit
  <2>2. pc' = "vsnprintf" /\ fmt' \in Seq(Item) /\ j' \in Nat /\ asked' \in Seq(Chars)
    BY <2>1, StartPrintfType
  <2> QED BY <1>3, <2>1, <2>2 DEF PrintBit
<1>4. ASSUME fatal_failure PROVE TypeInv'
  <2>1. PICK msg \in Messages : src' = FatalPrefix \o msg /\ asked' = asked \o src'
    BY <1>4 DEF fatal_failure
  <2>2. msg \in Seq(Chars) /\ FatalPrefix \in Seq(Chars)
    BY ConsoleAssumption
  <2>3. asked' \in Seq(Chars)
    BY <2>1, <2>2, ConcatProperties
  <2> QED BY <1>4, <2>3 DEF fatal_failure
<1>5. ASSUME FormatText PROVE TypeInv'
  <2>1. Tail(fmt) \in Seq(Item) /\ Head(fmt) \in Item
    BY <1>5, HeadTailProperties DEF FormatText
  <2>2. Len(Head(fmt).text) \in Nat
    BY <2>1, LenProperties DEF Item
  <2>3. DOMAIN mem' = Addresses
    BY <1>5 DEF FormatText, PUT_CHAR
  <2> QED BY <1>5, <2>1, <2>2, <2>3 DEF FormatText
<1>6. ASSUME FormatNumber PROVE TypeInv'
  <2>1. Tail(fmt) \in Seq(Item) /\ Head(fmt) \in Item
    BY <1>6, HeadTailProperties DEF FormatNumber
  <2>2. NrDigits(Head(fmt).num) \in Nat
    BY <2>1, DigitsType DEF Item
  <2>3. DOMAIN mem' = Addresses
    BY <1>6 DEF FormatNumber, number
  <2> QED BY <1>6, <2>1, <2>2, <2>3 DEF FormatNumber
<1>7. ASSUME FormatDone PROVE TypeInv'
  <2>1. DOMAIN mem' = Addresses
    BY <1>7 DEF FormatDone, Terminated
  <2> QED BY <1>7, <2>1 DEF FormatDone
<1>8. ASSUME UnknownConversion PROVE TypeInv'
  BY <1>8 DEF UnknownConversion
<1>9. ASSUME putstr PROVE TypeInv'
  <2>1. \A c : DOMAIN WithChar(c) = Cells /\ DOMAIN scroll(WithChar(c)) = Cells
    BY DEF WithChar, scroll
  <2>2. DOMAIN screen' = Cells
    BY <1>9, <2>1 DEF putstr
  <2> QED BY <1>9, <2>2 DEF putstr
<1>10. ASSUME PutstrDone PROVE TypeInv'
  BY <1>10 DEF PutstrDone
<1>11. ASSUME UNCHANGED vars PROVE TypeInv'
  BY <1>11 DEF vars
<1> QED
  BY <1>1, <1>2, <1>3, <1>4, <1>5, <1>6, <1>7, <1>8, <1>9, <1>10, <1>11 DEF Next

------------------------------------------------------------------------------
(***************************************************************************)
(* StaysInBuffer.  No invariant but the types is needed: each step looks   *)
(* at the size, and a number at its end.                                   *)
(***************************************************************************)
LEMMA BufferStep ==
  ASSUME TypeInv, [Next]_vars, NEW a \in BUF_SIZE .. MemSize - 1,
         ~ (NumberOverruns /\ (a < BUF_SIZE + 2 \/ a \in {j, j + 1}))
  PROVE  mem'[a] = mem[a]
<1>1. a \in Addresses /\ a \in Nat /\ a >= BUF_SIZE /\ j \in Nat /\ fmt \in Seq(Item)
  BY Sizes DEF Addresses, TypeInv
<1>2. CASE FormatText
  <2>1. ~ InBuffer(a)
    BY <1>1, Sizes DEF InBuffer
  <2> QED BY <1>1, <1>2, <2>1, Zenon DEF FormatText, PUT_CHAR
<1>3. CASE FormatNumber
  <2> DEFINE n == Head(fmt).num
  <2>1. Head(fmt) \in Item /\ fmt # << >> /\ Head(fmt).conv = "x" /\ mem' = number(mem, n)
    BY <1>1, <1>3, HeadTailProperties DEF FormatNumber
  <2>2. n \in 0 .. Worth[MaxDigits] - 1
    BY <2>1 DEF Item
  <2>3. Len(ItemText(Head(fmt))) = NrDigits(n) + 2
    BY <2>1, ItemTextType
  <2>4. NrDigits(n) \in Nat \ {0}
    BY <2>2, DigitsType
  <2> HIDE DEF n
  <2>5. \/ j + (NrDigits(n) + 2) <= BUF_SIZE
        \/ ~ (a < BUF_SIZE + 2 \/ a \in {j, j + 1})
    <3>1. CASE j + Len(ItemText(Head(fmt))) > BUF_SIZE
      BY <2>1, <3>1 DEF NumberOverruns
    <3>2. CASE ~ (j + Len(ItemText(Head(fmt))) > BUF_SIZE)
      BY <1>1, <2>3, <2>4, <3>2, Sizes
    <3> QED BY <3>1, <3>2
  <2>6. /\ a # j /\ a # j + 1
        /\ \A i \in 0 .. NrDigits(n) - 1 : ~ (a = j + 2 + i /\ j + i < BUF_SIZE)
    BY <1>1, <2>4, <2>5, Sizes
  <2> QED BY <1>1, <2>1, <2>6, Zenon DEF number
<1>4. CASE FormatDone
  <2>1. mem' = Terminated(mem)
    BY <1>4 DEF FormatDone
  <2>2. j < BUF_SIZE => a # j
    BY <1>1, Sizes
  <2> QED BY <2>1, <2>2 DEF Terminated
<1>5. CASE UNCHANGED mem
  BY <1>5
<1> QED
  BY <1>2, <1>3, <1>4, <1>5
  DEF Next, vars, printf, print_binary, PrintBit, fatal_failure, UnknownConversion, putstr, PutstrDone

(***************************************************************************)
(* For every format, buffer and memory: nothing is written behind the      *)
(* buffer, but at most two bytes of a number that would end there.         *)
(***************************************************************************)
THEOREM StaysInBufferCorrect == Spec => StaysInBuffer
<1>1. Spec => []TypeInv
  <2>1. Init => TypeInv
    BY TypeInit
  <2>2. TypeInv /\ [Next]_vars => TypeInv'
    BY TypeStep
  <2> QED BY <2>1, <2>2, PTL DEF Spec
<1>2. TypeInv /\ [Next]_vars =>
        [\A a \in BUF_SIZE .. MemSize - 1 :
           mem'[a] # mem[a] => NumberOverruns /\ (a < BUF_SIZE + 2 \/ a \in {j, j + 1})]_vars
  BY BufferStep
<1> QED
  BY <1>1, <1>2, PTL DEF Spec, StaysInBuffer

------------------------------------------------------------------------------
(***************************************************************************)
(* ScreenShowsText.  While no text was too long, what was asked for is put *)
(* on the screen, followed by what the buffer holds and what is still to   *)
(* be formatted, or by what putstr has still to put.                       *)
(***************************************************************************)
Formatted(w) ==
  /\ w \in Seq(Chars) /\ j = Len(w) /\ j + Len(TextOf(fmt)) < BUF_SIZE
  /\ \A k \in 1 .. Len(w) : mem[k - 1] = w[k]

Progress(put) ==
  /\ pc \in {"ready", "dead"} => asked = put
  /\ pc = "vsnprintf" /\ IsKnown(fmt) => \E w : Formatted(w) /\ asked = put \o (w \o TextOf(fmt))
  /\ pc = "vsnprintf" /\ ~ IsKnown(fmt) => asked = put \o (FatalPrefix \o <<"vsnprintf">>)
  /\ pc \in {"putstr", "fatal"} => src \in Seq(Chars) /\ asked = put \o src

PrintedInv == fits => \E put \in Seq(Chars) : OnScreen(put) /\ Progress(put)

LEMMA PrintedInit == Init => PrintedInv
<1> SUFFICES ASSUME Init PROVE PrintedInv
  OBVIOUS
<1>1. x = 0 /\ y = 0 /\ pc = "ready" /\ asked = << >> /\ screen = first
  BY DEF Init
<1>2. << >> \in Seq(Chars) /\ LinesOf(<< >>) = << << >> >>
  BY LinesOfAppend, EmptySeq
<1> DEFINE ls == << << >> >>
<1>3. Len(ls) = 1 /\ ls[Len(ls)] = << >> /\ ls[1] = << >> /\ Len(ls[Len(ls)]) = 0 /\ Len(ls[1]) = 0
  OBVIOUS
<1> HIDE DEF ls
<1>4. LastRow(ls) = 0 /\ \A row \in Rows : LineOf(ls, row) = row
  BY <1>3, Sizes DEF LastRow, LineOf, Rows
<1>5. ASSUME NEW row \in Rows, NEW col \in Columns
      PROVE  screen[col + COLS * row] = Shown(ls, row, col)
  <2>1. LineOf(ls, row) = row
    BY <1>4
  <2>2. ~ (row < Len(ls) /\ col < Len(ls[row + 1]))
    <3>1. col \in Nat /\ row \in Nat
      BY Sizes DEF Rows, Columns
    <3>2. row < Len(ls) => row + 1 = 1
      BY <1>3, <3>1
    <3>3. ~ (col < Len(ls[1]))
      BY <1>3, <3>1
    <3> QED BY <3>2, <3>3, Zenon
  <2>3. row < LINES
    BY Sizes DEF Rows
  <2>4. Shown(ls, row, col) = first[col + COLS * row]
    BY <2>1, <2>2, <2>3, ShownIs, Zenon
  <2> QED BY <1>1, <2>4
<1>6. OnScreen(<< >>)
  BY <1>1, <1>2, <1>3, <1>4, <1>5, Zenon DEF OnScreen, Shows, ls
<1>7. Progress(<< >>)
  BY <1>1 DEF Progress
<1> QED
  BY <1>2, <1>6, <1>7 DEF PrintedInv

(* What does not touch the screen keeps what is on it. *)
LEMMA OnScreenStays ==
  ASSUME NEW put, OnScreen(put), UNCHANGED <<screen, x, y, first>>
  PROVE  OnScreen(put)'
<1>1. screen' = screen /\ x' = x /\ y' = y /\ first' = first
  OBVIOUS
<1>2. \A ls, row, col : Shown(ls, row, col)' = Shown(ls, row, col)
  <2>1. \A k : first'[k] = first[k]
    BY <1>1
  <2> QED BY <2>1, ZenonT(60) DEF Shown
<1>3. \A ls : Shows(screen, ls)' <=> Shows(screen, ls)
  BY <1>1, <1>2, Zenon DEF Shows
<1> QED
  BY <1>1, <1>3, Zenon DEF OnScreen

(* A printf is begun: nothing of its text is formatted. *)
LEMMA StartPrintfPrinted ==
  ASSUME TypeInv, PrintedInv, pc = "ready", NEW format \in Seq(Item), StartPrintf(format),
         UNCHANGED <<screen, x, y, mem, first>>
  PROVE  PrintedInv'
<1> SUFFICES ASSUME fits' PROVE \E put \in Seq(Chars) : OnScreen(put)' /\ Progress(put)'
  BY Zenon DEF PrintedInv
<1>1. /\ fits /\ (IsKnown(format) => Len(TextOf(format)) < BUF_SIZE)
      /\ pc' = "vsnprintf" /\ fmt' = format /\ j' = 0
      /\ asked' = asked \o IF IsKnown(format) THEN TextOf(format) ELSE FatalPrefix \o <<"vsnprintf">>
  BY Zenon DEF StartPrintf
<1>2. PICK put \in Seq(Chars) : OnScreen(put) /\ Progress(put)
  BY <1>1, Zenon DEF PrintedInv
<1>3. OnScreen(put)'
  BY <1>2, OnScreenStays
<1>4. asked = put
  BY <1>2 DEF Progress
<1>5. ASSUME IsKnown(format) PROVE Formatted(<< >>)' /\ asked' = put \o (<< >> \o TextOf(fmt'))
  <2>1. TextOf(format) \in Seq(Chars)
    BY TextOfHead
  <2>2. Len(TextOf(format)) \in Nat /\ << >> \o TextOf(format) = TextOf(format)
    BY <2>1, LenProperties, ConcatEmptySeq
  <2>3. asked' = put \o TextOf(fmt')
    BY <1>1, <1>4, <1>5, Zenon
  <2>4. << >> \in Seq(Chars) /\ Len(<< >>) = 0
    OBVIOUS
  <2>5. 0 + Len(TextOf(fmt')) < BUF_SIZE
    BY <1>1, <1>5, <2>2
  <2>6. \A k \in 1 .. Len(<< >>) : mem'[k - 1] = << >>[k]
    BY <2>4
  <2> QED BY <1>1, <2>2, <2>3, <2>4, <2>5, <2>6, Zenon DEF Formatted
<1>6. Progress(put)'
  <2>1. pc' \notin {"ready", "dead", "putstr", "fatal"}
    BY <1>1
  <2>2. ~ IsKnown(fmt') => asked' = put \o (FatalPrefix \o <<"vsnprintf">>)
    BY <1>1, <1>4, Zenon
  <2>3. IsKnown(fmt') => \E w : Formatted(w)' /\ asked' = put \o (w \o TextOf(fmt'))
    BY <1>1, <1>5, Zenon
  <2>4. IsKnown(fmt)' <=> IsKnown(fmt')
    BY Zenon DEF IsKnown
  <2>5. TextOf(fmt)' = TextOf(fmt')
    BY Zenon DEF TextOf
  <2> QED BY <2>1, <2>2, <2>3, <2>4, <2>5, Zenon DEF Progress
<1> QED
  BY <1>3, <1>6

(* A format is known when its first item is and the others are. *)
LEMMA IsKnownTail ==
  ASSUME NEW f \in Seq(Item), f # << >>
  PROVE  IsKnown(f) <=> Head(f).conv # "?" /\ IsKnown(Tail(f))
<1>1. /\ Len(f) \in Nat \ {0} /\ DOMAIN f = 1 .. Len(f) /\ Head(f) = f[1]
      /\ DOMAIN Tail(f) = 1 .. Len(f) - 1 /\ \A k \in 1 .. Len(f) - 1 : Tail(f)[k] = f[k + 1]
  BY EmptySeq, LenProperties, HeadTailProperties
<1>2. ASSUME IsKnown(f) PROVE Head(f).conv # "?" /\ IsKnown(Tail(f))
  <2>1. \A k \in 1 .. Len(f) : f[k].conv # "?"
    BY <1>1, <1>2 DEF IsKnown
  <2>2. \A k \in 1 .. Len(f) - 1 : Tail(f)[k].conv # "?"
    BY <1>1, <2>1
  <2> QED BY <1>1, <2>1, <2>2 DEF IsKnown
<1>3. ASSUME Head(f).conv # "?", IsKnown(Tail(f)) PROVE IsKnown(f)
  <2> SUFFICES ASSUME NEW k \in 1 .. Len(f) PROVE f[k].conv # "?"
    BY <1>1 DEF IsKnown
  <2>1. CASE k = 1
    BY <1>1, <1>3, <2>1
  <2>2. CASE k # 1
    <3>1. k - 1 \in 1 .. Len(f) - 1 /\ (k - 1) + 1 = k
      BY <1>1, <2>2
    <3>2. Tail(f)[k - 1].conv # "?" /\ Tail(f)[k - 1] = f[k]
      BY <1>1, <1>3, <3>1 DEF IsKnown
    <3> QED BY <3>2
  <2> QED BY <2>1, <2>2
<1> QED
  BY <1>2, <1>3

(* An item is formatted: its text goes behind what the buffer holds. *)
ItemFormatted(item) ==
  /\ pc = "vsnprintf" /\ fmt # << >> /\ Head(fmt) = item /\ item.conv # "?"
  /\ fmt' = Tail(fmt) /\ j' = j + Len(ItemText(item))
  /\ UNCHANGED <<screen, x, y, first, pc, asked, fits>>
  /\ \A a \in Addresses : a < j => mem'[a] = mem[a]
  /\ j + Len(ItemText(item)) < BUF_SIZE =>
       \A k \in 1 .. Len(ItemText(item)) : mem'[j + k - 1] = ItemText(item)[k]

LEMMA ItemFormattedPrinted ==
  ASSUME TypeInv, PrintedInv, NEW item, ItemFormatted(item)
  PROVE  PrintedInv'
<1> SUFFICES ASSUME fits' PROVE \E put \in Seq(Chars) : OnScreen(put)' /\ Progress(put)'
  BY Zenon DEF PrintedInv
<1>1. /\ pc = "vsnprintf" /\ fmt # << >> /\ Head(fmt) = item /\ item.conv # "?"
      /\ fmt' = Tail(fmt) /\ pc' = pc /\ asked' = asked /\ fits
      /\ UNCHANGED <<screen, x, y, first>>
  BY Zenon DEF ItemFormatted
<1>2. PICK put \in Seq(Chars) : OnScreen(put) /\ Progress(put)
  BY <1>1, Zenon DEF PrintedInv
<1>3. OnScreen(put)'
  BY <1>1, <1>2, OnScreenStays
<1>4. fmt \in Seq(Item) /\ Tail(fmt) \in Seq(Item) /\ item \in Item /\ j \in Nat
  BY <1>1, HeadTailProperties DEF TypeInv
<1> DEFINE t == ItemText(item)
           rest == TextOf(Tail(fmt))
<1>5. t \in Seq(Chars) /\ rest \in Seq(Chars) /\ TextOf(fmt) = t \o rest
  BY <1>1, <1>4, ItemTextType, TextOfHead
<1>6. IsKnown(fmt) <=> IsKnown(Tail(fmt))
  BY <1>1, <1>4, IsKnownTail
<1>7. j' = j + Len(t) /\ (\A a \in Addresses : a < j => mem'[a] = mem[a])
      /\ (j + Len(t) < BUF_SIZE => \A k \in 1 .. Len(t) : mem'[j + k - 1] = t[k])
  BY Zenon DEF ItemFormatted
<1> HIDE DEF t, rest
<1>8. ASSUME IsKnown(fmt)
      PROVE  \E w : Formatted(w)' /\ asked' = put \o (w \o rest)
  <2>1. PICK w : Formatted(w) /\ asked = put \o (w \o TextOf(fmt))
    BY <1>1, <1>2, <1>8, Zenon DEF Progress
  <2>2. /\ w \in Seq(Chars) /\ j = Len(w) /\ j + Len(TextOf(fmt)) < BUF_SIZE
        /\ \A k \in 1 .. Len(w) : mem[k - 1] = w[k]
    BY <2>1, Zenon DEF Formatted
  <2> DEFINE v == w \o t
  <2>3. /\ v \in Seq(Chars) /\ Len(v) = Len(w) + Len(t)
        /\ \A k \in 1 .. Len(w) + Len(t) : v[k] = IF k <= Len(w) THEN w[k] ELSE t[k - Len(w)]
    BY <1>5, <2>2, ConcatProperties
  <2>4. w \o TextOf(fmt) = v \o rest
    <3>1. w \in Seq(Chars) /\ t \in Seq(Chars) /\ rest \in Seq(Chars)
      BY <1>5, <2>2
    <3>2. (w \o t) \o rest = w \o (t \o rest)
      BY <3>1, ConcatAssociative, SMTT(30)
    <3> QED BY <1>5, <3>2, Zenon
  <2>5. Len(t) \in Nat /\ Len(rest) \in Nat /\ Len(TextOf(fmt)) = Len(t) + Len(rest)
    BY <1>5, LenProperties, ConcatProperties
  <2> HIDE DEF v
  <2>6. j' = Len(v) /\ j + Len(t) < BUF_SIZE /\ j' + Len(rest) < BUF_SIZE
    BY <1>4, <1>7, <2>2, <2>3, <2>5, Sizes
  <2>7. ASSUME NEW k \in 1 .. Len(v) PROVE mem'[k - 1] = v[k]
    <3>1. k \in Nat \ {0} /\ k <= j + Len(t)
      BY <1>4, <2>2, <2>3, <2>5
    <3>2. CASE k <= j
      <4>1. k \in 1 .. Len(w) /\ k \in 1 .. Len(w) + Len(t) /\ k - 1 < j /\ k - 1 \in Addresses
        BY <1>4, <2>2, <2>5, <2>6, <3>1, <3>2, Sizes DEF Addresses
      <4>2. mem'[k - 1] = mem[k - 1] /\ mem[k - 1] = w[k]
        BY <1>7, <2>2, <4>1, Zenon
      <4>3. v[k] = w[k]
        BY <2>2, <2>3, <3>2, <4>1, Zenon
      <4> QED BY <4>2, <4>3, Zenon
    <3>3. CASE ~ (k <= j)
      <4>1. k - j \in 1 .. Len(t) /\ k \in 1 .. Len(w) + Len(t) /\ j + (k - j) - 1 = k - 1
        BY <1>4, <2>2, <2>5, <3>1, <3>3
      <4>2. mem'[j + (k - j) - 1] = t[k - j]
        BY <1>7, <2>6, <4>1, Zenon
      <4>3. v[k] = t[k - j]
        BY <2>2, <2>3, <3>3, <4>1, Zenon
      <4> QED BY <4>1, <4>2, <4>3, Zenon
    <3> QED BY <3>2, <3>3
  <2>8. TextOf(fmt)' = rest
    BY <1>1, Zenon DEF rest, TextOf
  <2>9. Formatted(v)'
    BY <2>3, <2>6, <2>7, <2>8, Zenon DEF Formatted
  <2>10. asked' = put \o (v \o rest)
    BY <1>1, <2>1, <2>4, Zenon
  <2> QED BY <2>9, <2>10, Zenon
<1>9. Progress(put)'
  <2>1. pc' \notin {"ready", "dead", "putstr", "fatal"}
    BY <1>1
  <2>2. ~ IsKnown(fmt) => asked' = put \o (FatalPrefix \o <<"vsnprintf">>)
    BY <1>1, <1>2, Zenon DEF Progress
  <2>3. IsKnown(fmt)' <=> IsKnown(fmt)
    <3>1. IsKnown(fmt)' <=> IsKnown(Tail(fmt))
      BY <1>1, Zenon DEF IsKnown
    <3> QED BY <1>6, <3>1, Zenon
  <2>4. TextOf(fmt)' = rest
    BY <1>1, Zenon DEF rest, TextOf
  <2> QED BY <1>8, <2>1, <2>2, <2>3, <2>4, Zenon DEF Progress
<1> QED
  BY <1>3, <1>9

LEMMA FormatTextPrinted ==
  ASSUME TypeInv, PrintedInv, FormatText
  PROVE  PrintedInv'
<1> DEFINE item == Head(fmt)
<1>1. /\ pc = "vsnprintf" /\ fmt # << >> /\ item.conv = "text" /\ fmt' = Tail(fmt)
      /\ mem' = PUT_CHAR(mem, item.text) /\ j' = j + Len(item.text)
      /\ UNCHANGED <<screen, x, y, first, pc, asked, fits>>
  BY Zenon DEF FormatText
<1>2. item \in Item /\ j \in Nat
  BY <1>1, HeadTailProperties DEF TypeInv
<1>3. ItemText(item) = item.text /\ Len(item.text) \in Nat
  BY <1>1, <1>2, LenProperties DEF ItemText, Item
<1> HIDE DEF item
<1>4. ASSUME NEW a \in Addresses, a < j PROVE mem'[a] = mem[a]
  <2>1. a \notin j .. j + Len(item.text) - 1
    BY <1>2, <1>3, <1>4 DEF Addresses
  <2> QED BY <1>1, <2>1, Zenon DEF PUT_CHAR
<1>5. ASSUME j + Len(item.text) < BUF_SIZE, NEW k \in 1 .. Len(item.text)
      PROVE  mem'[j + k - 1] = item.text[k]
  <2>1. /\ j + k - 1 \in Addresses /\ j + k - 1 \in j .. j + Len(item.text) - 1
        /\ j + k - 1 < BUF_SIZE /\ j + k - 1 - j + 1 = k
    BY <1>2, <1>3, <1>5, Sizes DEF Addresses
  <2> DEFINE a == j + k - 1
  <2>2. a \in Addresses /\ a \in j .. j + Len(item.text) - 1 /\ InBuffer(a) /\ a - j + 1 = k
    <3>1. InBuffer(a)
      BY <2>1 DEF InBuffer
    <3> QED BY <1>2, <2>1, <3>1
  <2> HIDE DEF a
  <2>3. mem'[a] = item.text[a - j + 1]
    BY <1>1, <2>2, Zenon DEF PUT_CHAR
  <2> QED BY <2>2, <2>3 DEF a
<1>6. item.conv # "?"
  BY <1>1
<1>7. ItemFormatted(item)
  BY <1>1, <1>3, <1>4, <1>5, <1>6, Zenon DEF ItemFormatted, item
<1> QED
  BY <1>7, ItemFormattedPrinted

LEMMA FormatNumberPrinted ==
  ASSUME TypeInv, PrintedInv, FormatNumber
  PROVE  PrintedInv'
<1> DEFINE item == Head(fmt)
           n == item.num
           t == ItemText(item)
<1>1. /\ pc = "vsnprintf" /\ fmt # << >> /\ item.conv = "x" /\ fmt' = Tail(fmt)
      /\ mem' = number(mem, n) /\ j' = j + NrDigits(n) + 2
      /\ UNCHANGED <<screen, x, y, first, pc, asked, fits>>
  BY Zenon DEF FormatNumber
<1>2. item \in Item /\ j \in Nat
  BY <1>1, HeadTailProperties DEF TypeInv
<1>3. n \in 0 .. Worth[MaxDigits] - 1
  BY <1>2 DEF Item
<1>4. /\ t = <<"0", "x">> \o Digits(n) /\ Len(t) = NrDigits(n) + 2
      /\ Digits(n) \in Seq(Chars) /\ Len(Digits(n)) = NrDigits(n) /\ NrDigits(n) \in Nat \ {0}
  <2>1. /\ Digits(n) \in Seq(Chars) /\ Len(Digits(n)) = NrDigits(n)
        /\ NrDigits(n) \in Nat \ {0}
    BY <1>3, DigitsType
  <2>2. t = <<"0", "x">> \o Digits(n) /\ Len(t) = NrDigits(n) + 2
    BY <1>1, <1>2, ItemTextType
  <2> QED BY <2>1, <2>2
<1>5. t[1] = "0" /\ t[2] = "x" /\ \A i \in 0 .. NrDigits(n) - 1 : t[i + 3] = DigitAt(n, i)
  <2> DEFINE d == Digits(n)
             zx == <<"0", "x">>
             Z == Chars \cup {"0", "x"}
  <2>1. zx \in Seq(Z) /\ Len(zx) = 2 /\ zx[1] = "0" /\ zx[2] = "x"
    OBVIOUS
  <2>2. d \in Seq(Z)
    BY <1>4, SeqMonotonic
  <2> HIDE DEF zx, d, Z
  <2>3. \A k \in 1 .. 2 + NrDigits(n) : (zx \o d)[k] = IF k <= 2 THEN zx[k] ELSE d[k - 2]
    <3> DEFINE N == NrDigits(n)
    <3>1. Len(d) = N /\ N \in Nat
      BY <1>4 DEF d
    <3> HIDE DEF N
    <3>2. \A k \in 1 .. Len(zx) + Len(d) :
            (zx \o d)[k] = IF k <= Len(zx) THEN zx[k] ELSE d[k - Len(zx)]
      BY <2>1, <2>2, ConcatProperties
    <3>3. Len(zx) = 2
      BY <2>1
    <3>4. \A k \in 1 .. 2 + N : (zx \o d)[k] = IF k <= 2 THEN zx[k] ELSE d[k - 2]
      BY <3>1, <3>2, <3>3
    <3> QED BY <3>4 DEF N
  <2>4. t = zx \o d
    BY <1>4 DEF zx, d
  <2> HIDE DEF t, n
  <2>5. t[1] = "0" /\ t[2] = "x"
    BY <1>4, <2>1, <2>3, <2>4
  <2>6. ASSUME NEW i \in 0 .. NrDigits(n) - 1 PROVE t[i + 3] = DigitAt(n, i)
    <3>1. i + 3 \in 1 .. 2 + NrDigits(n) /\ ~ (i + 3 <= 2) /\ (i + 3) - 2 = i + 1
          /\ i + 1 \in 1 .. NrDigits(n) /\ (i + 1) - 1 = i
      BY <1>4
    <3>2. t[i + 3] = d[i + 1]
      BY <2>3, <2>4, <3>1, Zenon
    <3>3. d[i + 1] = DigitAt(n, i)
      BY <3>1, Zenon DEF d, Digits
    <3> QED BY <3>2, <3>3
  <2> QED BY <2>5, <2>6
<1> HIDE DEF item, n, t
<1>6. ASSUME NEW a \in Addresses, a < j PROVE mem'[a] = mem[a]
  <2>1. a # j /\ a # j + 1 /\ \A i \in 0 .. NrDigits(n) - 1 : a # j + 2 + i
    BY <1>2, <1>4, <1>6 DEF Addresses
  <2> QED BY <1>1, <2>1, Zenon DEF number
<1>7. ASSUME j + Len(t) < BUF_SIZE, NEW k \in 1 .. Len(t)
      PROVE  mem'[j + k - 1] = t[k]
  <2> DEFINE a == j + k - 1
  <2>1. a \in Addresses /\ a \in Nat /\ k \in Nat \ {0} /\ k <= NrDigits(n) + 2
    BY <1>2, <1>4, <1>7, Sizes DEF Addresses
  <2>2. mem'[a] = IF a = j THEN "0" ELSE IF a = j + 1 THEN "x"
                  ELSE IF \E i \in 0 .. NrDigits(n) - 1 : a = j + 2 + i /\ j + i < BUF_SIZE
                  THEN DigitAt(n, a - j - 2) ELSE mem[a]
    <3> HIDE DEF a
    <3> QED BY <1>1, <2>1, Zenon DEF number
  <2>3. CASE k = 1
    <3>1. a = j
      BY <1>2, <2>3
    <3> QED BY <1>5, <2>2, <2>3, <3>1, Zenon
  <2>4. CASE k = 2
    <3>1. a = j + 1 /\ a # j
      BY <1>2, <2>4
    <3> QED BY <1>5, <2>2, <2>4, <3>1, Zenon
  <2>5. CASE k # 1 /\ k # 2
    <3> DEFINE i == k - 3
    <3>1. i \in 0 .. NrDigits(n) - 1 /\ k = i + 3
      BY <1>4, <2>1, <2>5
    <3>2. a # j /\ a # j + 1 /\ a = j + 2 + i /\ a - j - 2 = i /\ j + i < BUF_SIZE
      BY <1>2, <1>4, <1>7, <2>1, <2>5, Sizes
    <3> HIDE DEF i, a
    <3>3. mem'[a] = DigitAt(n, a - j - 2)
      BY <2>2, <3>1, <3>2, Zenon
    <3>4. t[k] = DigitAt(n, i)
      BY <1>5, <3>1, Zenon
    <3> QED BY <3>2, <3>3, <3>4, Zenon DEF a
  <2> QED BY <2>3, <2>4, <2>5
<1>8. j' = j + Len(t) /\ item.conv # "?"
  BY <1>1, <1>2, <1>4
<1>9. ItemFormatted(item)
  BY <1>1, <1>6, <1>7, <1>8, Zenon DEF ItemFormatted, item, t
<1> QED
  BY <1>9, ItemFormattedPrinted

(* The end of the text is the only place a string can end. *)
LEMMA StringAtIs ==
  ASSUME NEW m, NEW w \in Seq(Chars), Len(w) < BUF_SIZE, m[Len(w)] = "NUL",
         \A k \in 1 .. Len(w) : m[k - 1] = w[k]
  PROVE  StringAt(m) = w
<1> DEFINE N == Len(w)
           Ends(n) == (n = MemSize \/ m[n] = "NUL") /\ \A k \in 0 .. n - 1 : m[k] # "NUL"
           end == CHOOSE n \in 0 .. MemSize : Ends(n)
<1>1. N \in 0 .. MemSize /\ N < MemSize /\ w = [k \in 1 .. N |-> w[k]]
  BY LenProperties, Sizes
<1>2. \A k \in 0 .. N - 1 : m[k] # "NUL"
  <2> SUFFICES ASSUME NEW k \in 0 .. N - 1 PROVE m[k] # "NUL"
    OBVIOUS
  <2>1. k + 1 \in 1 .. Len(w) /\ (k + 1) - 1 = k
    BY <1>1
  <2>2. m[k] = w[k + 1] /\ w[k + 1] \in Chars
    BY <2>1, ElementOfSeq
  <2> QED BY <2>2, ConsoleAssumption
<1>3. Ends(N)
  BY <1>2
<1> HIDE DEF N
<1>4. ASSUME NEW n \in 0 .. MemSize, Ends(n) PROVE n = N
  <2>1. ~ (n < N)
    <3>1. SUFFICES ASSUME n < N PROVE FALSE
      OBVIOUS
    <3>2. n \in 0 .. N - 1 /\ n # MemSize
      BY <1>1, <3>1, Sizes
    <3> QED BY <1>2, <1>4, <3>2
  <2>2. ~ (N < n)
    <3>1. SUFFICES ASSUME N < n PROVE FALSE
      OBVIOUS
    <3>2. N \in 0 .. n - 1
      BY <1>1, <3>1, Sizes
    <3>3. m[N] = "NUL"
      BY DEF N
    <3> QED BY <1>4, <3>2, <3>3
  <2> QED BY <1>1, <2>1, <2>2, Sizes
<1>5. end = N
  <2> HIDE DEF Ends
  <2> QED BY <1>1, <1>3, <1>4, Zenon
<1>6. StringAt(m) = [k \in 1 .. end |-> m[k - 1]]
  BY Zenon DEF StringAt
<1> HIDE DEF end
<1>7. [k \in 1 .. N |-> m[k - 1]] = [k \in 1 .. N |-> w[k]]
  <2>1. \A k \in 1 .. N : m[k - 1] = w[k]
    BY DEF N
  <2> QED BY <2>1, Zenon
<1> QED
  BY <1>1, <1>5, <1>6, <1>7, Zenon

LEMMA FormatDonePrinted ==
  ASSUME TypeInv, PrintedInv, FormatDone
  PROVE  PrintedInv'
<1> SUFFICES ASSUME fits' PROVE \E put \in Seq(Chars) : OnScreen(put)' /\ Progress(put)'
  BY Zenon DEF PrintedInv
<1>1. /\ pc = "vsnprintf" /\ fmt = << >> /\ mem' = Terminated(mem) /\ src' = StringAt(mem')
      /\ pc' = "putstr" /\ asked' = asked /\ fits /\ UNCHANGED <<screen, x, y, first>>
  BY Zenon DEF FormatDone
<1>2. PICK put \in Seq(Chars) : OnScreen(put) /\ Progress(put)
  BY <1>1, Zenon DEF PrintedInv
<1>3. OnScreen(put)'
  BY <1>1, <1>2, OnScreenStays
<1>4. IsKnown(fmt)
  BY <1>1 DEF IsKnown
<1>5. PICK w : Formatted(w) /\ asked = put \o (w \o TextOf(fmt))
  BY <1>1, <1>2, <1>4, Zenon DEF Progress
<1>6. TextOf(fmt) = << >>
  BY <1>1, TextOfHead DEF TypeInv
<1>7. /\ w \in Seq(Chars) /\ j = Len(w) /\ Len(w) < BUF_SIZE /\ Len(w) \in Nat
      /\ \A k \in 1 .. Len(w) : mem[k - 1] = w[k]
  BY <1>5, <1>6, LenProperties, EmptySeq DEF Formatted
<1>8. asked = put \o w
  BY <1>5, <1>6, <1>7, ConcatEmptySeq
<1>9. mem' = [mem EXCEPT ![j] = "NUL"] /\ DOMAIN mem = Addresses
  BY <1>1, <1>7 DEF Terminated, TypeInv
<1>10. mem'[Len(w)] = "NUL"
  <2>1. j \in Addresses
    BY <1>7, Sizes DEF Addresses
  <2> QED BY <1>7, <1>9, <2>1
<1>11. ASSUME NEW k \in 1 .. Len(w) PROVE mem'[k - 1] = w[k]
  <2>1. k - 1 \in Addresses /\ k - 1 # j
    BY <1>7, Sizes DEF Addresses
  <2>2. mem'[k - 1] = mem[k - 1]
    BY <1>9, <2>1
  <2> QED BY <1>7, <2>2
<1>12. StringAt(mem') = w
  BY <1>7, <1>10, <1>11, StringAtIs
<1>13. Progress(put)'
  BY <1>1, <1>7, <1>8, <1>12 DEF Progress
<1> QED
  BY <1>3, <1>13

LEMMA PutstrPrinted ==
  ASSUME TypeInv, PrintedInv, putstr
  PROVE  PrintedInv'
<1> SUFFICES ASSUME fits' PROVE \E put \in Seq(Chars) : OnScreen(put)' /\ Progress(put)'
  BY Zenon DEF PrintedInv
<1>1. /\ pc \in {"putstr", "fatal"} /\ src # << >> /\ src' = Tail(src)
      /\ pc' = pc /\ asked' = asked /\ fits
  BY Zenon DEF putstr
<1>2. PICK put \in Seq(Chars) : OnScreen(put) /\ Progress(put)
  BY <1>1, Zenon DEF PrintedInv
<1>3. src \in Seq(Chars) /\ asked = put \o src
  BY <1>1, <1>2 DEF Progress
<1> DEFINE c == Head(src)
           more == Append(put, c)
<1>4. /\ c \in Chars /\ Tail(src) \in Seq(Chars) /\ more \in Seq(Chars)
  BY <1>1, <1>3, HeadTailProperties, AppendProperties
<1>5. \E put1 \in Seq(Chars) : put1 = more /\ OnScreen(put1)'
  <2>1. PICK d : d = c
    OBVIOUS
  <2>2. OnScreen(Append(put, d))'
    BY <1>4, <1>2, <2>1, PutCharacter DEF TypeInv
  <2> QED BY <1>4, <2>1, <2>2
<1>6. put \o src = more \o Tail(src)
  <2>1. /\ Len(src) \in Nat \ {0} /\ Len(put) \in Nat /\ c = src[1] /\ Len(Tail(src)) = Len(src) - 1
        /\ \A k \in 1 .. Len(src) - 1 : Tail(src)[k] = src[k + 1]
    BY <1>1, <1>3, EmptySeq, LenProperties, HeadTailProperties
  <2>2. /\ Len(more) = Len(put) + 1 /\ more[Len(put) + 1] = c
        /\ \A k \in 1 .. Len(put) : more[k] = put[k]
    BY <1>4, AppendProperties
  <2> DEFINE a == put \o src
             b == more \o Tail(src)
  <2>3. /\ a \in Seq(Chars) /\ Len(a) = Len(put) + Len(src)
        /\ \A k \in 1 .. Len(put) + Len(src) : a[k] = IF k <= Len(put) THEN put[k] ELSE src[k - Len(put)]
    BY <1>3, ConcatProperties
  <2> HIDE DEF c, more
  <2>4. /\ b \in Seq(Chars) /\ Len(b) = Len(more) + Len(Tail(src))
        /\ \A k \in 1 .. Len(more) + Len(Tail(src)) :
             b[k] = IF k <= Len(more) THEN more[k] ELSE Tail(src)[k - Len(more)]
    BY <1>4, ConcatProperties
  <2> HIDE DEF a, b
  <2>5. Len(a) = Len(b)
    BY <2>1, <2>2, <2>3, <2>4
  <2>6. ASSUME NEW k \in 1 .. Len(a) PROVE a[k] = b[k]
    <3>1. k \in 1 .. Len(put) + Len(src) /\ k \in 1 .. Len(more) + Len(Tail(src))
      BY <2>1, <2>2, <2>3
    <3>2. a[k] = IF k <= Len(put) THEN put[k] ELSE src[k - Len(put)]
      BY <2>3, <3>1, Zenon
    <3>3. b[k] = IF k <= Len(more) THEN more[k] ELSE Tail(src)[k - Len(more)]
      BY <2>4, <3>1, Zenon
    <3>4. CASE k <= Len(put)
      <4>1. k \in 1 .. Len(put) /\ k <= Len(more)
        BY <2>1, <2>2, <3>1, <3>4
      <4> QED BY <2>2, <3>2, <3>3, <3>4, <4>1, Zenon
    <3>5. CASE k = Len(put) + 1
      <4>1. ~ (k <= Len(put)) /\ k <= Len(more) /\ k - Len(put) = 1
        BY <2>1, <2>2, <3>5
      <4> QED BY <2>1, <2>2, <3>2, <3>3, <3>5, <4>1, Zenon
    <3>6. CASE k > Len(put) + 1
      <4>1. /\ ~ (k <= Len(put)) /\ ~ (k <= Len(more)) /\ k - Len(more) \in 1 .. Len(src) - 1
            /\ (k - Len(more)) + 1 = k - Len(put)
        BY <2>1, <2>2, <3>1, <3>6
      <4>2. Tail(src)[k - Len(more)] = src[(k - Len(more)) + 1]
        BY <2>1, <4>1, Zenon
      <4> QED BY <3>2, <3>3, <4>1, <4>2, Zenon
    <3> QED BY <2>1, <3>1, <3>4, <3>5, <3>6
  <2>7. a = b
    BY <2>3, <2>4, <2>5, <2>6, SeqEqual
  <2> QED BY <2>7 DEF a, b, c, more
<1>7. PICK put1 \in Seq(Chars) : put1 = more /\ OnScreen(put1)'
  BY <1>5
<1> HIDE DEF c, more
<1>8. Progress(put1)'
  <2>1. pc' \in {"putstr", "fatal"} /\ src' \in Seq(Chars)
    BY <1>1, <1>4
  <2>2. asked' = put1 \o src'
    BY <1>1, <1>3, <1>6, <1>7, Zenon
  <2> QED BY <2>1, <2>2 DEF Progress
<1> QED
  BY <1>7, <1>8

LEMMA PrintedStep ==
  ASSUME TypeInv, PrintedInv, [Next]_vars
  PROVE  PrintedInv'
<1>1. ASSUME printf PROVE PrintedInv'
  <2>1. PICK format \in Formats : StartPrintf(format)
    BY <1>1 DEF printf
  <2>2. format \in Seq(Item)
    BY ConsoleAssumption
  <2>3. pc = "ready" /\ UNCHANGED <<screen, x, y, mem, first>>
    BY <1>1 DEF printf
  <2> QED BY <2>1, <2>2, <2>3, StartPrintfPrinted
<1>2. ASSUME PrintBit PROVE PrintedInv'
  <2>1. pc = "ready" /\ pending # << >> /\ StartPrintf(Head(pending))
        /\ UNCHANGED <<screen, x, y, mem, first>>
    BY <1>2 DEF PrintBit
  <2>2. Head(pending) \in Seq(Item)
    BY <2>1, HeadTailProperties DEF TypeInv
  <2> QED BY <2>1, <2>2, StartPrintfPrinted
<1>3. ASSUME fatal_failure PROVE PrintedInv'
  <2> SUFFICES ASSUME fits' PROVE \E put \in Seq(Chars) : OnScreen(put)' /\ Progress(put)'
    BY Zenon DEF PrintedInv
  <2>1. /\ pc = "ready" /\ pc' = "fatal" /\ fits /\ UNCHANGED <<screen, x, y, first>>
    BY <1>3 DEF fatal_failure
  <2>2. PICK msg \in Messages : src' = FatalPrefix \o msg /\ asked' = asked \o src'
    BY <1>3 DEF fatal_failure
  <2>3. src' \in Seq(Chars)
    <3>1. msg \in Seq(Chars) /\ FatalPrefix \in Seq(Chars)
      BY ConsoleAssumption
    <3> QED BY <2>2, <3>1, ConcatProperties
  <2>4. PICK put \in Seq(Chars) : OnScreen(put) /\ Progress(put)
    BY <2>1, Zenon DEF PrintedInv
  <2>5. OnScreen(put)'
    BY <2>1, <2>4, OnScreenStays
  <2>6. asked = put
    BY <2>1, <2>4 DEF Progress
  <2>7. Progress(put)'
    BY <2>1, <2>2, <2>3, <2>6 DEF Progress
  <2> QED BY <2>5, <2>7
<1>4. ASSUME UnknownConversion PROVE PrintedInv'
  <2> SUFFICES ASSUME fits' PROVE \E put \in Seq(Chars) : OnScreen(put)' /\ Progress(put)'
    BY Zenon DEF PrintedInv
  <2>1. /\ pc = "vsnprintf" /\ fmt # << >> /\ Head(fmt).conv = "?" /\ pc' = "fatal"
        /\ src' = FatalPrefix \o <<"vsnprintf">> /\ asked' = asked /\ fits
        /\ UNCHANGED <<screen, x, y, first>>
    BY <1>4, Zenon DEF UnknownConversion
  <2>2. PICK put \in Seq(Chars) : OnScreen(put) /\ Progress(put)
    BY <2>1, Zenon DEF PrintedInv
  <2>3. OnScreen(put)'
    BY <2>1, <2>2, OnScreenStays
  <2>4. ~ IsKnown(fmt)
    BY <2>1, IsKnownTail DEF TypeInv
  <2>5. asked = put \o (FatalPrefix \o <<"vsnprintf">>)
    BY <2>1, <2>2, <2>4, Zenon DEF Progress
  <2>6. src' \in Seq(Chars)
    BY <2>1, FatalTextType, Zenon
  <2>7. asked' = put \o src'
    BY <2>1, <2>5, Zenon
  <2>8. Progress(put)'
    BY <2>1, <2>6, <2>7 DEF Progress
  <2> QED BY <2>3, <2>8
<1>5. ASSUME PutstrDone PROVE PrintedInv'
  <2> SUFFICES ASSUME fits' PROVE \E put \in Seq(Chars) : OnScreen(put)' /\ Progress(put)'
    BY Zenon DEF PrintedInv
  <2>1. /\ pc \in {"putstr", "fatal"} /\ src = << >> /\ pc' \in {"ready", "dead"}
        /\ asked' = asked /\ fits /\ UNCHANGED <<screen, x, y, first>>
    BY <1>5 DEF PutstrDone
  <2>2. PICK put \in Seq(Chars) : OnScreen(put) /\ Progress(put)
    BY <2>1, Zenon DEF PrintedInv
  <2>3. OnScreen(put)'
    BY <2>1, <2>2, OnScreenStays
  <2>4. asked = put
    <3>1. asked = put \o << >>
      BY <2>1, <2>2 DEF Progress
    <3> QED BY <3>1, ConcatEmptySeq
  <2>5. Progress(put)'
    BY <2>1, <2>4 DEF Progress
  <2> QED BY <2>3, <2>5
<1>6. ASSUME UNCHANGED <<screen, x, y, first, mem, fmt, j, src, pc, asked, fits>>
      PROVE  PrintedInv'
  <2> SUFFICES ASSUME fits' PROVE \E put \in Seq(Chars) : OnScreen(put)' /\ Progress(put)'
    BY Zenon DEF PrintedInv
  <2>1. /\ mem' = mem /\ fmt' = fmt /\ j' = j /\ src' = src /\ pc' = pc /\ asked' = asked
        /\ fits /\ UNCHANGED <<screen, x, y, first>>
    BY <1>6
  <2>2. PICK put \in Seq(Chars) : OnScreen(put) /\ Progress(put)
    BY <2>1, Zenon DEF PrintedInv
  <2>3. OnScreen(put)'
    BY <2>1, <2>2, OnScreenStays
  <2>4. TextOf(fmt)' = TextOf(fmt) /\ (IsKnown(fmt)' <=> IsKnown(fmt))
    BY <2>1, Zenon DEF TextOf, IsKnown
  <2>5. \A w : Formatted(w)' <=> Formatted(w)
    BY <2>1, <2>4, Zenon DEF Formatted
  <2>6. Progress(put)'
    BY <2>1, <2>2, <2>4, <2>5, Zenon DEF Progress
  <2> QED BY <2>3, <2>6
<1>7. ASSUME print_binary PROVE PrintedInv'
  BY <1>6, <1>7 DEF print_binary
<1>8. ASSUME UNCHANGED vars PROVE PrintedInv'
  BY <1>6, <1>8 DEF vars
<1> QED
  BY <1>1, <1>2, <1>3, <1>4, <1>5, <1>7, <1>8,
     FormatTextPrinted, FormatNumberPrinted, FormatDonePrinted, PutstrPrinted DEF Next

(***************************************************************************)
(* Between the calls, and when the machine has stopped, the screen shows   *)
(* the last lines of all that was to be printed, for every size of the     *)
(* screen and of the buffer, and every sequence of calls of printf,        *)
(* print_binary and fatal_failure whose texts were shorter than the        *)
(* buffer.                                                                 *)
(***************************************************************************)
THEOREM ScreenShowsTextCorrect == Spec => []ScreenShowsText
<1>1. Init => TypeInv /\ PrintedInv
  BY TypeInit, PrintedInit
<1>2. TypeInv /\ PrintedInv /\ [Next]_vars => (TypeInv /\ PrintedInv)'
  BY TypeStep, PrintedStep
<1>3. TypeInv /\ PrintedInv => ScreenShowsText
  <2> SUFFICES ASSUME PrintedInv, pc \in {"ready", "dead"}, fits
               PROVE  \A row \in Rows, col \in Columns :
                        screen[col + COLS * row] = Shown(LinesOf(asked), row, col)
    BY DEF ScreenShowsText, Rows, Columns
  <2>1. PICK put \in Seq(Chars) : OnScreen(put) /\ Progress(put)
    BY Zenon DEF PrintedInv
  <2>2. asked = put
    BY <2>1 DEF Progress
  <2> QED BY <2>1, <2>2, Zenon DEF OnScreen, Shows
<1> QED
  BY <1>1, <1>2, <1>3, PTL DEF Spec

===============================================================================
