----------------------------- MODULE FoldTheorems -----------------------------
(***************************************************************************)
(* What a fold over a sequence computes, one element after the other.  The *)
(* step is a parameter, which the modules that use these facts define.     *)
(* Every instance brings along what this module extends, so Max and        *)
(* FoldLeft are repeated from the community modules, letter by letter.     *)
(***************************************************************************)
EXTENDS Integers, Sequences, Folds, WellFoundedInduction

CONSTANT op(_, _)

Max(S) == CHOOSE x \in S : \A y \in S : x >= y

FoldLeft(step(_, _), base, seq) ==
  MapThenFoldSet(LAMBDA x, y : step(y, x), base, LAMBDA i : seq[i], LAMBDA S : Max(S), DOMAIN seq)

Below == {p \in Nat \X Nat : p[1] < p[2]}

\* Induction, with the numbers that have the property as a set.
LEMMA Induction ==
  ASSUME NEW S, 0 \in S, \A n \in Nat : n \in S => n + 1 \in S
  PROVE  Nat \subseteq S
  <1>. SUFFICES ASSUME Nat \ S # {} PROVE FALSE
    OBVIOUS
  <1>1. IsWellFoundedOn(Below, Nat)
    BY NatLessThanWellFounded DEF OpToRel, Below
  <1>2. PICK m \in Nat \ S : \A k \in Nat \ S : ~ (<<k, m>> \in Below)
    BY <1>1, WFMin, Nat \ S \subseteq Nat
  <1>3. m # 0 /\ m - 1 \in Nat /\ (m - 1) + 1 = m
    BY <1>2
  <1>4. m - 1 \notin S
    BY <1>2, <1>3
  <1>5. <<m - 1, m>> \in Below
    BY <1>3 DEF Below
  <1>. QED BY <1>2, <1>3, <1>4, <1>5

\* FoldLeft takes the greatest index of a set away first.
LEMMA MaxOfSubset ==
  ASSUME NEW k \in Nat, NEW s \in SUBSET (1 .. k + 1), k + 1 \in s
  PROVE  Max(s) = k + 1
  <1>1. \E x \in s : \A y \in s : x >= y
    OBVIOUS
  <1>2. Max(s) \in s /\ \A y \in s : Max(s) >= y
    BY <1>1 DEF Max
  <1>3. Max(s) \in 1 .. k + 1 /\ Max(s) >= k + 1
    BY <1>2
  <1>. QED BY <1>3

\* The values on the way, first to last.
Stages(h, base, seq, n) ==
  /\ DOMAIN h = 0 .. n /\ h[0] = base
  /\ \A i \in 1 .. n : h[i] = op(h[i - 1], seq[i])

Iterates(f, base, seq, k) ==
  f = [s \in SUBSET (1 .. k) |-> IF s = {} THEN base ELSE op(f[s \ {Max(s)}], seq[Max(s)])]

LEMMA IterationExists ==
  ASSUME NEW base, NEW seq, NEW n \in Nat
  PROVE  \E f : Iterates(f, base, seq, n)
  <1>. DEFINE Good == {k \in Nat : \E f : Iterates(f, base, seq, k)}
  <1>1. 0 \in Good
    <2>. DEFINE f == [s \in SUBSET (1 .. 0) |-> base]
    <2>1. \A s \in SUBSET (1 .. 0) : s = {}
      OBVIOUS
    <2>2. Iterates(f, base, seq, 0)
      BY <2>1 DEF Iterates
    <2>. HIDE DEF f
    <2>. QED BY <2>2
  <1>2. ASSUME NEW k \in Nat, k \in Good PROVE k + 1 \in Good
    <2>1. PICK f : Iterates(f, base, seq, k)
      BY <1>2
    <2>. DEFINE Value(g, s) == IF s = {} THEN base ELSE op(g[s \ {Max(s)}], seq[Max(s)])
                g == [s \in SUBSET (1 .. k + 1) |->
                        IF k + 1 \in s THEN op(f[s \ {k + 1}], seq[k + 1]) ELSE f[s]]
    <2>2. \A s \in SUBSET (1 .. k) : k + 1 \notin s /\ s \in SUBSET (1 .. k + 1)
      OBVIOUS
    <2>3. \A s \in SUBSET (1 .. k) : g[s] = f[s] /\ f[s] = Value(f, s)
      BY <2>1, <2>2 DEF Iterates
    <2>4. ASSUME NEW s \in SUBSET (1 .. k + 1) PROVE g[s] = Value(g, s)
      <3>1. CASE k + 1 \in s
        <4>1. Max(s) = k + 1 /\ s \ {k + 1} \in SUBSET (1 .. k) /\ s # {}
          BY <3>1, MaxOfSubset
        <4>2. g[s] = op(f[s \ {k + 1}], seq[k + 1])
          BY <3>1
        <4>3. g[s \ {k + 1}] = f[s \ {k + 1}]
          BY <2>3, <4>1
        <4>. HIDE DEF g
        <4>. QED BY <4>1, <4>2, <4>3
      <3>2. CASE k + 1 \notin s /\ s # {}
        <4>1. s \in SUBSET (1 .. k) /\ s \ {Max(s)} \in SUBSET (1 .. k)
          <5>1. \A i \in 1 .. k + 1 : i # k + 1 => i \in 1 .. k
            OBVIOUS
          <5>2. s \subseteq 1 .. k
            BY <3>2, <5>1
          <5>. QED BY <5>2
        <4>2. g[s] = Value(f, s) /\ g[s \ {Max(s)}] = f[s \ {Max(s)}]
          BY <2>3, <4>1
        <4>. HIDE DEF g
        <4>. QED BY <3>2, <4>2
      <3>3. CASE s = {}
        <4>1. s \in SUBSET (1 .. k)
          BY <3>3
        <4>2. g[s] = Value(f, s)
          BY <2>3, <4>1
        <4>. HIDE DEF g
        <4>. QED BY <3>3, <4>2
      <3>. QED BY <3>1, <3>2, <3>3
    <2>5. DOMAIN g = SUBSET (1 .. k + 1) /\ g = [s \in SUBSET (1 .. k + 1) |-> g[s]]
      OBVIOUS
    <2>6. Iterates(g, base, seq, k + 1)
      <3>. HIDE DEF g
      <3>. QED BY <2>4, <2>5 DEF Iterates
    <2>. HIDE DEF g
    <2>. QED BY <2>6
  <1>3. Nat \subseteq Good
    <2>. HIDE DEF Good
    <2>. QED BY <1>1, <1>2, Induction
  <1>. QED BY <1>3

LEMMA StagesOfFold ==
  ASSUME NEW base, NEW seq, NEW n \in Nat, DOMAIN seq = 1 .. n
  PROVE  \E h : Stages(h, base, seq, n) /\ FoldLeft(op, base, seq) = h[n]
  <1>. DEFINE f == CHOOSE g : Iterates(g, base, seq, n)
              h == [i \in 0 .. n |-> f[1 .. i]]
  <1>1. Iterates(f, base, seq, n)
    BY IterationExists
  <1>2. FoldLeft(op, base, seq) = f[1 .. n]
    BY DEF FoldLeft, MapThenFoldSet, Iterates
  <1>. HIDE DEF f
  <1>3. h[0] = base
    <2>1. 1 .. 0 = {} /\ {} \in SUBSET (1 .. n)
      OBVIOUS
    <2>. QED BY <1>1, <2>1 DEF Iterates
  <1>4. ASSUME NEW i \in 1 .. n PROVE h[i] = op(h[i - 1], seq[i])
    <2>. DEFINE s == 1 .. i
    <2>1. /\ i - 1 \in Nat /\ (i - 1) + 1 = i /\ i - 1 \in 0 .. n /\ i \in 0 .. n
          /\ s \in SUBSET (1 .. n) /\ s # {} /\ i \in s
      OBVIOUS
    <2>2. Max(s) = i
      <3>. HIDE DEF s
      <3>1. s \in SUBSET (1 .. (i - 1) + 1)
        BY <2>1 DEF s
      <3>2. i - 1 \in Nat /\ (i - 1) + 1 \in s
        BY <2>1
      <3>3. Max(s) = (i - 1) + 1
        BY <3>1, <3>2, MaxOfSubset
      <3>. QED BY <2>1, <3>3
    <2>3. s \ {i} = 1 .. i - 1
      BY <2>1
    <2>4. f[s] = op(f[s \ {Max(s)}], seq[Max(s)])
      <3>. HIDE DEF s
      <3>. QED BY <1>1, <2>1 DEF Iterates
    <2>. QED BY <2>1, <2>2, <2>3, <2>4
  <1>5. Stages(h, base, seq, n) /\ h[n] = f[1 .. n]
    <2>1. DOMAIN h = 0 .. n /\ h[n] = f[1 .. n]
      OBVIOUS
    <2>. HIDE DEF h
    <2>. QED BY <1>3, <1>4, <2>1 DEF Stages
  <1>. HIDE DEF h
  <1>. QED BY <1>2, <1>5

\* What every step keeps, the fold has.
LEMMA FoldKeeps ==
  ASSUME NEW S, NEW base \in S, NEW seq, NEW n \in Nat, DOMAIN seq = 1 .. n,
         \A x \in S : \A i \in 1 .. n : op(x, seq[i]) \in S
  PROVE  FoldLeft(op, base, seq) \in S
  <1>1. PICK h : Stages(h, base, seq, n) /\ FoldLeft(op, base, seq) = h[n]
    BY StagesOfFold
  <1>. DEFINE T == {k \in Nat : k <= n => h[k] \in S}
  <1>2. 0 \in T
    BY <1>1 DEF Stages
  <1>3. ASSUME NEW k \in Nat, k \in T PROVE k + 1 \in T
    <2>1. CASE k + 1 <= n
      <3>1. k + 1 \in 1 .. n /\ (k + 1) - 1 = k /\ h[k] \in S
        BY <1>3, <2>1
      <3>2. h[k + 1] = op(h[k], seq[k + 1])
        BY <1>1, <3>1 DEF Stages
      <3>. QED BY <3>1, <3>2
    <2>. QED BY <2>1
  <1>4. Nat \subseteq T
    <2>. HIDE DEF T
    <2>. QED BY <1>2, <1>3, Induction
  <1>. QED BY <1>1, <1>4

-----------------------------------------------------------------------------
(* Folds of sequences that are put together.                               *)

Yields(h, base, seq, k) == h[0] = base /\ \A i \in 1 .. k : h[i] = op(h[i - 1], seq[i])

LEMMA StagesYield ==
  ASSUME NEW base, NEW seq, NEW n \in Nat, NEW h, Stages(h, base, seq, n), NEW k \in 0 .. n
  PROVE  Yields(h, base, seq, k)
  BY DEF Stages, Yields

\* The values on the way depend on no more than the elements so far.
LEMMA YieldsAgree ==
  ASSUME NEW base, NEW s, NEW t, NEW k \in Nat, NEW g, NEW h,
         Yields(g, base, s, k), Yields(h, base, t, k), \A i \in 1 .. k : s[i] = t[i]
  PROVE  g[k] = h[k]
  <1>. DEFINE S == {j \in Nat : j <= k => g[j] = h[j]}
  <1>1. 0 \in S
    BY DEF Yields
  <1>2. ASSUME NEW j \in Nat, j \in S PROVE j + 1 \in S
    <2>1. CASE j + 1 <= k
      <3>1. j + 1 \in 1 .. k /\ (j + 1) - 1 = j /\ s[j + 1] = t[j + 1] /\ g[j] = h[j]
        BY <1>2, <2>1
      <3>2. g[j + 1] = op(g[j], s[j + 1])
        BY <3>1 DEF Yields
      <3>3. h[j + 1] = op(h[j], t[j + 1])
        BY <3>1 DEF Yields
      <3>. QED BY <3>1, <3>2, <3>3
    <2>. QED BY <2>1
  <1>3. Nat \subseteq S
    <2>. HIDE DEF S
    <2>. QED BY <1>1, <1>2, Induction
  <1>. QED BY <1>3

LEMMA FoldOfNone ==
  ASSUME NEW base
  PROVE  FoldLeft(op, base, <<>>) = base
  <1>1. 0 \in Nat /\ DOMAIN <<>> = 1 .. 0
    OBVIOUS
  <1>2. PICK h : Stages(h, base, <<>>, 0) /\ FoldLeft(op, base, <<>>) = h[0]
    BY <1>1, StagesOfFold
  <1>. QED BY <1>2 DEF Stages

\* An element more is a step more.
LEMMA FoldOfAppended ==
  ASSUME NEW base, NEW S, NEW s \in Seq(S), NEW e
  PROVE  FoldLeft(op, base, Append(s, e)) = op(FoldLeft(op, base, s), e)
  <1>. DEFINE n == Len(s)
              t == Append(s, e)
  <1>1. n \in Nat /\ DOMAIN s = 1 .. n
    OBVIOUS
  <1>2. DOMAIN t = 1 .. n + 1 /\ t[n + 1] = e /\ \A i \in 1 .. n : s[i] = t[i]
    <2>1. s \in Seq(S \cup {e}) /\ e \in S \cup {e}
      OBVIOUS
    <2>. QED BY <2>1
  <1>. HIDE DEF n, t
  <1>3. PICK g : Stages(g, base, s, n) /\ FoldLeft(op, base, s) = g[n]
    BY <1>1, StagesOfFold
  <1>4. PICK h : Stages(h, base, t, n + 1) /\ FoldLeft(op, base, t) = h[n + 1]
    <2>1. n + 1 \in Nat
      BY <1>1
    <2>. QED BY <1>2, <2>1, StagesOfFold
  <1>5. g[n] = h[n]
    <2>1. n \in 0 .. n /\ n \in 0 .. n + 1 /\ n + 1 \in Nat
      BY <1>1
    <2>2. Yields(g, base, s, n) /\ Yields(h, base, t, n)
      BY <1>1, <1>3, <1>4, <2>1, StagesYield
    <2>. QED BY <1>1, <1>2, <2>2, YieldsAgree
  <1>6. h[n + 1] = op(h[n], t[n + 1])
    <2>1. n + 1 \in 1 .. n + 1 /\ (n + 1) - 1 = n
      BY <1>1
    <2>. QED BY <1>4, <2>1 DEF Stages
  <1>. QED BY <1>2, <1>3, <1>4, <1>5, <1>6 DEF t

LEMMA FoldOfOne ==
  ASSUME NEW base, NEW e
  PROVE  FoldLeft(op, base, <<e>>) = op(base, e)
  <1>1. <<e>> = Append(<<>>, e)
    OBVIOUS
  <1>2. FoldLeft(op, base, Append(<<>>, e)) = op(FoldLeft(op, base, <<>>), e)
    BY FoldOfAppended, <<>> \in Seq({})
  <1>. QED BY <1>1, <1>2, FoldOfNone

\* A fold of two sequences in a row goes on where the first one ends.
LEMMA FoldOfJoined ==
  ASSUME NEW base, NEW S, NEW s \in Seq(S), NEW T, NEW t \in Seq(T)
  PROVE  FoldLeft(op, base, s \o t) = FoldLeft(op, FoldLeft(op, base, s), t)
  <1>. DEFINE m == Len(s)
              n == Len(t)
              u == s \o t
              middle == FoldLeft(op, base, s)
  <1>1. m \in Nat /\ n \in Nat /\ DOMAIN s = 1 .. m /\ DOMAIN t = 1 .. n
    OBVIOUS
  <1>2. DOMAIN u = 1 .. m + n /\ (\A i \in 1 .. m : s[i] = u[i]) /\ \A i \in 1 .. n : t[i] = u[m + i]
    <2>1. s \in Seq(S \cup T) /\ t \in Seq(S \cup T)
      OBVIOUS
    <2>. QED BY <2>1
  <1>. HIDE DEF m, n, u
  <1>3. PICK g : Stages(g, base, s, m) /\ middle = g[m]
    BY <1>1, StagesOfFold
  <1>4. PICK h : Stages(h, base, u, m + n) /\ FoldLeft(op, base, u) = h[m + n]
    <2>1. m + n \in Nat
      BY <1>1
    <2>. QED BY <1>2, <2>1, StagesOfFold
  <1>. HIDE DEF middle
  <1>5. PICK k : Stages(k, middle, t, n) /\ FoldLeft(op, middle, t) = k[n]
    BY <1>1, StagesOfFold
  <1>6. g[m] = h[m]
    <2>1. m \in 0 .. m /\ m \in 0 .. m + n /\ m + n \in Nat
      BY <1>1
    <2>2. Yields(g, base, s, m) /\ Yields(h, base, u, m)
      BY <1>1, <1>3, <1>4, <2>1, StagesYield
    <2>. QED BY <1>1, <1>2, <2>2, YieldsAgree
  <1>. DEFINE rest == [i \in 0 .. n |-> h[m + i]]
  <1>7. Stages(rest, middle, t, n)
    <2>1. DOMAIN rest = 0 .. n /\ rest[0] = middle
      BY <1>1, <1>3, <1>6
    <2>2. ASSUME NEW i \in 1 .. n PROVE rest[i] = op(rest[i - 1], t[i])
      <3>1. /\ m + i \in 1 .. m + n /\ (m + i) - 1 = m + (i - 1) /\ i \in 0 .. n /\ i - 1 \in 0 .. n
            /\ t[i] = u[m + i]
        BY <1>1, <1>2
      <3>2. h[m + i] = op(h[(m + i) - 1], u[m + i])
        BY <1>4, <3>1 DEF Stages
      <3>3. rest[i] = h[m + i] /\ rest[i - 1] = h[m + (i - 1)]
        BY <3>1
      <3>. HIDE DEF rest
      <3>. QED BY <3>1, <3>2, <3>3
    <2>. HIDE DEF rest
    <2>. QED BY <2>1, <2>2 DEF Stages
  <1>8. rest[n] = h[m + n]
    BY <1>1
  <1>9. rest[n] = k[n]
    <2>. HIDE DEF rest
    <2>1. n \in 0 .. n /\ \A i \in 1 .. n : t[i] = t[i]
      BY <1>1
    <2>2. Yields(rest, middle, t, n) /\ Yields(k, middle, t, n)
      BY <1>1, <1>5, <1>7, <2>1, StagesYield
    <2>. QED BY <1>1, <2>1, <2>2, YieldsAgree
  <1>. HIDE DEF rest
  <1>. QED BY <1>4, <1>5, <1>8, <1>9 DEF u, middle

\* The first element first.
LEMMA FoldOfRest ==
  ASSUME NEW base, NEW S, NEW s \in Seq(S), s # <<>>
  PROVE  FoldLeft(op, base, s) = FoldLeft(op, op(base, Head(s)), Tail(s))
  <1>. DEFINE first == <<Head(s)>>
              rest == Tail(s)
  <1>1. first \in Seq(S) /\ rest \in Seq(S)
    OBVIOUS
  <1>2. s = first \o rest
    OBVIOUS
  <1>3. FoldLeft(op, base, first \o rest) = FoldLeft(op, FoldLeft(op, base, first), rest)
    <2>. HIDE DEF first, rest
    <2>. QED BY <1>1, FoldOfJoined
  <1>. QED BY <1>2, <1>3, FoldOfOne
=============================================================================
