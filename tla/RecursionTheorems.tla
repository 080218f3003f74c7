--------------------------- MODULE RecursionTheorems ---------------------------
(***************************************************************************)
(* What the proofs about recursive functions and folds rest on: induction  *)
(* over the naturals, in a form that can be cited, powers of two, and      *)
(* sequences, of whatever they hold.                                       *)
(***************************************************************************)
EXTENDS SequencesExt, FiniteSetTheorems, FunctionTheorems, TLAPS

Below == {p \in Nat \X Nat : p[1] < p[2]}

\* Induction, with the numbers that have the property as a set.
LEMMA Induction ==
  ASSUME NEW S, 0 \in S, \A n \in Nat : n \in S => n + 1 \in S
  PROVE  Nat \subseteq S
  <1>. SUFFICES ASSUME Nat \ S # {} PROVE FALSE
    OBVIOUS
  <1>1. IsWellFoundedOn(Below, Nat)
    BY NatLessThanWellFounded DEF OpToRel, Below
  <1>2. PICK m \in Nat \ S : \A k \in Nat \ S : ~ (<<k, m>> \in Below)
    BY <1>1, WFMin, Nat \ S \subseteq Nat
  <1>3. m # 0 /\ m - 1 \in Nat /\ (m - 1) + 1 = m
    BY <1>2
  <1>4. m - 1 \notin S
    BY <1>2, <1>3
  <1>5. <<m - 1, m>> \in Below
    BY <1>3 DEF Below
  <1>. QED BY <1>2, <1>3, <1>4, <1>5

-----------------------------------------------------------------------------
\* A set with one element more has twice as many subsets.
LEMMA OneElementMore ==
  ASSUME NEW S, IsFiniteSet(S), NEW x, x \notin S
  PROVE  Cardinality(SUBSET (S \cup {x})) = 2 * Cardinality(SUBSET S)
  <1>. DEFINE Old == SUBSET S
              New == {t \cup {x} : t \in SUBSET S}
              f == [t \in SUBSET S |-> t \cup {x}]
  <1>1. SUBSET (S \cup {x}) = Old \cup New
    <2>1. ASSUME NEW t \in SUBSET (S \cup {x}), t \notin Old PROVE t \in New
      <3>1. x \in t /\ t \ {x} \in SUBSET S /\ t = (t \ {x}) \cup {x}
        BY <2>1
      <3>. QED BY <3>1
    <2>. QED BY <2>1
  <1>2. Old \cap New = {}
    OBVIOUS
  <1>3. IsFiniteSet(Old) /\ Cardinality(Old) \in Nat
    BY FS_SUBSET, FS_CardinalityType
  <1>4. IsFiniteSet(New) /\ Cardinality(New) = Cardinality(Old)
    <2>1. f \in [Old -> New]
      OBVIOUS
    <2>2. \A s, t \in Old : f[s] = f[t] => s = t
      <3>. SUFFICES ASSUME NEW s \in Old, NEW t \in Old, s \cup {x} = t \cup {x} PROVE s = t
        OBVIOUS
      <3>1. s = (s \cup {x}) \ {x} /\ t = (t \cup {x}) \ {x}
        OBVIOUS
      <3>. QED BY <3>1
    <2>3. \A u \in New : \E t \in Old : f[t] = u
      OBVIOUS
    <2>4. f \in Bijection(Old, New)
      <3>. HIDE DEF Old, New, f
      <3>. QED BY <2>1, <2>2, <2>3, Fun_IsBij
    <2>5. ExistsBijection(Old, New)
      <3>. HIDE DEF f
      <3>. QED BY <2>4 DEF ExistsBijection
    <2>. HIDE DEF Old, New, f
    <2>. QED BY <1>3, <2>5, FS_Bijection
  <1>5. Cardinality(Old \cup New) = Cardinality(Old) + Cardinality(New)
    <2>. HIDE DEF Old, New
    <2>. QED BY <1>2, <1>3, <1>4, FS_Union, FS_EmptySet
  <1>6. Cardinality(SUBSET (S \cup {x})) = Cardinality(Old \cup New)
    BY <1>1
  <1>7. Cardinality(Old \cup New) = 2 * Cardinality(Old)
    <2>. HIDE DEF Old, New
    <2>. QED BY <1>3, <1>4, <1>5
  <1>. QED BY <1>6, <1>7

\* Powers of two as the prover does not know them by itself.
LEMMA PowerDoubles ==
  ASSUME NEW n \in Nat
  PROVE  2 ^ n \in Nat \ {0} /\ 2 ^ (n + 1) = 2 * 2 ^ n
  <1>1. IsFiniteSet(1 .. n) /\ Cardinality(1 .. n) = n
    BY FS_Interval
  <1>2. IsFiniteSet(1 .. n + 1) /\ Cardinality(1 .. n + 1) = n + 1
    BY FS_Interval
  <1>3. 1 .. n + 1 = (1 .. n) \cup {n + 1} /\ n + 1 \notin 1 .. n
    OBVIOUS
  <1>4. Cardinality(SUBSET (1 .. n)) = 2 ^ n /\ Cardinality(SUBSET (1 .. n + 1)) = 2 ^ (n + 1)
    BY <1>1, <1>2, FS_SUBSET
  <1>5. Cardinality(SUBSET (1 .. n + 1)) = 2 * Cardinality(SUBSET (1 .. n))
    BY <1>1, <1>3, OneElementMore
  <1>6. IsFiniteSet(SUBSET (1 .. n)) /\ SUBSET (1 .. n) # {}
    BY <1>1, FS_SUBSET
  <1>7. Cardinality(SUBSET (1 .. n)) \in Nat \ {0}
    BY <1>6, FS_CardinalityType, FS_EmptySet
  <1>. QED BY <1>4, <1>5, <1>7
-----------------------------------------------------------------------------
(* Sequences of whatever they hold.                                        *)
IsSeq(s) == s \in Seq(Range(s))

LEMMA SeqFacts ==
  ASSUME NEW s, IsSeq(s)
  PROVE  /\ Len(s) \in Nat /\ DOMAIN s = 1 .. Len(s) /\ s = [i \in 1 .. Len(s) |-> s[i]]
         /\ s = <<>> <=> Len(s) = 0
  BY DEF IsSeq

LEMMA ASequence ==
  ASSUME NEW n \in Nat, NEW s, s = [i \in 1 .. n |-> s[i]]
  PROVE  IsSeq(s) /\ Len(s) = n
  <1>1. DOMAIN s = 1 .. n /\ \A i \in 1 .. n : s[i] \in Range(s)
    BY DEF Range
  <1>2. [i \in 1 .. n |-> s[i]] \in Seq(Range(s))
    BY <1>1
  <1>. QED BY <1>1, <1>2 DEF IsSeq

LEMMA SameLength ==
  ASSUME NEW s, IsSeq(s), NEW t, t = [i \in DOMAIN s |-> t[i]]
  PROVE  IsSeq(t) /\ Len(t) = Len(s)
  BY SeqFacts, ASequence

LEMMA AppendFacts ==
  ASSUME NEW s, IsSeq(s), NEW e
  PROVE  /\ IsSeq(Append(s, e)) /\ Len(Append(s, e)) = Len(s) + 1
         /\ \A i \in 1 .. Len(s) : Append(s, e)[i] = s[i]
         /\ Append(s, e)[Len(s) + 1] = e
  <1>. DEFINE S == Range(s) \cup {e}
              t == Append(s, e)
  <1>1. s \in Seq(S) /\ e \in S
    BY DEF IsSeq
  <1>2. /\ t \in Seq(S) /\ Len(t) = Len(s) + 1
        /\ \A i \in 1 .. Len(s) : t[i] = s[i]
        /\ t[Len(s) + 1] = e
    <2>. HIDE DEF S
    <2>. QED BY <1>1
  <1>3. Len(t) \in Nat /\ t = [i \in 1 .. Len(t) |-> t[i]]
    <2>. HIDE DEF S, t
    <2>. QED BY <1>2
  <1>4. IsSeq(t)
    <2>. HIDE DEF t
    <2>. QED BY <1>3, ASequence
  <1>. QED BY <1>2, <1>4

LEMMA FrontFacts ==
  ASSUME NEW s, IsSeq(s), s # <<>>
  PROVE  /\ IsSeq(Front(s)) /\ Len(Front(s)) = Len(s) - 1 /\ Len(s) - 1 \in Nat
         /\ \A i \in 1 .. Len(s) - 1 : Front(s)[i] = s[i]
  <1>1. Len(s) \in Nat \ {0}
    BY SeqFacts
  <1>2. /\ Front(s) = [i \in 1 .. Len(s) - 1 |-> Front(s)[i]]
        /\ \A i \in 1 .. Len(s) - 1 : Front(s)[i] = s[i]
    BY <1>1 DEF Front, IsSeq
  <1>. QED BY <1>1, <1>2, ASequence

LEMMA ConcatFacts ==
  ASSUME NEW s, IsSeq(s), NEW t, IsSeq(t)
  PROVE  /\ IsSeq(s \o t) /\ Len(s \o t) = Len(s) + Len(t)
         /\ \A i \in 1 .. Len(s) : (s \o t)[i] = s[i]
         /\ \A i \in 1 .. Len(t) : (s \o t)[Len(s) + i] = t[i]
  <1>. DEFINE S == Range(s) \cup Range(t)
              u == s \o t
  <1>1. s \in Seq(S) /\ t \in Seq(S)
    BY DEF IsSeq
  <1>2. /\ u \in Seq(S) /\ Len(u) = Len(s) + Len(t)
        /\ \A i \in 1 .. Len(s) : u[i] = s[i]
        /\ \A i \in 1 .. Len(t) : u[Len(s) + i] = t[i]
    <2>. HIDE DEF S
    <2>. QED BY <1>1
  <1>3. Len(u) \in Nat /\ u = [i \in 1 .. Len(u) |-> u[i]]
    <2>. HIDE DEF S, u
    <2>. QED BY <1>2
  <1>4. IsSeq(u)
    <2>. HIDE DEF u
    <2>. QED BY <1>3, ASequence
  <1>. QED BY <1>2, <1>4

\* The tail of a sequence.
LEMMA TailFacts ==
  ASSUME NEW s, IsSeq(s), NEW c \in 0 .. Len(s)
  PROVE  LET t == SubSeq(s, c + 1, Len(s))
         IN  /\ IsSeq(t) /\ Len(t) = Len(s) - c /\ Len(s) - c \in Nat
             /\ \A i \in 1 .. Len(s) - c : t[i] = s[c + i]
  <1>. DEFINE t == SubSeq(s, c + 1, Len(s))
  <1>1. Len(s) \in Nat /\ Len(s) - c \in Nat
    BY SeqFacts
  <1>2. /\ t = [i \in 1 .. Len(s) - c |-> t[i]]
        /\ \A i \in 1 .. Len(s) - c : t[i] = s[c + i]
    BY SMTT(60), <1>1 DEF IsSeq
  <1>. QED BY <1>1, <1>2, ASequence

\* The beginning of a sequence.
LEMMA HeadFacts ==
  ASSUME NEW s, IsSeq(s), NEW n \in 0 .. Len(s)
  PROVE  LET t == SubSeq(s, 1, n)
         IN  IsSeq(t) /\ Len(t) = n /\ \A i \in 1 .. n : t[i] = s[i]
  <1>. DEFINE t == SubSeq(s, 1, n)
  <1>1. n \in Nat /\ t = [i \in 1 .. n |-> t[i]] /\ \A i \in 1 .. n : t[i] = s[i]
    BY SeqFacts DEF IsSeq
  <1>. QED BY <1>1, ASequence

-----------------------------------------------------------------------------
(* The least and the greatest of a set of numbers.                         *)
LEMMA LeastOf ==
  ASSUME NEW s \in SUBSET Nat, s # {}
  PROVE  Min(s) \in s /\ \A x \in s : Min(s) <= x
  <1>1. IsWellFoundedOn(Below, Nat)
    BY NatLessThanWellFounded DEF OpToRel, Below
  <1>2. PICK m \in s : \A x \in s : ~ (<<x, m>> \in Below)
    BY <1>1, WFMin, s \subseteq Nat
  <1>3. ASSUME NEW x \in s PROVE m <= x
    <2>1. x \in Nat /\ m \in Nat /\ <<x, m>> \notin Below
      BY <1>2
    <2>2. ~ (x < m)
      BY <2>1 DEF Below
    <2>. QED BY <2>1, <2>2
  <1>. QED BY <1>3 DEF Min

LEMMA GreatestOf ==
  ASSUME NEW s \in SUBSET Nat, s # {}, IsFiniteSet(s)
  PROVE  Max(s) \in s /\ \A x \in s : x <= Max(s)
  <1>. DEFINE Bounded(t) == \E x \in t : \A y \in t : y <= x
              S == {n \in Nat : \A t \in SUBSET Nat :
                                  IsFiniteSet(t) /\ Cardinality(t) = n + 1 => Bounded(t)}
  <1>1. 0 \in S
    <2>1. ASSUME NEW t \in SUBSET Nat, IsFiniteSet(t), Cardinality(t) = 1 PROVE Bounded(t)
      <3>1. PICK x : t = {x}
        BY <2>1, FS_Singleton
      <3>. QED BY <3>1, x \in t, x <= x
    <2>. QED BY <2>1
  <1>2. ASSUME NEW n \in Nat, n \in S PROVE n + 1 \in S
    <2>1. ASSUME NEW t \in SUBSET Nat, IsFiniteSet(t), Cardinality(t) = (n + 1) + 1
          PROVE  Bounded(t)
      <3>1. PICK x \in t : TRUE
        <4>1. Cardinality(t) # 0
          BY <2>1
        <4>. QED BY <2>1, <4>1, FS_EmptySet
      <3>2. IsFiniteSet(t \ {x}) /\ Cardinality(t \ {x}) = n + 1 /\ t \ {x} \in SUBSET Nat
        BY <2>1, <3>1, FS_RemoveElement
      <3>3. PICK z \in t \ {x} : \A y \in t \ {x} : y <= z
        BY <1>2, <3>2
      <3>4. x \in Nat /\ z \in Nat /\ t \subseteq Nat
        BY <3>1, <3>3
      <3>. QED BY <3>1, <3>3, <3>4
    <2>. QED BY <2>1
  <1>3. Nat \subseteq S
    <2>. HIDE DEF S
    <2>. QED BY <1>1, <1>2, Induction
  <1>4. Cardinality(s) \in Nat /\ Cardinality(s) # 0
    BY FS_CardinalityType, FS_EmptySet
  <1>5. Cardinality(s) - 1 \in S /\ (Cardinality(s) - 1) + 1 = Cardinality(s)
    <2>. HIDE DEF S
    <2>. QED BY <1>3, <1>4
  <1>6. Bounded(s)
    BY <1>5
  <1>. QED BY <1>6 DEF Max

LEMMA TailIsSeq ==
  ASSUME NEW s, IsSeq(s), s # <<>>
  PROVE  /\ IsSeq(Tail(s)) /\ Len(Tail(s)) = Len(s) - 1 /\ Len(s) - 1 \in Nat
         /\ \A i \in 1 .. Len(s) - 1 : Tail(s)[i] = s[i + 1]
         /\ Head(s) = s[1]
  <1>1. Len(s) \in Nat \ {0}
    BY SeqFacts
  <1>. DEFINE S == Range(s)
              t == Tail(s)
  <1>2. s \in Seq(S)
    BY DEF IsSeq
  <1>3. /\ t \in Seq(S) /\ Len(t) = Len(s) - 1 /\ Head(s) = s[1]
        /\ \A i \in 1 .. Len(s) - 1 : t[i] = s[i + 1]
    <2>. HIDE DEF S
    <2>. QED BY <1>1, <1>2
  <1>4. Len(s) - 1 \in Nat /\ t = [i \in 1 .. Len(s) - 1 |-> t[i]]
    <2>. HIDE DEF S, t
    <2>. QED BY <1>1, <1>3
  <1>5. IsSeq(t)
    <2>. HIDE DEF S, t
    <2>. QED BY <1>4, ASequence
  <1>. QED BY <1>3, <1>4, <1>5

\* Short sequences.
LEMMA ShortSeqs ==
  /\ IsSeq(<<>>) /\ Len(<<>>) = 0
  /\ \A x : IsSeq(<<x>>) /\ Len(<<x>>) = 1 /\ <<x>> # <<>>
  <1>1. \A S : <<>> \in Seq(S)
    OBVIOUS
  <1>2. IsSeq(<<>>)
    BY <1>1 DEF IsSeq
  <1>3. ASSUME NEW x PROVE IsSeq(<<x>>)
    BY DEF IsSeq, Range
  <1>. QED BY <1>2, <1>3

\* The lengths of finitely many sequences.
LEMMA FiniteImage ==
  ASSUME NEW S, IsFiniteSet(S), NEW f, f = [x \in S |-> f[x]]
  PROVE  IsFiniteSet(Range(f))
  <1>1. f \in Surjection(S, Range(f))
    <2>1. f \in [S -> Range(f)] /\ \A y \in Range(f) : \E x \in S : f[x] = y
      BY DEF Range
    <2>. QED BY <2>1, Fun_IsSurj
  <1>. QED BY <1>1, FS_Surjection

\* Several elements at once are one after the other.
LEMMA AppendTwo ==
  ASSUME NEW s, IsSeq(s), NEW a, NEW b
  PROVE  s \o <<a, b>> = Append(Append(s, a), b)
  <1>. DEFINE pair == <<a, b>>
              u == s \o pair
              v == Append(s, a)
              w == Append(v, b)
              n == Len(s)
  <1>1. IsSeq(pair) /\ Len(pair) = 2 /\ pair[1] = a /\ pair[2] = b /\ n \in Nat
    BY SeqFacts DEF IsSeq, Range
  <1>2. /\ IsSeq(u) /\ Len(u) = n + 2 /\ u[n + 1] = a /\ u[n + 2] = b
        /\ \A i \in 1 .. n : u[i] = s[i]
    <2>. DEFINE S == Range(s) \cup {a, b}
    <2>1. s \in Seq(S) /\ pair \in Seq(S)
      BY DEF IsSeq
    <2>2. /\ u \in Seq(S) /\ Len(u) = n + 2 /\ u[n + 1] = a /\ u[n + 2] = b
          /\ \A i \in 1 .. n : u[i] = s[i]
      <3>. HIDE DEF S
      <3>. QED BY <1>1, <2>1
    <2>. HIDE DEF S, u
    <2>3. u = [i \in 1 .. n + 2 |-> u[i]]
      BY <1>1, <2>2
    <2>4. IsSeq(u)
      <3>1. n + 2 \in Nat
        BY <1>1
      <3>. HIDE DEF n
      <3>. QED BY <2>3, <3>1, ASequence
    <2>. QED BY <2>2, <2>4
  <1>3. IsSeq(v) /\ Len(v) = n + 1 /\ v[n + 1] = a /\ \A i \in 1 .. n : v[i] = s[i]
    BY AppendFacts
  <1>. HIDE DEF u, v
  <1>4. IsSeq(w) /\ Len(w) = (n + 1) + 1 /\ w[(n + 1) + 1] = b
        /\ \A i \in 1 .. n + 1 : w[i] = v[i]
    BY <1>3, AppendFacts
  <1>. HIDE DEF w, n
  <1>5. /\ u = [i \in 1 .. n + 2 |-> u[i]] /\ w = [i \in 1 .. n + 2 |-> w[i]]
        /\ \A i \in 1 .. n + 2 : u[i] = w[i]
    <2>1. (n + 1) + 1 = n + 2
      BY <1>1
    <2>2. u = [i \in 1 .. n + 2 |-> u[i]] /\ w = [i \in 1 .. n + 2 |-> w[i]]
      BY <1>2, <1>4, <2>1, SeqFacts
    <2>3. ASSUME NEW i \in 1 .. n + 2 PROVE u[i] = w[i]
      <3>1. CASE i = n + 2
        BY <1>2, <1>4, <2>1, <3>1
      <3>2. CASE i = n + 1
        <4>1. i \in 1 .. n + 1
          BY <1>1, <3>2
        <4>. QED BY <1>2, <1>3, <1>4, <3>2, <4>1
      <3>3. CASE i \in 1 .. n
        <4>1. i \in 1 .. n + 1
          BY <1>1, <3>3
        <4>. QED BY <1>2, <1>3, <1>4, <3>3, <4>1
      <3>. QED BY <1>1, <3>1, <3>2, <3>3
    <2>. QED BY <2>2, <2>3
  <1>6. u = w
    BY <1>5
  <1>. QED BY <1>6 DEF u, v, w

LEMMA AppendThree ==
  ASSUME NEW s, IsSeq(s), NEW a, NEW b, NEW c
  PROVE  s \o <<a, b, c>> = Append(Append(Append(s, a), b), c)
  <1>. DEFINE S == Range(s) \cup {a, b, c}
              u == s \o <<a, b, c>>
              w == s \o <<a, b>>
              v == Append(w, c)
              n == Len(s)
  <1>1. s \in Seq(S) /\ <<a, b, c>> \in Seq(S) /\ <<a, b>> \in Seq(S) /\ n \in Nat
    BY SeqFacts DEF IsSeq
  <1>2. /\ u \in Seq(S) /\ Len(u) = n + 3 /\ \A i \in 1 .. n : u[i] = s[i]
        /\ u[n + 1] = a /\ u[n + 2] = b /\ u[n + 3] = c
    <2>. HIDE DEF S
    <2>. QED BY <1>1
  <1>3. /\ w \in Seq(S) /\ Len(w) = n + 2 /\ \A i \in 1 .. n : w[i] = s[i]
        /\ w[n + 1] = a /\ w[n + 2] = b
    <2>. HIDE DEF S
    <2>. QED BY <1>1
  <1>4. c \in S
    OBVIOUS
  <1>. HIDE DEF S, u, w
  <1>5. /\ v \in Seq(S) /\ Len(v) = n + 3 /\ \A i \in 1 .. n + 2 : v[i] = w[i]
        /\ v[n + 3] = c
    BY <1>1, <1>3, <1>4
  <1>. HIDE DEF v, n
  <1>6. \A i \in 1 .. n + 3 : u[i] = v[i]
    <2>. SUFFICES ASSUME NEW i \in 1 .. n + 3 PROVE u[i] = v[i]
      OBVIOUS
    <2>1. CASE i = n + 3
      BY <1>2, <1>5, <2>1
    <2>2. CASE i \in 1 .. n + 2
      <3>1. i = n + 1 \/ i = n + 2 \/ i \in 1 .. n
        BY <1>1, <2>2
      <3>. QED BY <1>2, <1>3, <1>5, <2>2, <3>1
    <2>. QED BY <1>1, <2>1, <2>2
  <1>7. u = [i \in 1 .. n + 3 |-> u[i]] /\ v = [i \in 1 .. n + 3 |-> v[i]]
    BY <1>1, <1>2, <1>5
  <1>8. u = v
    BY <1>6, <1>7
  <1>. QED BY <1>8, AppendTwo DEF u, v, w

LEMMA EqualSeqs ==
  ASSUME NEW s, IsSeq(s), NEW t, IsSeq(t), Len(s) = Len(t),
         \A i \in 1 .. Len(s) : s[i] = t[i]
  PROVE  s = t
  <1>. DEFINE n == Len(s)
  <1>1. s = [i \in 1 .. n |-> s[i]] /\ t = [i \in 1 .. n |-> t[i]]
    BY SeqFacts
  <1>2. [i \in 1 .. n |-> s[i]] = [i \in 1 .. n |-> t[i]]
    OBVIOUS
  <1>. QED BY <1>1, <1>2

\* Texts that are put together, and parts of texts.
LEMMA ConcatNone ==
  ASSUME NEW s, IsSeq(s)
  PROVE  s \o <<>> = s /\ <<>> \o s = s
  <1>1. IsSeq(<<>>) /\ Len(<<>>) = 0 /\ Len(s) \in Nat
    BY ShortSeqs, SeqFacts
  <1>2. /\ IsSeq(s \o <<>>) /\ Len(s \o <<>>) = Len(s) + 0
        /\ \A i \in 1 .. Len(s) : (s \o <<>>)[i] = s[i]
    BY <1>1, ConcatFacts
  <1>3. /\ IsSeq(<<>> \o s) /\ Len(<<>> \o s) = 0 + Len(s)
        /\ \A i \in 1 .. Len(s) : (<<>> \o s)[0 + i] = s[i]
    BY <1>1, ConcatFacts
  <1>4. s \o <<>> = s
    BY <1>1, <1>2, EqualSeqs
  <1>5. <<>> \o s = s
    <2>1. Len(<<>> \o s) = Len(s) /\ \A i \in 1 .. Len(s) : (<<>> \o s)[i] = s[i]
      BY <1>1, <1>3
    <2>. QED BY <1>3, <2>1, EqualSeqs
  <1>. QED BY <1>4, <1>5

LEMMA ConcatAssociates ==
  ASSUME NEW s, IsSeq(s), NEW t, IsSeq(t), NEW u, IsSeq(u)
  PROVE  (s \o t) \o u = s \o (t \o u)
  <1>. DEFINE S == Range(s) \cup Range(t) \cup Range(u)
  <1>1. s \in Seq(S) /\ t \in Seq(S) /\ u \in Seq(S)
    BY DEF IsSeq
  <1>. HIDE DEF S
  <1>. QED BY <1>1

\* Some elements of a sequence.
LEMMA PartFacts ==
  ASSUME NEW s, IsSeq(s), NEW a \in 1 .. Len(s) + 1, NEW b \in 0 .. Len(s), a <= b + 1
  PROVE  LET t == SubSeq(s, a, b)
         IN  /\ IsSeq(t) /\ Len(t) = (b - a) + 1
             /\ \A i \in 1 .. (b - a) + 1 : t[i] = s[(a - 1) + i]
  <1>. DEFINE n == (b - a) + 1
              t == SubSeq(s, a, b)
  <1>1. n \in Nat /\ Len(s) \in Nat
    BY SeqFacts
  <1>2. t = [i \in 1 .. n |-> t[i]] /\ \A i \in 1 .. n : t[i] = s[(a - 1) + i]
    BY <1>1 DEF IsSeq
  <1>3. IsSeq(t) /\ Len(t) = n
    <2>. HIDE DEF t, n
    <2>. QED BY <1>1, <1>2, ASequence
  <1>. QED BY <1>2, <1>3
=============================================================================
