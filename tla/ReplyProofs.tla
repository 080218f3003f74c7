----------------------------- MODULE ReplyProofs -----------------------------
(***************************************************************************)
(* What a client can put together from a streamed reply, for any items,    *)
(* modes and bounds: the text of Kiro, its calls, and what is recorded of  *)
(* them for the next request (ResponseStream).                             *)
(***************************************************************************)
EXTENDS ResponseStreamProofs

-----------------------------------------------------------------------------
(* A text without the characters of native reasoning.                      *)
StrainFold == INSTANCE FoldTheorems WITH op <- KeepOthers

StrainedFrom(out, kept, text) == FoldLeft(KeepOthers, [out |-> out, kept |-> kept], text)

LEMMA StrainFolds ==
  ASSUME NEW base, NEW text
  PROVE  FoldLeft(KeepOthers, base, text) = StrainFold!FoldLeft(KeepOthers, base, text)
  BY DEF FoldLeft, MapThenFoldSet, Max,
         StrainFold!FoldLeft, StrainFold!MapThenFoldSet, StrainFold!Max

\* h holds what is kept of the first n characters, after what was kept before.
Strains(h, out, kept, text, n) ==
  /\ h[0] = [out |-> out, kept |-> kept] /\ h[n] = StrainedFrom(out, kept, text)
  /\ \A i \in 1 .. n : h[i] = KeepOthers(h[i - 1], text[i])

LEMMA StrainsInStages ==
  ASSUME NEW out, NEW kept, NEW text, NEW n \in Nat, DOMAIN text = 1 .. n
  PROVE  \E h : Strains(h, out, kept, text, n)
  <1>. DEFINE base == [out |-> out, kept |-> kept]
  <1>1. \E h : /\ StrainFold!Stages(h, base, text, n)
               /\ StrainFold!FoldLeft(KeepOthers, base, text) = h[n]
    <2>. HIDE DEF base
    <2>. QED BY StrainFold!StagesOfFold
  <1>2. FoldLeft(KeepOthers, base, text) = StrainFold!FoldLeft(KeepOthers, base, text)
    BY StrainFolds
  <1>3. StrainedFrom(out, kept, text) = FoldLeft(KeepOthers, base, text)
    BY DEF StrainedFrom
  <1>4. base = [out |-> out, kept |-> kept]
    OBVIOUS
  <1>. HIDE DEF base
  <1>. QED BY <1>1, <1>2, <1>3, <1>4 DEF StrainFold!Stages, Strains

LEMMA KeepsOne ==
  ASSUME NEW out, NEW kept, NEW ch
  PROVE  KeepOthers([out |-> out, kept |-> kept], ch)
           = [out |-> out, kept |-> IF ch \in out THEN kept ELSE Append(kept, ch)]
  BY DEF KeepOthers

LEMMA StrainsOn ==
  ASSUME NEW out, NEW kept, IsSeq(kept), NEW text, IsSeq(text)
  PROVE  LET r == StrainedFrom(out, kept, text)
         IN  /\ r = [out |-> out, kept |-> kept \o Strained(out, text)]
             /\ IsSeq(Strained(out, text))
  <1>. DEFINE n == Len(text)
  <1>1. n \in Nat /\ DOMAIN text = 1 .. n
    BY SeqFacts
  <1>2. IsSeq(<<>>)
    BY ShortSeqs
  <1>. HIDE DEF n
  <1>3. PICK h : Strains(h, out, kept, text, n)
    BY <1>1, StrainsInStages
  <1>4. PICK g : Strains(g, out, <<>>, text, n)
    BY <1>1, StrainsInStages
  <1>. DEFINE Good(k) == \E more : /\ IsSeq(more) /\ g[k] = [out |-> out, kept |-> more]
                                   /\ h[k] = [out |-> out, kept |-> kept \o more]
              S == {k \in Nat : k <= n => Good(k)}
  <1>5. 0 \in S
    <2>1. kept \o <<>> = kept
      BY ConcatNone
    <2>2. g[0] = [out |-> out, kept |-> <<>>] /\ h[0] = [out |-> out, kept |-> kept \o <<>>]
      BY <1>3, <1>4, <2>1 DEF Strains
    <2>3. Good(0)
      BY <1>2, <2>2
    <2>. HIDE DEF Good
    <2>. QED BY <2>3
  <1>. HIDE DEF Good
  <1>6. ASSUME NEW k \in Nat, k \in S PROVE k + 1 \in S
    <2>1. CASE k + 1 <= n
      <3>1. k + 1 \in 1 .. n /\ (k + 1) - 1 = k /\ Good(k)
        BY <1>1, <1>6, <2>1
      <3>2. PICK more : /\ IsSeq(more) /\ g[k] = [out |-> out, kept |-> more]
                        /\ h[k] = [out |-> out, kept |-> kept \o more]
        BY <3>1 DEF Good
      <3>. DEFINE ch == text[k + 1]
                  longer == Append(more, ch)
      <3>3. g[k + 1] = KeepOthers(g[k], ch) /\ h[k + 1] = KeepOthers(h[k], ch)
        BY <1>3, <1>4, <3>1 DEF Strains
      <3>4. CASE ch \in out
        <4>1. g[k + 1] = g[k] /\ h[k + 1] = h[k]
          <5>. HIDE DEF ch
          <5>. QED BY <3>2, <3>3, <3>4, KeepsOne
        <4>2. Good(k + 1)
          BY <3>2, <4>1 DEF Good
        <4>. QED BY <4>2
      <3>5. CASE ch \notin out
        <4>1. IsSeq(longer) /\ Append(kept \o more, ch) = kept \o longer
          <5>. DEFINE T == Range(kept) \cup Range(more) \cup {ch}
          <5>1. IsSeq(longer)
            BY <3>2, AppendFacts
          <5>2. kept \in Seq(T) /\ more \in Seq(T) /\ ch \in T
            BY <3>2 DEF IsSeq
          <5>. HIDE DEF T, ch
          <5>3. Append(kept \o more, ch) = kept \o longer
            BY <5>2
          <5>. QED BY <5>1, <5>3
        <4>2. g[k + 1] = [out |-> out, kept |-> longer]
          <5>. HIDE DEF ch
          <5>. QED BY SMTT(60), <3>2, <3>3, <3>5, KeepsOne
        <4>3. h[k + 1] = [out |-> out, kept |-> Append(kept \o more, ch)]
          <5>. HIDE DEF ch
          <5>. QED BY SMTT(60), <3>2, <3>3, <3>5, KeepsOne
        <4>. HIDE DEF longer, ch
        <4>4. Good(k + 1)
          BY <4>1, <4>2, <4>3 DEF Good
        <4>. QED BY <4>4
      <3>. QED BY <3>4, <3>5
    <2>. QED BY <2>1
  <1>7. Good(n)
    <2>1. n \in S /\ n <= n
      <3>. HIDE DEF S
      <3>. QED BY <1>1, <1>5, <1>6, Induction
    <2>. QED BY <2>1
  <1>8. PICK more : /\ IsSeq(more) /\ g[n] = [out |-> out, kept |-> more]
                    /\ h[n] = [out |-> out, kept |-> kept \o more]
    BY <1>7 DEF Good
  <1>9. Strained(out, text) = more
    <2>1. StrainedFrom(out, <<>>, text).kept = more
      BY <1>4, <1>8 DEF Strains
    <2>. QED BY <2>1 DEF StrainedFrom, Strained
  <1>. QED BY <1>3, <1>8, <1>9 DEF Strains

LEMMA StrainedJoined ==
  ASSUME NEW out, NEW s, IsSeq(s), NEW t, IsSeq(t)
  PROVE  Strained(out, s \o t) = Strained(out, s) \o Strained(out, t)
  <1>. DEFINE base == [out |-> out, kept |-> <<>>]
              kept == Strained(out, s)
  <1>1. StrainFold!FoldLeft(KeepOthers, base, s \o t)
          = StrainFold!FoldLeft(KeepOthers, StrainFold!FoldLeft(KeepOthers, base, s), t)
    <2>. HIDE DEF base
    <2>. QED BY StrainFold!FoldOfJoined DEF IsSeq
  <1>2. FoldLeft(KeepOthers, base, s \o t) = FoldLeft(KeepOthers, FoldLeft(KeepOthers, base, s), t)
    <2>. HIDE DEF base
    <2>. QED BY <1>1, StrainFolds
  <1>3. IsSeq(<<>>) /\ IsSeq(kept)
    BY ShortSeqs, StrainsOn
  <1>4. FoldLeft(KeepOthers, base, s) = [out |-> out, kept |-> kept]
    <2>1. StrainedFrom(out, <<>>, s) = [out |-> out, kept |-> <<>> \o Strained(out, s)]
      BY <1>3, StrainsOn
    <2>2. <<>> \o Strained(out, s) = kept
      BY <1>3, ConcatNone
    <2>. QED BY <2>1, <2>2 DEF StrainedFrom
  <1>5. StrainedFrom(out, kept, t) = [out |-> out, kept |-> kept \o Strained(out, t)]
    <2>. HIDE DEF kept
    <2>. QED BY <1>3, StrainsOn
  <1>6. FoldLeft(KeepOthers, base, s \o t) = [out |-> out, kept |-> kept \o Strained(out, t)]
    <2>. HIDE DEF base, kept
    <2>. QED BY <1>2, <1>4, <1>5 DEF StrainedFrom
  <1>7. FoldLeft(KeepOthers, base, s \o t).kept = kept \o Strained(out, t)
    <2>. HIDE DEF base, kept
    <2>. QED BY <1>6
  <1>. QED BY <1>7 DEF Strained

\* Nothing is left of reasoning.
LEMMA StrainedAway ==
  ASSUME NEW out, NEW text, IsSeq(text), \A i \in 1 .. Len(text) : text[i] \in out
  PROVE  Strained(out, text) = <<>>
  <1>. DEFINE base == [out |-> out, kept |-> <<>>]
              S == {base}
  <1>1. Len(text) \in Nat /\ DOMAIN text = 1 .. Len(text) /\ base \in S
    BY SeqFacts
  <1>2. \A x \in S : \A i \in 1 .. Len(text) : KeepOthers(x, text[i]) \in S
    BY DEF KeepOthers
  <1>3. StrainFold!FoldLeft(KeepOthers, base, text) \in S
    <2>. HIDE DEF S, base
    <2>. QED BY <1>1, <1>2, StrainFold!FoldKeeps
  <1>4. FoldLeft(KeepOthers, base, text) = base
    <2>. HIDE DEF base
    <2>. QED BY <1>3, StrainFolds
  <1>. QED BY <1>4 DEF Strained

LEMMA StrainedNothing ==
  ASSUME NEW out
  PROVE  Strained(out, <<>>) = <<>>
  <1>1. IsSeq(<<>>) /\ Len(<<>>) = 0 /\ \A i \in 1 .. 0 : <<>>[i] \in out
    BY ShortSeqs
  <1>. QED BY <1>1, StrainedAway

-----------------------------------------------------------------------------
(* The text that was sent.                                                 *)
FreshFold == INSTANCE FoldTheorems WITH op <- AddFresh

SentNothing == [last |-> <<>>, whole |-> <<>>]

Sending(texts) == FoldLeft(AddFresh, SentNothing, texts)

LEMMA NothingSent == Sending(<<>>) = SentNothing
  <1>1. FreshFold!FoldLeft(AddFresh, SentNothing, <<>>) = SentNothing
    BY FreshFold!FoldOfNone
  <1>2. FreshFold!FoldLeft(AddFresh, SentNothing, <<>>) = FoldLeft(AddFresh, SentNothing, <<>>)
    BY DEF FoldLeft, MapThenFoldSet, Max,
           FreshFold!FoldLeft, FreshFold!MapThenFoldSet, FreshFold!Max
  <1>. QED BY <1>1, <1>2 DEF Sending

LEMMA SendingOn ==
  ASSUME NEW texts, IsSeq(texts), NEW text
  PROVE  Sending(Append(texts, text)) = AddFresh(Sending(texts), text)
  <1>1. FreshFold!FoldLeft(AddFresh, SentNothing, Append(texts, text))
          = AddFresh(FreshFold!FoldLeft(AddFresh, SentNothing, texts), text)
    BY FreshFold!FoldOfAppended DEF IsSeq
  <1>2. \A s : FreshFold!FoldLeft(AddFresh, SentNothing, s) = FoldLeft(AddFresh, SentNothing, s)
    BY DEF FoldLeft, MapThenFoldSet, Max,
           FreshFold!FoldLeft, FreshFold!MapThenFoldSet, FreshFold!Max
  <1>. QED BY <1>1, <1>2 DEF Sending

-----------------------------------------------------------------------------
(* The two texts of a reply.                                               *)
TextKinds == {"text", "thinking"}

AddThinking(text, block) == IF block.kind = "thinking" THEN text \o block.text ELSE text

ThinkingFold == INSTANCE FoldTheorems WITH op <- AddThinking

\* t holds the text of the first blocks, for each number of them.
Piles(t, kind, blocks, n) ==
  /\ t[0] = <<>>
  /\ \A i \in 1 .. n : t[i] = IF blocks[i].kind = kind THEN t[i - 1] \o blocks[i].text ELSE t[i - 1]

LEMMA TextInPiles ==
  ASSUME NEW kind \in TextKinds, NEW r, NEW n \in Nat, DOMAIN r.blocks = 1 .. n
  PROVE  \E t : Piles(t, kind, r.blocks, n) /\ TextOf(r, kind) = t[n]
  <1>1. CASE kind = "text"
    <2>1. PICK t : TextStages(t, r, n)
      BY TextInStages
    <2>. QED BY <1>1, <2>1 DEF TextStages, AddText, Piles
  <1>2. CASE kind = "thinking"
    <2>1. \E t : /\ ThinkingFold!Stages(t, <<>>, r.blocks, n)
                 /\ ThinkingFold!FoldLeft(AddThinking, <<>>, r.blocks) = t[n]
      BY ThinkingFold!StagesOfFold
    <2>2. ThinkingFold!FoldLeft(AddThinking, <<>>, r.blocks) = TextOf(r, "thinking")
      BY DEF TextOf, AddThinking, FoldLeft, MapThenFoldSet, Max,
             ThinkingFold!FoldLeft, ThinkingFold!MapThenFoldSet, ThinkingFold!Max
    <2>. QED BY <1>2, <2>1, <2>2 DEF ThinkingFold!Stages, AddThinking, Piles
  <1>. QED BY <1>1, <1>2 DEF TextKinds

LEMMA PilesAreSeqs ==
  ASSUME NEW kind, NEW r, HasBlocks(r), NEW n \in 0 .. Len(r.blocks), NEW t,
         Piles(t, kind, r.blocks, n)
  PROVE  \A k \in 0 .. n : IsSeq(t[k])
  <1>. DEFINE S == {k \in Nat : k <= n => IsSeq(t[k])}
  <1>0. n \in Nat /\ Len(r.blocks) \in Nat
    BY SeqFacts DEF HasBlocks
  <1>1. 0 \in S
    BY ShortSeqs DEF Piles
  <1>2. ASSUME NEW k \in Nat, k \in S PROVE k + 1 \in S
    <2>1. CASE k + 1 <= n
      <3>1. /\ k + 1 \in 1 .. n /\ (k + 1) - 1 = k /\ IsSeq(t[k]) /\ k + 1 \in 1 .. Len(r.blocks)
        BY <1>0, <1>2, <2>1
      <3>. DEFINE b == r.blocks[k + 1]
      <3>2. t[k + 1] = IF b.kind = kind THEN t[k] \o b.text ELSE t[k]
        BY <3>1 DEF Piles
      <3>3. IsSeq(b.text)
        BY <3>1 DEF HasBlocks, IsBlock
      <3>. HIDE DEF b
      <3>4. IsSeq(t[k] \o b.text)
        BY <3>1, <3>3, ConcatFacts
      <3>. QED BY <3>1, <3>2, <3>4
    <2>. QED BY <2>1
  <1>3. Nat \subseteq S
    <2>. HIDE DEF S
    <2>. QED BY <1>1, <1>2, Induction
  <1>. QED BY <1>0, <1>3

LEMMA TextIsSeq ==
  ASSUME NEW kind \in TextKinds, NEW r, HasBlocks(r)
  PROVE  IsSeq(TextOf(r, kind))
  <1>. DEFINE n == Len(r.blocks)
  <1>1. n \in Nat /\ DOMAIN r.blocks = 1 .. n
    BY SeqFacts DEF HasBlocks
  <1>2. PICK t : Piles(t, kind, r.blocks, n) /\ TextOf(r, kind) = t[n]
    BY <1>1, TextInPiles
  <1>3. n \in 0 .. n /\ n \in 0 .. Len(r.blocks)
    BY <1>1
  <1>. HIDE DEF n
  <1>. QED BY <1>2, <1>3, PilesAreSeqs

\* A block of a reply gets more text, the last one of its kind.
LEMMA TextOfPut ==
  ASSUME NEW kind \in TextKinds, NEW r, HasBlocks(r), NEW n \in 1 .. Len(r.blocks), NEW b,
         IsBlock(b), b.kind = r.blocks[n].kind, NEW more, IsSeq(more),
         b.text = r.blocks[n].text \o more,
         b.kind = kind => \A i \in 1 .. Len(r.blocks) : i > n => r.blocks[i].kind # kind
  PROVE  TextOf(Put(r, n, b), kind)
           = IF b.kind = kind THEN TextOf(r, kind) \o more ELSE TextOf(r, kind)
  <1>. DEFINE m == Len(r.blocks)
              s == Put(r, n, b)
  <1>1. m \in Nat /\ n \in Nat /\ n <= m /\ DOMAIN r.blocks = 1 .. m
    BY SeqFacts DEF HasBlocks
  <1>2. /\ HasBlocks(s) /\ Len(s.blocks) = m /\ s.blocks[n] = b
        /\ \A i \in 1 .. m : i # n => s.blocks[i] = r.blocks[i]
    BY BlockPut
  <1>. HIDE DEF s
  <1>3. DOMAIN s.blocks = 1 .. m
    BY <1>2, SeqFacts DEF HasBlocks
  <1>4. PICK t : Piles(t, kind, r.blocks, m) /\ TextOf(r, kind) = t[m]
    BY <1>1, TextInPiles
  <1>5. PICK u : Piles(u, kind, s.blocks, m) /\ TextOf(s, kind) = u[m]
    BY <1>1, <1>3, TextInPiles
  <1>6. \A k \in 0 .. m : IsSeq(t[k])
    <2>1. m \in 0 .. Len(r.blocks)
      BY <1>1
    <2>. HIDE DEF m
    <2>. QED BY <1>4, <2>1, PilesAreSeqs
  <1>. HIDE DEF m
  <1>. DEFINE Wanted(k) == IF k >= n /\ b.kind = kind THEN t[k] \o more ELSE t[k]
              S == {k \in Nat : k <= m => u[k] = Wanted(k)}
  <1>7. 0 \in S
    BY <1>1, <1>4, <1>5 DEF Piles
  <1>8. ASSUME NEW k \in Nat, k \in S PROVE k + 1 \in S
    <2>. SUFFICES ASSUME k + 1 <= m PROVE u[k + 1] = Wanted(k + 1)
      OBVIOUS
    <2>. DEFINE a == r.blocks[k + 1]
                c == s.blocks[k + 1]
    <2>1. k + 1 \in 1 .. m /\ (k + 1) - 1 = k /\ k <= m /\ k \in 0 .. m
      BY <1>1
    <2>2. t[k + 1] = IF a.kind = kind THEN t[k] \o a.text ELSE t[k]
      BY <1>4, <2>1 DEF Piles
    <2>3. u[k + 1] = IF c.kind = kind THEN u[k] \o c.text ELSE u[k]
      BY <1>5, <2>1 DEF Piles
    <2>4. u[k] = Wanted(k) /\ IsSeq(t[k])
      BY <1>6, <1>8, <2>1
    <2>5. CASE k + 1 < n
      <3>1. c = a /\ ~(k >= n) /\ ~(k + 1 >= n)
        BY <1>1, <1>2, <2>1, <2>5
      <3>. HIDE DEF a, c
      <3>. QED BY <2>2, <2>3, <2>4, <3>1
    <2>6. CASE k + 1 = n
      <3>1. c = b /\ a = r.blocks[n] /\ ~(k >= n) /\ k + 1 >= n
        BY <1>1, <1>2, <2>1, <2>6
      <3>2. IsSeq(a.text)
        BY <2>1 DEF HasBlocks, IsBlock, m
      <3>. HIDE DEF a, c
      <3>3. (t[k] \o a.text) \o more = t[k] \o (a.text \o more)
        <4>. DEFINE was == t[k]
                    added == a.text
        <4>1. IsSeq(was) /\ IsSeq(added)
          BY <2>4, <3>2
        <4>. HIDE DEF was, added
        <4>2. (was \o added) \o more = was \o (added \o more)
          BY <4>1, ConcatAssociates
        <4>. QED BY <4>2 DEF was, added
      <3>. QED BY <2>2, <2>3, <2>4, <3>1, <3>3
    <2>7. CASE k + 1 > n
      <3>1. c = a /\ k >= n /\ k + 1 >= n /\ (b.kind = kind => a.kind # kind)
        BY <1>1, <1>2, <2>1, <2>7 DEF m
      <3>. HIDE DEF a, c
      <3>. QED BY <2>2, <2>3, <2>4, <3>1
    <2>. QED BY <1>1, <2>5, <2>6, <2>7
  <1>9. u[m] = Wanted(m)
    <2>1. m \in S /\ m <= m
      <3>. HIDE DEF S
      <3>. QED BY <1>1, <1>7, <1>8, Induction
    <2>. QED BY <2>1
  <1>10. m >= n
    BY <1>1
  <1>. QED BY <1>4, <1>5, <1>9, <1>10 DEF s

\* The block b, put in the place of the n-th, has more of its text.
PutsMore(kind, r, n, b, more) ==
  /\ IsBlock(b) /\ b.kind = r.blocks[n].kind /\ IsSeq(more) /\ b.text = r.blocks[n].text \o more
  /\ b.kind = kind => \A i \in 1 .. Len(r.blocks) : i > n => r.blocks[i].kind # kind

LEMMA TextPut ==
  ASSUME NEW kind \in TextKinds, NEW r, HasBlocks(r), NEW n \in 1 .. Len(r.blocks), NEW b, NEW more,
         PutsMore(kind, r, n, b, more)
  PROVE  TextOf(Put(r, n, b), kind)
           = IF b.kind = kind THEN TextOf(r, kind) \o more ELSE TextOf(r, kind)
  BY ZenonT(60), TextOfPut DEF PutsMore

\* A reply goes on with blocks of other kinds.
LEMMA TextOfLonger ==
  ASSUME NEW kind \in TextKinds, NEW r, HasBlocks(r), NEW s, HasBlocks(s),
         NEW m \in Nat, Len(s.blocks) = Len(r.blocks) + m,
         \A i \in 1 .. Len(r.blocks) : s.blocks[i] = r.blocks[i],
         \A i \in 1 .. m : s.blocks[Len(r.blocks) + i].kind # kind
  PROVE  TextOf(s, kind) = TextOf(r, kind)
  <1>. DEFINE n == Len(r.blocks)
  <1>1. n \in Nat /\ n + m \in Nat /\ DOMAIN r.blocks = 1 .. n /\ DOMAIN s.blocks = 1 .. n + m
    BY SeqFacts DEF HasBlocks
  <1>2. PICK t : Piles(t, kind, r.blocks, n) /\ TextOf(r, kind) = t[n]
    BY <1>1, TextInPiles
  <1>3. PICK u : Piles(u, kind, s.blocks, n + m) /\ TextOf(s, kind) = u[n + m]
    BY <1>1, TextInPiles
  <1>. DEFINE S == {k \in Nat : k <= n + m => u[k] = IF k <= n THEN t[k] ELSE t[n]}
  <1>4. 0 \in S
    BY <1>1, <1>2, <1>3 DEF Piles
  <1>5. ASSUME NEW k \in Nat, k \in S PROVE k + 1 \in S
    <2>. SUFFICES ASSUME k + 1 <= n + m
                  PROVE  u[k + 1] = IF k + 1 <= n THEN t[k + 1] ELSE t[n]
      BY <1>5
    <2>. DEFINE c == s.blocks[k + 1]
    <2>1. /\ k + 1 \in 1 .. n + m /\ (k + 1) - 1 = k
          /\ u[k] = IF k <= n THEN t[k] ELSE t[n]
      BY <1>1, <1>5
    <2>2. u[k + 1] = IF c.kind = kind THEN u[k] \o c.text ELSE u[k]
      BY <1>3, <2>1 DEF Piles
    <2>3. CASE k + 1 <= n
      <3>1. k + 1 \in 1 .. n /\ k <= n /\ c = r.blocks[k + 1]
        BY <1>1, <2>3
      <3>2. t[k + 1] = IF c.kind = kind THEN t[k] \o c.text ELSE t[k]
        BY <1>2, <2>1, <3>1 DEF Piles
      <3>3. u[k] = t[k]
        BY <2>1, <3>1
      <3>4. u[k + 1] = t[k + 1]
        BY <2>2, <3>2, <3>3, Zenon
      <3>. QED BY <2>3, <3>4
    <2>4. CASE k + 1 > n
      <3>. DEFINE i == (k + 1) - n
      <3>1. i \in 1 .. m /\ n + i = k + 1
        <4>1. n \in Nat /\ k + 1 <= n + m
          BY <1>1, <2>1
        <4>. HIDE DEF n
        <4>. QED BY <4>1, <2>4
      <3>2. s.blocks[n + i].kind # kind
        BY <3>1
      <3>3. c.kind # kind
        BY <3>1, <3>2
      <3>4. k <= n => k = n
        BY <1>1, <2>4
      <3>. HIDE DEF c, n
      <3>. QED BY <1>1, <2>1, <2>2, <2>4, <3>3, <3>4
    <2>. QED BY <1>1, <2>3, <2>4
  <1>6. n + m \in S
    <2>. HIDE DEF S
    <2>. QED BY <1>1, <1>4, <1>5, Induction
  <1>7. n + m <= n => n + m = n
    BY <1>1
  <1>8. u[n + m] = t[n]
    <2>1. u[n + m] = IF n + m <= n THEN t[n + m] ELSE t[n]
      BY <1>6, n + m <= n + m
    <2>. HIDE DEF n
    <2>. QED BY <1>7, <2>1
  <1>. QED BY <1>2, <1>3, <1>8

\* A reply has a block more.
LEMMA TextOfWith ==
  ASSUME NEW kind \in TextKinds, NEW r, HasBlocks(r), NEW b, IsBlock(b)
  PROVE  TextOf(With(r, b), kind)
           = IF b.kind = kind THEN TextOf(r, kind) \o b.text ELSE TextOf(r, kind)
  <1>. DEFINE n == Len(r.blocks)
              s == With(r, b)
  <1>1. n \in Nat /\ DOMAIN r.blocks = 1 .. n
    BY SeqFacts DEF HasBlocks
  <1>2. /\ HasBlocks(s) /\ Len(s.blocks) = n + 1 /\ s.blocks[n + 1] = b
        /\ \A i \in 1 .. n : s.blocks[i] = r.blocks[i]
    BY BlockAdded
  <1>. HIDE DEF s
  <1>3. DOMAIN s.blocks = 1 .. n + 1 /\ n + 1 \in Nat
    BY <1>1, <1>2, SeqFacts DEF HasBlocks
  <1>4. PICK t : Piles(t, kind, r.blocks, n) /\ TextOf(r, kind) = t[n]
    BY <1>1, TextInPiles
  <1>5. PICK u : Piles(u, kind, s.blocks, n + 1) /\ TextOf(s, kind) = u[n + 1]
    BY <1>3, TextInPiles
  <1>. HIDE DEF n
  <1>. DEFINE S == {k \in Nat : k <= n => u[k] = t[k]}
  <1>6. 0 \in S
    BY <1>1, <1>4, <1>5 DEF Piles
  <1>7. ASSUME NEW k \in Nat, k \in S PROVE k + 1 \in S
    <2>. SUFFICES ASSUME k + 1 <= n PROVE u[k + 1] = t[k + 1]
      BY <1>7
    <2>1. /\ k + 1 \in 1 .. n /\ k + 1 \in 1 .. n + 1 /\ (k + 1) - 1 = k /\ u[k] = t[k]
          /\ s.blocks[k + 1] = r.blocks[k + 1]
      BY <1>1, <1>2, <1>7
    <2>. DEFINE a == r.blocks[k + 1]
    <2>2. t[k + 1] = IF a.kind = kind THEN t[k] \o a.text ELSE t[k]
      BY <1>4, <2>1 DEF Piles
    <2>3. u[k + 1] = IF a.kind = kind THEN u[k] \o a.text ELSE u[k]
      BY <1>5, <2>1 DEF Piles
    <2>. HIDE DEF a
    <2>. QED BY <2>1, <2>2, <2>3
  <1>8. u[n] = t[n]
    <2>1. n \in S /\ n <= n
      <3>. HIDE DEF S
      <3>. QED BY <1>1, <1>6, <1>7, Induction
    <2>. QED BY <2>1
  <1>9. u[n + 1] = IF b.kind = kind THEN u[n] \o b.text ELSE u[n]
    <2>1. n + 1 \in 1 .. n + 1 /\ (n + 1) - 1 = n
      BY <1>1
    <2>. QED BY <1>2, <1>5, <2>1 DEF Piles
  <1>. QED BY <1>4, <1>5, <1>8, <1>9 DEF s

-----------------------------------------------------------------------------
(* What is told of a reply: its texts, its calls, the reason of its end.   *)
MarkOf(c) == [id |-> c.id, name |-> c.name, truncated |-> c.truncated]

IdsOf(marks) == {m.id : m \in marks}

\* A block of a call and no other holds a call.
HasItsCall(b) ==
  /\ b.kind = "tool_use" <=> b.call # <<>>
  /\ b.call # <<>> => IsCall(b.call[1])

\* Every call has an id of its own, and a chat completion has one text of a kind.
Apart(a, b) ==
  a.kind = b.kind =>
    IF a.kind = "tool_use" THEN a.call[1].id # b.call[1].id ELSE dialect = "anthropic"

Sound(r) ==
  /\ \A i \in 1 .. Len(r.blocks) : HasItsCall(r.blocks[i])
  /\ \A i, j \in 1 .. Len(r.blocks) : i # j => Apart(r.blocks[i], r.blocks[j])

MarksOf(r) == {MarkOf(c) : c \in CallsOf(r)}

LedgerOf(r) ==
  [last     |-> IF dialect = "openai" \/ r.blocks = <<>> THEN "none"
                ELSE r.blocks[Len(r.blocks)].kind,
   text     |-> TextOf(r, "text"),
   thinking |-> TextOf(r, "thinking"),
   marks    |-> MarksOf(r),
   reason   |-> r.reason,
   flaws    |-> IF Sound(r) THEN {} ELSE {"reply"}]

LEMMA MarksAre ==
  ASSUME NEW r, HasBlocks(r), NEW m
  PROVE  m \in MarksOf(r) <=>
           \E i \in 1 .. Len(r.blocks) : r.blocks[i].call # <<>> /\ m = MarkOf(r.blocks[i].call[1])
  <1>1. DOMAIN r.blocks = 1 .. Len(r.blocks)
    BY SeqFacts DEF HasBlocks
  <1>. QED BY <1>1 DEF MarksOf, CallsOf

\* A block whose call stays the same one, and its kind.
LEMMA PutKeeps ==
  ASSUME NEW r, HasBlocks(r), Sound(r), NEW n \in 1 .. Len(r.blocks), NEW b, IsBlock(b),
         NEW a, a = r.blocks[n], b.kind = a.kind,
         \/ b.call = a.call
         \/ /\ a.call # <<>> /\ b.call # <<>> /\ IsCall(b.call[1])
            /\ MarkOf(b.call[1]) = MarkOf(a.call[1])
  PROVE  Sound(Put(r, n, b)) /\ MarksOf(Put(r, n, b)) = MarksOf(r)
  <1>. DEFINE s == Put(r, n, b)
  <1>1. /\ HasBlocks(s) /\ Len(s.blocks) = Len(r.blocks) /\ s.blocks[n] = b
        /\ \A i \in 1 .. Len(r.blocks) : i # n => s.blocks[i] = r.blocks[i]
    BY BlockPut
  <1>. HIDE DEF s
  <1>2. HasItsCall(a)
    BY DEF Sound
  <1>3. /\ HasItsCall(b) /\ (b.call # <<>> <=> a.call # <<>>)
        /\ b.call # <<>> => MarkOf(b.call[1]) = MarkOf(a.call[1]) /\ b.call[1].id = a.call[1].id
    <2>1. b.call # <<>> => MarkOf(b.call[1]) = MarkOf(a.call[1])
      OBVIOUS
    <2>2. MarkOf(b.call[1]) = MarkOf(a.call[1]) => b.call[1].id = a.call[1].id
      BY DEF MarkOf
    <2>. QED BY <1>2, <2>1, <2>2 DEF HasItsCall
  <1>4. \A i \in 1 .. Len(s.blocks) : HasItsCall(s.blocks[i])
    BY <1>1, <1>3 DEF Sound
  <1>5. \A x : (Apart(a, x) /\ HasItsCall(a) => Apart(b, x)) /\ (Apart(x, a) /\ HasItsCall(a) => Apart(x, b))
    BY <1>3 DEF Apart, HasItsCall
  <1>6. \A i, j \in 1 .. Len(s.blocks) : i # j => Apart(s.blocks[i], s.blocks[j])
    BY <1>1, <1>2, <1>5 DEF Sound
  <1>7. MarksOf(s) = MarksOf(r)
    <2>1. ASSUME NEW m PROVE m \in MarksOf(s) <=> m \in MarksOf(r)
      <3>1. \A i \in 1 .. Len(r.blocks) :
              /\ s.blocks[i].call # <<>> <=> r.blocks[i].call # <<>>
              /\ s.blocks[i].call # <<>> => MarkOf(s.blocks[i].call[1]) = MarkOf(r.blocks[i].call[1])
        BY <1>1, <1>3
      <3>. QED BY <1>1, <3>1, MarksAre
    <2>. QED BY <2>1
  <1>. QED BY <1>4, <1>6, <1>7 DEF s, Sound

\* A block more, with a call of its own if it is one of a call.
LEMMA WithKeeps ==
  ASSUME NEW r, HasBlocks(r), Sound(r), NEW b, IsBlock(b), HasItsCall(b),
         b.call # <<>> => b.call[1].id \notin IdsOf(MarksOf(r)),
         b.kind # "tool_use" =>
           dialect = "anthropic" \/ \A i \in 1 .. Len(r.blocks) : r.blocks[i].kind # b.kind
  PROVE  /\ Sound(With(r, b))
         /\ MarksOf(With(r, b))
              = MarksOf(r) \cup (IF b.kind = "tool_use" THEN {MarkOf(b.call[1])} ELSE {})
  <1>. DEFINE s == With(r, b)
              n == Len(r.blocks)
  <1>1. /\ HasBlocks(s) /\ n \in Nat /\ Len(s.blocks) = n + 1 /\ s.blocks[n + 1] = b
        /\ \A i \in 1 .. n : s.blocks[i] = r.blocks[i]
    BY BlockAdded
  <1>. HIDE DEF s
  <1>2. 1 .. n + 1 = (1 .. n) \cup {n + 1} /\ n + 1 \notin 1 .. n
    BY <1>1
  <1>3. \A i \in 1 .. n : HasItsCall(r.blocks[i])
    BY DEF Sound
  <1>4. \A i \in 1 .. Len(s.blocks) : HasItsCall(s.blocks[i])
    BY <1>1, <1>2, <1>3
  <1>5. ASSUME NEW i \in 1 .. n PROVE Apart(r.blocks[i], b) /\ Apart(b, r.blocks[i])
    <2>. DEFINE a == r.blocks[i]
    <2>1. CASE b.kind = "tool_use" /\ a.kind = "tool_use"
      <3>1. a.call # <<>> /\ b.call # <<>>
        BY <1>3, <2>1 DEF HasItsCall
      <3>2. MarkOf(a.call[1]) \in MarksOf(r)
        BY <3>1, MarksAre
      <3>3. MarkOf(a.call[1]).id = a.call[1].id
        BY DEF MarkOf
      <3>4. a.call[1].id # b.call[1].id
        BY <3>1, <3>2, <3>3 DEF IdsOf
      <3>. QED BY <2>1, <3>4 DEF Apart
    <2>2. CASE b.kind # a.kind
      BY <2>2 DEF Apart
    <2>3. CASE b.kind = a.kind /\ b.kind # "tool_use"
      BY <2>3 DEF Apart
    <2>. QED BY <2>1, <2>2, <2>3
  <1>6. \A i, j \in 1 .. Len(s.blocks) : i # j => Apart(s.blocks[i], s.blocks[j])
    <2>. SUFFICES ASSUME NEW i \in 1 .. n + 1, NEW j \in 1 .. n + 1, i # j
                  PROVE  Apart(s.blocks[i], s.blocks[j])
      BY <1>1
    <2>1. CASE i \in 1 .. n /\ j \in 1 .. n
      BY <1>1, <2>1 DEF Sound
    <2>2. CASE i = n + 1 /\ j \in 1 .. n
      BY <1>1, <1>5, <2>2
    <2>3. CASE i \in 1 .. n /\ j = n + 1
      BY <1>1, <1>5, <2>3
    <2>. QED BY <1>2, <2>1, <2>2, <2>3
  <1>7. ASSUME NEW m
        PROVE  m \in MarksOf(s) <=>
                 m \in MarksOf(r) \/ (b.kind = "tool_use" /\ m = MarkOf(b.call[1]))
    <2>. DEFINE Marks(x) == x.call # <<>> /\ m = MarkOf(x.call[1])
    <2>1. m \in MarksOf(s) <=> \E i \in 1 .. n + 1 : Marks(s.blocks[i])
      BY <1>1, MarksAre
    <2>2. m \in MarksOf(r) <=> \E i \in 1 .. n : Marks(r.blocks[i])
      BY MarksAre
    <2>3. Marks(b) <=> b.kind = "tool_use" /\ m = MarkOf(b.call[1])
      BY DEF HasItsCall
    <2>. HIDE DEF Marks, n
    <2>. QED BY <1>1, <1>2, <2>1, <2>2, <2>3
  <1>8. MarksOf(s) = MarksOf(r) \cup (IF b.kind = "tool_use" THEN {MarkOf(b.call[1])} ELSE {})
    <2>. HIDE DEF s
    <2>. QED BY <1>7
  <1>. QED BY <1>4, <1>6, <1>8 DEF s, Sound

\* The calls of a list are calls, each with an id of its own.
Distinct(calls) ==
  /\ \A i \in 1 .. Len(calls) : IsCall(calls[i])
  /\ \A i, j \in 1 .. Len(calls) : calls[i].id = calls[j].id => i = j

MarksIn(calls) == {MarkOf(calls[i]) : i \in 1 .. Len(calls)}

\* The blocks of a list of calls.
LEMMA CallBlocks ==
  ASSUME NEW r, HasBlocks(r), NEW calls, IsSeq(calls)
  PROVE  LET s == AddCalls(r, calls)
             n == Len(r.blocks)
             m == Len(calls)
         IN  /\ HasBlocks(s) /\ RestAlike(r, s) /\ n \in Nat /\ m \in Nat /\ Len(s.blocks) = n + m
             /\ \A i \in 1 .. n : s.blocks[i] = r.blocks[i]
             /\ \A i \in 1 .. m : /\ s.blocks[n + i].kind = "tool_use"
                                  /\ s.blocks[n + i].call = <<calls[i]>>
             /\ \A i \in 1 .. n + m : i \in 1 .. n \/ \E j \in 1 .. m : i = n + j
  <1>. DEFINE Shut(call) == [Block(0, "tool_use", <<call>>) EXCEPT !.open = FALSE]
              parts == [i \in DOMAIN calls |-> Shut(calls[i])]
              all == r.blocks \o parts
              n == Len(r.blocks)
              m == Len(calls)
              s == AddCalls(r, calls)
  <1>1. \A call : Shut(call).kind = "tool_use" /\ Shut(call).call = <<call>>
    BY DEF Block
  <1>2. n \in Nat /\ m \in Nat /\ DOMAIN calls = 1 .. m
    BY SeqFacts DEF HasBlocks
  <1>3. HasBlocks(s) /\ RestAlike(r, s)
    BY CallsAdded
  <1>4. s.blocks = all
    BY DEF AddCalls, HasBlocks, ReplyFields
  <1>. HIDE DEF Shut, s
  <1>5. parts = [i \in DOMAIN calls |-> parts[i]] /\ \A i \in 1 .. m : parts[i] = Shut(calls[i])
    BY <1>2
  <1>. HIDE DEF parts
  <1>6. IsSeq(parts) /\ Len(parts) = m
    BY <1>5, SameLength
  <1>7. /\ Len(all) = n + m /\ \A i \in 1 .. n : all[i] = r.blocks[i]
        /\ \A i \in 1 .. m : all[n + i] = Shut(calls[i])
    <2>1. /\ Len(all) = Len(r.blocks) + Len(parts)
          /\ \A i \in 1 .. Len(r.blocks) : all[i] = r.blocks[i]
          /\ \A i \in 1 .. Len(parts) : all[Len(r.blocks) + i] = parts[i]
      BY SMTT(60), <1>6, ConcatFacts DEF HasBlocks
    <2>. QED BY <1>5, <1>6, <2>1
  <1>. HIDE DEF all
  <1>8. \A i \in 1 .. n + m : i \in 1 .. n \/ \E j \in 1 .. m : i = n + j
    <2>. SUFFICES ASSUME NEW i \in 1 .. n + m, i \notin 1 .. n PROVE \E j \in 1 .. m : i = n + j
      OBVIOUS
    <2>1. i - n \in 1 .. m /\ i = n + (i - n)
      BY <1>2
    <2>. QED BY <2>1
  <1>. QED BY <1>1, <1>2, <1>3, <1>4, <1>7, <1>8 DEF s

\* The calls of a chat completion come when it has none.
LEMMA CallsKeep ==
  ASSUME dialect = "openai", NEW r, HasBlocks(r), Sound(r), MarksOf(r) = {},
         NEW calls, IsSeq(calls), Distinct(calls)
  PROVE  LET s == AddCalls(r, calls)
         IN  /\ Sound(s) /\ MarksOf(s) = MarksIn(calls)
             /\ \A kind \in TextKinds : TextOf(s, kind) = TextOf(r, kind)
  <1>. DEFINE s == AddCalls(r, calls)
              n == Len(r.blocks)
              m == Len(calls)
  <1>1. /\ HasBlocks(s) /\ n \in Nat /\ m \in Nat /\ Len(s.blocks) = n + m
        /\ \A i \in 1 .. n : s.blocks[i] = r.blocks[i]
        /\ \A i \in 1 .. m : s.blocks[n + i].kind = "tool_use" /\ s.blocks[n + i].call = <<calls[i]>>
        /\ \A i \in 1 .. n + m : i \in 1 .. n \/ \E j \in 1 .. m : i = n + j
    BY CallBlocks
  <1>. HIDE DEF s
  <1>2. \A i \in 1 .. n : HasItsCall(r.blocks[i]) /\ r.blocks[i].call = <<>> /\ r.blocks[i].kind # "tool_use"
    <2>. SUFFICES ASSUME NEW i \in 1 .. n
                  PROVE  HasItsCall(r.blocks[i]) /\ r.blocks[i].call = <<>>
      BY DEF HasItsCall
    <2>1. r.blocks[i].call # <<>> => MarkOf(r.blocks[i].call[1]) \in MarksOf(r)
      BY MarksAre
    <2>. QED BY <2>1 DEF Sound
  <1>3. \A i \in 1 .. m : <<calls[i]>> # <<>> /\ <<calls[i]>>[1] = calls[i] /\ IsCall(calls[i])
    BY DEF Distinct
  <1>4. \A i \in 1 .. m : HasItsCall(s.blocks[n + i]) /\ s.blocks[n + i].call[1] = calls[i]
                            /\ s.blocks[n + i].call # <<>>
    BY <1>1, <1>3 DEF HasItsCall
  <1>5. \A i \in 1 .. n + m : HasItsCall(s.blocks[i])
    <2>. SUFFICES ASSUME NEW i \in 1 .. n + m PROVE HasItsCall(s.blocks[i])
      OBVIOUS
    <2>1. CASE i \in 1 .. n
      BY <1>1, <1>2, <2>1
    <2>2. CASE \E j \in 1 .. m : i = n + j
      BY <1>4, <2>2
    <2>. QED BY <1>1, <2>1, <2>2
  <1>6. ASSUME NEW i \in 1 .. n + m, NEW j \in 1 .. n + m, i # j
        PROVE  Apart(s.blocks[i], s.blocks[j])
    <2>1. CASE i \in 1 .. n /\ j \in 1 .. n
      <3>1. s.blocks[i] = r.blocks[i] /\ s.blocks[j] = r.blocks[j]
        BY <1>1, <2>1
      <3>. QED BY <1>6, <2>1, <3>1 DEF Sound
    <2>2. CASE i \in 1 .. n /\ j \notin 1 .. n
      <3>1. s.blocks[i].kind # "tool_use" /\ s.blocks[j].kind = "tool_use"
        BY <1>1, <1>2, <2>2
      <3>. QED BY <3>1 DEF Apart
    <2>3. CASE j \in 1 .. n /\ i \notin 1 .. n
      <3>1. s.blocks[j].kind # "tool_use" /\ s.blocks[i].kind = "tool_use"
        BY <1>1, <1>2, <2>3
      <3>. QED BY <3>1 DEF Apart
    <2>4. CASE i \notin 1 .. n /\ j \notin 1 .. n
      <3>1. PICK k \in 1 .. m : i = n + k
        BY <1>1, <2>4
      <3>2. PICK l \in 1 .. m : j = n + l
        BY <1>1, <2>4
      <3>3. k # l
        BY <1>6, <3>1, <3>2
      <3>4. calls[k].id # calls[l].id
        BY <3>3 DEF Distinct
      <3>5. s.blocks[i].call[1] = calls[k] /\ s.blocks[j].call[1] = calls[l]
        BY <1>4, <3>1, <3>2
      <3>6. s.blocks[i].kind = "tool_use"
        BY <1>1, <3>1
      <3>. QED BY <3>4, <3>5, <3>6 DEF Apart
    <2>. QED BY <2>1, <2>2, <2>3, <2>4
  <1>7. Sound(s)
    BY <1>1, <1>5, <1>6 DEF Sound
  <1>8. MarksOf(s) = MarksIn(calls)
    <2>1. ASSUME NEW k \in MarksOf(s) PROVE k \in MarksIn(calls)
      <3>1. PICK i \in 1 .. n + m : s.blocks[i].call # <<>> /\ k = MarkOf(s.blocks[i].call[1])
        BY <1>1, MarksAre
      <3>2. i \notin 1 .. n
        BY <1>1, <1>2, <3>1
      <3>3. PICK j \in 1 .. m : i = n + j
        BY <1>1, <3>2
      <3>. QED BY <1>4, <3>1, <3>3 DEF MarksIn
    <2>2. ASSUME NEW j \in 1 .. m PROVE MarkOf(calls[j]) \in MarksOf(s)
      <3>1. n + j \in 1 .. n + m
        BY <1>1
      <3>. QED BY <1>1, <1>4, <3>1, MarksAre
    <2>. QED BY <2>1, <2>2 DEF MarksIn
  <1>9. ASSUME NEW kind \in TextKinds PROVE TextOf(s, kind) = TextOf(r, kind)
    <2>1. \A i \in 1 .. m : s.blocks[n + i].kind # kind
      BY <1>1 DEF TextKinds
    <2>. QED BY <1>1, <2>1, TextOfLonger
  <1>. QED BY <1>7, <1>8, <1>9 DEF s

\* A chunk of text of a chat completion.
LEMMA ChunkKeeps ==
  ASSUME dialect = "openai", NEW r, HasBlocks(r), Sound(r), NEW kind \in TextKinds,
         NEW text, IsSeq(text)
  PROVE  LET s == AddChunk(r, kind, text)
         IN  /\ Sound(s) /\ MarksOf(s) = MarksOf(r)
             /\ \A k \in TextKinds :
                  TextOf(s, k) = IF kind = k THEN TextOf(r, k) \o text ELSE TextOf(r, k)
  <1>. DEFINE known == {i \in DOMAIN r.blocks : r.blocks[i].kind = kind}
              more  == [Block(0, kind, <<>>) EXCEPT !.text = text, !.open = FALSE]
              n     == Min(known)
              whole == r.blocks[n].text \o text
              b     == [r.blocks[n] EXCEPT !.text = whole]
              s     == AddChunk(r, kind, text)
  <1>0. DOMAIN r.blocks = 1 .. Len(r.blocks) /\ Len(r.blocks) \in Nat
    BY SeqFacts DEF HasBlocks
  <1>1. CASE known = {}
    <2>1. s = With(r, more)
      BY <1>1 DEF AddChunk, With
    <2>2. IsBlock(more) /\ more.call = <<>> /\ more.kind = kind /\ more.text = text
      <3>1. more = [x \in PartFields |-> more[x]]
        BY DEF Block, PartFields
      <3>2. more.call = <<>> /\ more.kind = kind /\ more.text = text
        BY DEF Block
      <3>. HIDE DEF more
      <3>. QED BY <3>1, <3>2 DEF IsBlock, TextKinds
    <2>3. \A i \in 1 .. Len(r.blocks) : r.blocks[i].kind # kind
      BY <1>0, <1>1
    <2>. HIDE DEF s, more
    <2>4. HasItsCall(more) /\ more.kind # "tool_use"
      BY <2>2 DEF HasItsCall, TextKinds
    <2>5. /\ Sound(With(r, more)) /\ MarksOf(With(r, more)) = MarksOf(r)
      BY <2>2, <2>3, <2>4, WithKeeps
    <2>6. \A k \in TextKinds : TextOf(With(r, more), k)
             = IF more.kind = k THEN TextOf(r, k) \o more.text ELSE TextOf(r, k)
      BY <2>2, TextOfWith
    <2>. QED BY <2>1, <2>2, <2>5, <2>6 DEF s
  <1>2. CASE known # {}
    <2>1. n \in known /\ n \in 1 .. Len(r.blocks)
      <3>1. known \in SUBSET Nat /\ known \subseteq 1 .. Len(r.blocks)
        BY <1>0
      <3>. HIDE DEF known
      <3>2. n \in known
        BY SMTT(60), <1>2, <3>1, LeastOf
      <3>. QED BY <3>1, <3>2
    <2>2. IsBlock(r.blocks[n]) /\ r.blocks[n].kind = kind
      BY <2>1 DEF HasBlocks
    <2>3. s = Put(r, n, b)
      BY <1>2 DEF AddChunk, Put
    <2>. HIDE DEF known, n, s
    <2>4. IsSeq(whole)
      BY <2>2, ConcatFacts DEF IsBlock
    <2>. HIDE DEF whole
    <2>5. /\ IsBlock(b) /\ b.call = r.blocks[n].call /\ b.kind = kind /\ b.text = whole
      <3>1. b = [x \in PartFields |-> b[x]]
        BY <2>2 DEF IsBlock
      <3>2. b.call = r.blocks[n].call /\ b.kind = kind /\ b.text = whole
        BY <2>2 DEF IsBlock, PartFields
      <3>. HIDE DEF b
      <3>. QED BY <2>4, <3>1, <3>2 DEF IsBlock, TextKinds
    <2>. HIDE DEF b
    <2>6. Sound(Put(r, n, b)) /\ MarksOf(Put(r, n, b)) = MarksOf(r)
      BY <2>1, <2>2, <2>5, PutKeeps
    <2>7. \A i \in 1 .. Len(r.blocks) : i # n => r.blocks[i].kind # kind
      BY <2>1, <2>2 DEF Sound, Apart, TextKinds
    <2>8. ASSUME NEW k \in TextKinds
          PROVE  TextOf(Put(r, n, b), k) = IF b.kind = k THEN TextOf(r, k) \o text ELSE TextOf(r, k)
      <3>1. b.kind = k => \A i \in 1 .. Len(r.blocks) : i > n => r.blocks[i].kind # k
        BY <1>0, <2>1, <2>5, <2>7
      <3>2. b.text = r.blocks[n].text \o text /\ b.kind = r.blocks[n].kind
        BY <2>2, <2>5 DEF whole
      <3>3. PutsMore(k, r, n, b, text)
        BY <2>5, <3>1, <3>2 DEF PutsMore
      <3>. QED BY <2>1, <3>3, TextPut
    <2>. QED BY <2>3, <2>5, <2>6, <2>8 DEF s
  <1>. QED BY <1>1, <1>2

-----------------------------------------------------------------------------
(* What an event tells of a reply.                                         *)
AddsTo(l, e, kind) ==
  \/ e.type = "content_block_delta" /\ l.last = kind
  \/ e.type = "content" /\ kind = "text"
  \/ e.type = "reasoning_content" /\ kind = "thinking"

NewMarks(e) ==
  IF e.type = "content_block_start" /\ e.kind = "tool_use" THEN {MarkOf(e.call[1])}
  ELSE IF e.type = "tool_calls" THEN MarksIn(e.calls) ELSE {}

\* What the blocks and the calls are to be.
Fits(l, e) ==
  /\ e.type = "content_block_start" =>
       IF e.kind = "tool_use"
       THEN e.call # <<>> /\ IsCall(e.call[1]) /\ e.call[1].id \notin IdsOf(l.marks)
       ELSE e.call = <<>>
  /\ e.type = "tool_calls" => l.marks = {} /\ Distinct(e.calls)

Post(l, e) ==
  [last     |-> IF e.type = "content_block_start" THEN e.kind ELSE l.last,
   text     |-> IF AddsTo(l, e, "text") THEN l.text \o e.text ELSE l.text,
   thinking |-> IF AddsTo(l, e, "thinking") THEN l.thinking \o e.text ELSE l.thinking,
   marks    |-> l.marks \cup NewMarks(e),
   reason   |-> IF e.type \in {"message_delta", "finish"} THEN e.reason ELSE l.reason,
   flaws    |-> l.flaws \cup (IF Fits(l, e) THEN {} ELSE {"event"})]

\* The ledger of a reply that an event has changed so.
LEMMA LedgerIs ==
  ASSUME NEW r, Sound(r), NEW s, Sound(s), NEW e, LET l == LedgerOf(r) IN
           /\ Fits(l, e)
           /\ TextOf(s, "text") = IF AddsTo(l, e, "text") THEN TextOf(r, "text") \o e.text
                                                        ELSE TextOf(r, "text")
           /\ TextOf(s, "thinking") = IF AddsTo(l, e, "thinking") THEN TextOf(r, "thinking") \o e.text
                                                                ELSE TextOf(r, "thinking")
           /\ MarksOf(s) = MarksOf(r) \cup NewMarks(e)
           /\ s.reason = IF e.type \in {"message_delta", "finish"} THEN e.reason ELSE r.reason
           /\ LedgerOf(s).last = IF e.type = "content_block_start" THEN e.kind ELSE l.last
  PROVE  LedgerOf(s) = Post(LedgerOf(r), e)
  <1>1. /\ LedgerOf(r).text = TextOf(r, "text") /\ LedgerOf(r).thinking = TextOf(r, "thinking")
        /\ LedgerOf(r).marks = MarksOf(r) /\ LedgerOf(r).reason = r.reason
        /\ LedgerOf(r).flaws = {}
    BY DEF LedgerOf
  <1>2. LedgerOf(s) = [last |-> LedgerOf(s).last, text |-> TextOf(s, "text"),
                       thinking |-> TextOf(s, "thinking"), marks |-> MarksOf(s),
                       reason |-> s.reason, flaws |-> {}]
    BY DEF LedgerOf
  <1>. QED BY <1>1, <1>2 DEF Post

SameCall(a, b) ==
  \/ b.call = a.call
  \/ /\ a.call # <<>> /\ b.call # <<>> /\ IsCall(b.call[1])
     /\ MarkOf(b.call[1]) = MarkOf(a.call[1])

\* The last block of a message becomes b, with more text.
Becomes(r, b, more) ==
  LET a == r.blocks[Len(r.blocks)]
  IN  /\ r.blocks # <<>> /\ IsBlock(b) /\ b.kind = a.kind /\ SameCall(a, b)
      /\ IsSeq(more) /\ b.text = a.text \o more

LastPut(r, b) == Put(r, Len(r.blocks), b)

\* s tells what r tells, and more text of the kind of the last block.
TellsMore(r, s, more) ==
  /\ Sound(s) /\ MarksOf(s) = MarksOf(r) /\ s.reason = r.reason
  /\ LedgerOf(s).last = LedgerOf(r).last
  /\ \A k \in TextKinds :
       TextOf(s, k) = IF LedgerOf(r).last = k THEN TextOf(r, k) \o more ELSE TextOf(r, k)

LEMMA PutTells ==
  ASSUME dialect = "anthropic", NEW r, IsReply(r), Sound(r), NEW b, NEW more, Becomes(r, b, more)
  PROVE  TellsMore(r, LastPut(r, b), more)
  <1>. DEFINE n == Len(r.blocks)
              a == r.blocks[n]
              s == Put(r, n, b)
  <1>0. /\ HasBlocks(r) /\ n \in 1 .. Len(r.blocks) /\ IsBlock(b) /\ b.kind = a.kind
        /\ SameCall(a, b) /\ IsSeq(more) /\ b.text = a.text \o more
    <2>1. HasBlocks(r) /\ r.blocks # <<>>
      BY DEF IsReply, Becomes
    <2>2. n \in Nat /\ n # 0
      BY <2>1, SeqFacts DEF HasBlocks
    <2>3. n \in 1 .. n
      <3>. HIDE DEF n
      <3>. QED BY <2>2
    <2>. QED BY <2>1, <2>3 DEF Becomes
  <1>. HIDE DEF n
  <1>1. /\ HasBlocks(s) /\ RestAlike(r, s) /\ Len(s.blocks) = Len(r.blocks) /\ s.blocks[n] = b
    BY <1>0, BlockPut
  <1>2. Sound(s) /\ MarksOf(s) = MarksOf(r)
    <2>. HIDE DEF s
    <2>1. Sound(Put(r, n, b)) /\ MarksOf(Put(r, n, b)) = MarksOf(r)
      BY <1>0, PutKeeps DEF SameCall
    <2>. QED BY <2>1 DEF s
  <1>3. ASSUME NEW k \in TextKinds
        PROVE  TextOf(s, k) = IF a.kind = k THEN TextOf(r, k) \o more ELSE TextOf(r, k)
    <2>1. b.kind = k => \A i \in 1 .. Len(r.blocks) : i > n => r.blocks[i].kind # k
      <3>1. n = Len(r.blocks) /\ n \in Nat
        BY <1>0, SeqFacts DEF n, HasBlocks
      <3>. QED BY <3>1
    <2>3. b.kind = r.blocks[n].kind /\ b.text = r.blocks[n].text \o more /\ n \in 1 .. Len(r.blocks)
      BY <1>0
    <2>. HIDE DEF s
    <2>2. TextOf(Put(r, n, b), k) = IF b.kind = k THEN TextOf(r, k) \o more ELSE TextOf(r, k)
      <3>1. PutsMore(k, r, n, b, more)
        BY <1>0, <2>1, <2>3 DEF PutsMore
      <3>. QED BY <1>0, <2>3, <3>1, TextPut
    <2>. QED BY <1>0, <2>2 DEF s
  <1>. HIDE DEF s
  <1>4. r.blocks # <<>> /\ s.blocks # <<>> /\ dialect # "openai"
    BY <1>0, <1>1, SeqFacts DEF HasBlocks
  <1>5. LedgerOf(s).last = a.kind /\ LedgerOf(r).last = a.kind
    BY <1>0, <1>1, <1>4 DEF LedgerOf, n
  <1>6. s.reason = r.reason
    BY <1>1 DEF RestAlike
  <1>7. LastPut(r, b) = s
    BY DEF LastPut, s, n
  <1>. HIDE DEF a
  <1>. QED BY <1>2, <1>3, <1>5, <1>6, <1>7 DEF TellsMore

\* What an event does to a block of a message.
LEMMA DeltaTells ==
  ASSUME dialect = "anthropic", NEW r, IsReply(r), Sound(r), NEW c, Stands(r, c), NEW e, NEW d,
         AddsText(c, e, d)
  PROVE  TellsMore(r, Collect(r, e), e.text)
  <1>. DEFINE n == Len(r.blocks)
              a == r.blocks[n]
              whole == a.text \o e.text
              b == [a EXCEPT !.text = whole]
  <1>1. /\ e.type = "content_block_delta" /\ c.phase = "body" /\ c.kind # "none"
        /\ e.index = c.closed /\ IsSeq(e.text)
    BY DEF AddsText, ToOpenBlock
  <1>2. n \in 1 .. n /\ ByIndex(r.blocks, c.closed) = n
    BY <1>1, WhenOpen
  <1>3. Collect(r, e) = Put(r, n, b)
    BY <1>1, <1>2 DEF Collect, Put
  <1>. HIDE DEF n
  <1>4. a = [x \in PartFields |-> a[x]] /\ IsSeq(a.text) /\ a.kind # "none"
    BY <1>2 DEF IsReply, HasBlocks, IsBlock, n
  <1>5. IsSeq(whole)
    BY <1>1, <1>4, ConcatFacts
  <1>. HIDE DEF a, whole
  <1>6. b = [x \in PartFields |-> b[x]] /\ b.text = whole /\ b.kind = a.kind /\ b.call = a.call
    BY <1>4 DEF PartFields
  <1>. HIDE DEF b
  <1>7. IsBlock(b) /\ b.text = a.text \o e.text
    BY <1>4, <1>5, <1>6 DEF IsBlock, whole
  <1>8. a = r.blocks[Len(r.blocks)] /\ r.blocks # <<>>
    <2>1. r.blocks = <<>> => Len(r.blocks) = 0
      BY SMTT(60), ShortSeqs
    <2>. QED BY <1>2, <2>1 DEF n, a
  <1>9. Becomes(r, b, e.text) /\ Collect(r, e) = LastPut(r, b)
    BY <1>1, <1>3, <1>6, <1>7, <1>8 DEF Becomes, SameCall, LastPut, n
  <1>. QED BY <1>9, PutTells

\* An event for a block that adds no text to it.
LEMMA QuietTells ==
  ASSUME dialect = "anthropic", NEW r, IsReply(r), Sound(r), NEW b, Becomes(r, b, <<>>), NEW e,
         e.type \in {"input_json_delta", "signature_delta", "content_block_stop"}
  PROVE  LET s == LastPut(r, b) IN Sound(s) /\ LedgerOf(s) = Post(LedgerOf(r), e)
  <1>. DEFINE s == LastPut(r, b)
              l == LedgerOf(r)
  <1>1. TellsMore(r, s, <<>>)
    BY PutTells
  <1>. HIDE DEF s
  <1>2. ASSUME NEW k \in TextKinds PROVE TextOf(s, k) = TextOf(r, k)
    <2>1. IsSeq(TextOf(r, k))
      BY TextIsSeq DEF IsReply
    <2>2. TextOf(r, k) \o <<>> = TextOf(r, k)
      BY <2>1, ConcatNone
    <2>. QED BY <1>1, <2>2 DEF TellsMore
  <1>3. TextOf(s, "text") = TextOf(r, "text") /\ TextOf(s, "thinking") = TextOf(r, "thinking")
    BY <1>2 DEF TextKinds
  <1>4. /\ Fits(l, e) /\ \A k : ~AddsTo(l, e, k)
    BY DEF Fits, AddsTo
  <1>5. NewMarks(e) = {} /\ e.type \notin {"message_delta", "finish", "content_block_start"}
    BY DEF NewMarks
  <1>6. Sound(s) /\ MarksOf(s) = MarksOf(r) /\ s.reason = r.reason /\ LedgerOf(s).last = l.last
    BY <1>1 DEF TellsMore
  <1>7. MarksOf(s) = MarksOf(r) \cup NewMarks(e)
    BY <1>5, <1>6
  <1>8. LedgerOf(s) = Post(l, e)
    BY <1>3, <1>4, <1>5, <1>6, <1>7, LedgerIs
  <1>. QED BY <1>6, <1>8 DEF s

\* The input of a call leaves its mark as it is.
LEMMA InputTells ==
  ASSUME dialect = "anthropic", NEW r, IsReply(r), Sound(r), NEW c, Stands(r, c), NEW e, NEW d,
         AddsInput(c, e, d)
  PROVE  Sound(Collect(r, e)) /\ LedgerOf(Collect(r, e)) = Post(LedgerOf(r), e)
  <1>. DEFINE n == Len(r.blocks)
              a == r.blocks[n]
              call == [a.call EXCEPT ![1].arguments = e.arguments]
              b == [a EXCEPT !.call = call]
  <1>1. e.type = "input_json_delta" /\ c.kind # "none" /\ e.index = c.closed
    BY DEF AddsInput, ToOpenBlock
  <1>2. PICK k : c.call = <<k>>
    BY DEF AddsInput
  <1>3. n \in 1 .. n /\ ByIndex(r.blocks, c.closed) = n /\ c.call = a.call
    BY <1>1, WhenOpen
  <1>4. Collect(r, e) = Put(r, n, b)
    BY <1>1, <1>3 DEF Collect, Put
  <1>5. HasItsCall(a) /\ a = r.blocks[Len(r.blocks)] /\ r.blocks # <<>>
    <2>1. r.blocks = <<>> => Len(r.blocks) = 0
      BY ShortSeqs
    <2>. QED BY <1>3, <2>1 DEF Sound
  <1>. HIDE DEF n
  <1>6. a = [x \in PartFields |-> a[x]] /\ IsSeq(a.text) /\ a.kind # "none"
    BY <1>3 DEF IsReply, HasBlocks, IsBlock, n
  <1>. HIDE DEF a
  <1>7. IsCall(k) /\ a.call = <<k>> /\ <<k>>[1] = k /\ <<k>> # <<>>
    <2>1. a.call = <<k>>
      BY <1>2, <1>3
    <2>2. <<k>>[1] = k /\ <<k>> # <<>>
      OBVIOUS
    <2>3. IsCall(a.call[1])
      BY <1>5, <2>1, <2>2 DEF HasItsCall
    <2>. QED BY <2>1, <2>2, <2>3
  <1>. DEFINE m == [k EXCEPT !.arguments = e.arguments]
  <1>8. call = <<m>>
    <2>1. call = [<<k>> EXCEPT ![1] = m]
      BY <1>7
    <2>. HIDE DEF m, call
    <2>. QED BY <2>1, OnlyElement
  <1>9. IsCall(m) /\ MarkOf(m) = MarkOf(k)
    BY <1>7 DEF IsCall, CallFields, MarkOf
  <1>. HIDE DEF m, call
  <1>10. b = [x \in PartFields |-> b[x]] /\ b.text = a.text /\ b.kind = a.kind /\ b.call = call
    BY ZenonT(60), <1>6 DEF PartFields
  <1>. HIDE DEF b
  <1>11. IsBlock(b)
    BY <1>6, <1>10 DEF IsBlock
  <1>12. /\ a.call # <<>> /\ b.call # <<>> /\ IsCall(b.call[1])
         /\ MarkOf(b.call[1]) = MarkOf(a.call[1])
    <2>1. b.call = <<m>> /\ <<m>>[1] = m /\ <<m>> # <<>>
      BY <1>8, <1>10
    <2>. QED BY <1>7, <1>9, <2>1
  <1>13. Becomes(r, b, <<>>)
    <2>1. IsSeq(<<>>) /\ b.text = a.text \o <<>>
      BY <1>6, <1>10, ShortSeqs, ConcatNone
    <2>. QED BY <1>5, <1>10, <1>11, <1>12, <2>1 DEF Becomes, SameCall
  <1>14. Collect(r, e) = LastPut(r, b)
    BY <1>4 DEF LastPut, n
  <1>. QED BY <1>1, <1>13, <1>14, QuietTells

\* A signature and the end of a block.
LEMMA MarkingTells ==
  ASSUME dialect = "anthropic", NEW r, IsReply(r), Sound(r), NEW c, Stands(r, c), NEW e, NEW d,
         AddsSignature(c, e, d) \/ ClosesBlock(c, e, d)
  PROVE  Sound(Collect(r, e)) /\ LedgerOf(Collect(r, e)) = Post(LedgerOf(r), e)
  <1>. DEFINE n == Len(r.blocks)
              a == r.blocks[n]
              b == IF e.type = "signature_delta" THEN [a EXCEPT !.signed = TRUE]
                                                 ELSE [a EXCEPT !.open = FALSE]
  <1>1. e.type \in {"signature_delta", "content_block_stop"} /\ c.kind # "none" /\ e.index = c.closed
    BY DEF AddsSignature, ClosesBlock, ToOpenBlock
  <1>2. n \in 1 .. n /\ ByIndex(r.blocks, c.closed) = n
    BY <1>1, WhenOpen
  <1>3. Collect(r, e) = Put(r, n, b)
    BY <1>1, <1>2 DEF Collect, Put
  <1>4. a = r.blocks[Len(r.blocks)] /\ r.blocks # <<>>
    <2>1. r.blocks = <<>> => Len(r.blocks) = 0
      BY ShortSeqs
    <2>. QED BY <1>2, <2>1
  <1>. HIDE DEF n
  <1>5. a = [x \in PartFields |-> a[x]] /\ IsSeq(a.text) /\ a.kind # "none"
    BY <1>2 DEF IsReply, HasBlocks, IsBlock, n
  <1>. HIDE DEF a
  <1>6. b = [x \in PartFields |-> b[x]] /\ b.text = a.text /\ b.kind = a.kind /\ b.call = a.call
    BY <1>5 DEF PartFields
  <1>. HIDE DEF b
  <1>7. IsBlock(b)
    BY <1>5, <1>6 DEF IsBlock
  <1>8. Becomes(r, b, <<>>)
    <2>1. IsSeq(<<>>) /\ b.text = a.text \o <<>>
      BY <1>5, <1>6, ShortSeqs, ConcatNone
    <2>. QED BY <1>4, <1>6, <1>7, <2>1 DEF Becomes, SameCall
  <1>9. Collect(r, e) = LastPut(r, b)
    BY <1>3 DEF LastPut, n
  <1>. QED BY <1>1, <1>8, <1>9, QuietTells

\* An event that is a move takes the ledger with it, as long as the calls fit.
LEMMA LedgerCollects ==
  ASSUME dialect \in Dialects, NEW r, IsReply(r), Sound(r), NEW c, Stands(r, c), NEW e, NEW d,
         Moves(c, e, d), Fits(LedgerOf(r), e)
  PROVE  Sound(Collect(r, e)) /\ LedgerOf(Collect(r, e)) = Post(LedgerOf(r), e)
  <1>. DEFINE s == Collect(r, e)
              l == LedgerOf(r)
  <1>0. c.dialect = dialect /\ HasBlocks(r) /\ r = [x \in ReplyFields |-> r[x]]
    BY DEF Stands, IsReply, HasBlocks
  \* What leaves the blocks as they are.
  <1>1. ASSUME s = [x \in ReplyFields |-> s[x]], s.blocks = r.blocks,
               s.reason = IF e.type \in {"message_delta", "finish"} THEN e.reason ELSE r.reason,
               e.type \in {"message_start", "message_delta", "finish", "message_stop", "done"}
        PROVE  Sound(s) /\ LedgerOf(s) = Post(l, e)
    <2>1. \A k : TextOf(s, k) = TextOf(r, k)
      BY <1>1 DEF TextOf
    <2>2. MarksOf(s) = MarksOf(r) /\ Sound(s)
      BY <1>1 DEF MarksOf, CallsOf, Sound
    <2>3. LedgerOf(s).last = l.last
      BY <1>1 DEF LedgerOf
    <2>4. NewMarks(e) = {} /\ (\A k : ~AddsTo(l, e, k)) /\ e.type # "content_block_start"
      BY <1>1 DEF NewMarks, AddsTo
    <2>5. MarksOf(s) = MarksOf(r) \cup NewMarks(e)
      BY <2>2, <2>4
    <2>. HIDE DEF s
    <2>6. LedgerOf(s) = Post(l, e)
      BY <1>1, <2>1, <2>2, <2>3, <2>4, <2>5, LedgerIs
    <2>. QED BY <2>2, <2>6
  <1>2. CASE Starts(c, e, d)
    <2>1. e.type = "message_start"
      BY <1>2 DEF Starts
    <2>2. s = [r EXCEPT !.started = TRUE]
      BY <2>1 DEF Collect
    <2>. HIDE DEF s
    <2>3. s = [x \in ReplyFields |-> s[x]] /\ s.blocks = r.blocks /\ s.reason = r.reason
      BY <1>0, <2>2 DEF ReplyFields
    <2>. QED BY <1>1, <2>1, <2>3 DEF s
  <1>3. CASE GivesReason(c, e, d)
    <2>1. e.type \in {"message_delta", "finish"}
      BY <1>3 DEF GivesReason
    <2>2. s = [r EXCEPT !.reason = e.reason]
      BY <2>1 DEF Collect
    <2>. HIDE DEF s
    <2>3. s = [x \in ReplyFields |-> s[x]] /\ s.blocks = r.blocks /\ s.reason = e.reason
      BY <1>0, <2>2 DEF ReplyFields
    <2>. QED BY <1>1, <2>1, <2>3 DEF s
  <1>4. CASE Ends(c, e, d)
    <2>1. e.type \in {"message_stop", "done"}
      BY <1>4 DEF Ends
    <2>2. s = [r EXCEPT !.ended = TRUE]
      BY <2>1 DEF Collect
    <2>. HIDE DEF s
    <2>3. s = [x \in ReplyFields |-> s[x]] /\ s.blocks = r.blocks /\ s.reason = r.reason
      BY <1>0, <2>2 DEF ReplyFields
    <2>. QED BY <1>1, <2>1, <2>3 DEF s
  <1>5. CASE OpensBlock(c, e, d)
    <2>. DEFINE b == Block(c.closed, e.kind, e.call)
    <2>1. /\ e.type = "content_block_start" /\ c.dialect = "anthropic" /\ e.index = c.closed
          /\ e.kind # "none"
      BY <1>5 DEF OpensBlock
    <2>2. s = With(r, b)
      BY <2>1 DEF Collect, With
    <2>3. b.kind = e.kind /\ b.call = e.call /\ b.text = <<>> /\ b = [x \in PartFields |-> b[x]]
      BY DEF Block, PartFields
    <2>. HIDE DEF b, s
    <2>4. IsBlock(b)
      BY <2>1, <2>3, ShortSeqs DEF IsBlock
    <2>5. l.marks = MarksOf(r)
      BY DEF LedgerOf
    <2>6. HasItsCall(b) /\ (b.call # <<>> => b.call[1].id \notin IdsOf(MarksOf(r)))
      BY <2>1, <2>3, <2>5 DEF Fits, HasItsCall
    <2>7. /\ Sound(With(r, b))
          /\ MarksOf(With(r, b))
               = MarksOf(r) \cup (IF b.kind = "tool_use" THEN {MarkOf(b.call[1])} ELSE {})
      BY <1>0, <2>1, <2>4, <2>6, WithKeeps
    <2>8. ASSUME NEW k \in TextKinds PROVE TextOf(s, k) = TextOf(r, k)
      <3>1. IsSeq(TextOf(r, k))
        BY <1>0, TextIsSeq
      <3>2. TextOf(r, k) \o <<>> = TextOf(r, k)
        BY <3>1, ConcatNone
      <3>3. TextOf(With(r, b), k) = IF b.kind = k THEN TextOf(r, k) \o b.text ELSE TextOf(r, k)
        BY <1>0, <2>4, TextOfWith
      <3>. QED BY <2>2, <2>3, <3>2, <3>3
    <2>9. /\ HasBlocks(s) /\ RestAlike(r, s) /\ Len(s.blocks) = Len(r.blocks) + 1
          /\ s.blocks[Len(r.blocks) + 1] = b /\ Len(r.blocks) \in Nat
      BY <1>0, <2>2, <2>4, BlockAdded
    <2>10. LedgerOf(s).last = e.kind
      <3>1. s.blocks # <<>>
        BY <2>9, ShortSeqs
      <3>2. dialect # "openai" /\ s.blocks[Len(s.blocks)].kind = e.kind
        BY <1>0, <2>1, <2>3, <2>9
      <3>. QED BY <3>1, <3>2 DEF LedgerOf
    <2>11. Sound(s) /\ MarksOf(s) = MarksOf(r) \cup NewMarks(e) /\ s.reason = r.reason
      BY <2>1, <2>2, <2>3, <2>7, <2>9 DEF NewMarks, RestAlike
    <2>12. TextOf(s, "text") = TextOf(r, "text") /\ TextOf(s, "thinking") = TextOf(r, "thinking")
      BY <2>8 DEF TextKinds
    <2>13. \A k : ~AddsTo(l, e, k)
      BY <2>1 DEF AddsTo
    <2>14. LedgerOf(s) = Post(l, e)
      BY <2>1, <2>10, <2>11, <2>12, <2>13, LedgerIs
    <2>. QED BY <2>11, <2>14 DEF s
  <1>6. CASE AddsText(c, e, d)
    <2>1. TellsMore(r, s, e.text) /\ e.type = "content_block_delta"
      BY <1>0, <1>6, DeltaTells DEF AddsText, ToOpenBlock
    <2>. HIDE DEF s
    <2>2. Sound(s) /\ MarksOf(s) = MarksOf(r) /\ s.reason = r.reason /\ LedgerOf(s).last = l.last
      BY <2>1 DEF TellsMore
    <2>3. NewMarks(e) = {} /\ \A k \in TextKinds : AddsTo(l, e, k) <=> l.last = k
      BY <2>1 DEF NewMarks, AddsTo
    <2>4. \A k \in TextKinds : TextOf(s, k) = IF AddsTo(l, e, k) THEN TextOf(r, k) \o e.text ELSE TextOf(r, k)
      BY <2>1, <2>3 DEF TellsMore
    <2>5. "text" \in TextKinds /\ "thinking" \in TextKinds
      BY DEF TextKinds
    <2>6. MarksOf(s) = MarksOf(r) \cup NewMarks(e)
      BY <2>2, <2>3
    <2>7. LedgerOf(s) = Post(l, e)
      BY <2>1, <2>2, <2>4, <2>5, <2>6, LedgerIs
    <2>. QED BY <2>2, <2>7 DEF s
  <1>7. CASE AddsInput(c, e, d)
    BY <1>0, <1>7, InputTells DEF AddsInput, ToOpenBlock
  <1>8. CASE AddsSignature(c, e, d) \/ ClosesBlock(c, e, d)
    BY <1>0, <1>8, MarkingTells DEF AddsSignature, ClosesBlock, ToOpenBlock
  <1>9. CASE AddsContent(c, e, d) \/ AddsReasoning(c, e, d)
    <2>. DEFINE kind == IF e.type = "content" THEN "text" ELSE "thinking"
    <2>1. e.type \in {"content", "reasoning_content"} /\ c.dialect = "openai" /\ IsSeq(e.text)
      BY SMTT(60), <1>9 DEF AddsContent, AddsReasoning, AsChunk
    <2>2. s = AddChunk(r, kind, e.text)
      BY <2>1 DEF Collect
    <2>3. kind \in TextKinds /\ \A k \in TextKinds : AddsTo(l, e, k) <=> kind = k
      BY <2>1 DEF TextKinds, AddsTo
    <2>. HIDE DEF s, kind
    <2>4. /\ Sound(s) /\ MarksOf(s) = MarksOf(r)
          /\ \A k \in TextKinds :
               TextOf(s, k) = IF kind = k THEN TextOf(r, k) \o e.text ELSE TextOf(r, k)
      <3>. DEFINE text == e.text
                  t == AddChunk(r, kind, text)
      <3>1. dialect = "openai" /\ kind \in TextKinds /\ IsSeq(text) /\ HasBlocks(r)
        BY <1>0, <2>1, <2>3
      <3>2. s = t
        BY <2>2
      <3>. HIDE DEF text
      <3>3. /\ Sound(t) /\ MarksOf(t) = MarksOf(r)
            /\ \A k \in TextKinds :
                 TextOf(t, k) = IF kind = k THEN TextOf(r, k) \o text ELSE TextOf(r, k)
        BY <3>1, ChunkKeeps
      <3>. HIDE DEF t
      <3>. QED BY <3>2, <3>3 DEF text
    <2>5. RestAlike(r, s)
      BY <1>0, <2>1, <2>2, <2>3, ChunkAdded DEF TextKinds
    <2>6. s.reason = r.reason /\ LedgerOf(s).last = l.last
      BY <1>0, <2>1, <2>5 DEF RestAlike, LedgerOf
    <2>7. "text" \in TextKinds /\ "thinking" \in TextKinds
      BY DEF TextKinds
    <2>8. NewMarks(e) = {}
      BY <2>1 DEF NewMarks
    <2>9. MarksOf(s) = MarksOf(r) \cup NewMarks(e)
      BY <2>4, <2>8
    <2>10. LedgerOf(s) = Post(l, e)
      BY <2>1, <2>3, <2>4, <2>6, <2>7, <2>9, LedgerIs
    <2>. QED BY <2>4, <2>10 DEF s
  <1>10. CASE BringsCalls(c, e, d)
    <2>1. e.type = "tool_calls" /\ c.dialect = "openai" /\ IsSeq(e.calls)
      BY <1>10 DEF BringsCalls, AsChunk
    <2>2. s = AddCalls(r, e.calls)
      BY <2>1 DEF Collect
    <2>3. MarksOf(r) = {} /\ Distinct(e.calls)
      BY <2>1 DEF Fits, LedgerOf
    <2>. HIDE DEF s
    <2>4. /\ Sound(s) /\ MarksOf(s) = MarksIn(e.calls)
          /\ \A k \in TextKinds : TextOf(s, k) = TextOf(r, k)
      BY <1>0, <2>1, <2>2, <2>3, CallsKeep
    <2>5. RestAlike(r, s)
      BY <1>0, <2>1, <2>2, CallsAdded
    <2>6. s.reason = r.reason /\ LedgerOf(s).last = l.last
      BY <1>0, <2>1, <2>5 DEF RestAlike, LedgerOf
    <2>7. "text" \in TextKinds /\ "thinking" \in TextKinds
      BY DEF TextKinds
    <2>8. NewMarks(e) = MarksIn(e.calls) /\ \A k : ~AddsTo(l, e, k)
      BY <2>1 DEF NewMarks, AddsTo
    <2>9. MarksOf(s) = MarksOf(r) \cup NewMarks(e)
      BY <2>3, <2>4, <2>8
    <2>10. LedgerOf(s) = Post(l, e)
      BY <2>1, <2>4, <2>6, <2>7, <2>8, <2>9, LedgerIs
    <2>. QED BY <2>4, <2>10 DEF s
  <1>. QED BY <1>2, <1>3, <1>4, <1>5, <1>6, <1>7, <1>8, <1>9, <1>10 DEF Moves

-----------------------------------------------------------------------------
(* What a reply will tell when the formatter has written what it holds.    *)
PostFold == INSTANCE FoldTheorems WITH op <- Post

Drafted(l, out) == FoldLeft(Post, l, out)

LEMMA PostFolds ==
  ASSUME NEW l, NEW out
  PROVE  PostFold!FoldLeft(Post, l, out) = Drafted(l, out)
  BY DEF Drafted, FoldLeft, MapThenFoldSet, Max,
         PostFold!FoldLeft, PostFold!MapThenFoldSet, PostFold!Max

LEMMA NothingDrafted ==
  ASSUME NEW l
  PROVE  Drafted(l, <<>>) = l
  <1>1. PostFold!FoldLeft(Post, l, <<>>) = l
    BY PostFold!FoldOfNone
  <1>. QED BY <1>1, PostFolds

LEMMA DraftedOn ==
  ASSUME NEW l, NEW out, IsSeq(out), NEW e
  PROVE  Drafted(l, Append(out, e)) = Post(Drafted(l, out), e)
  <1>1. PostFold!FoldLeft(Post, l, Append(out, e)) = Post(PostFold!FoldLeft(Post, l, out), e)
    BY PostFold!FoldOfAppended DEF IsSeq
  <1>. QED BY <1>1, PostFolds

LEMMA DraftedFirst ==
  ASSUME NEW l, NEW out, IsSeq(out), out # <<>>
  PROVE  Drafted(l, out) = Drafted(Post(l, Head(out)), Tail(out))
  <1>1. PostFold!FoldLeft(Post, l, out) = PostFold!FoldLeft(Post, Post(l, Head(out)), Tail(out))
    BY PostFold!FoldOfRest DEF IsSeq
  <1>. QED BY <1>1, PostFolds

\* What does not fit is not forgotten.
LEMMA FlawsStay ==
  ASSUME NEW l, NEW out, IsSeq(out), Drafted(l, out).flaws = {}
  PROVE  l.flaws = {}
  <1>. DEFINE n == Len(out)
  <1>1. n \in Nat /\ DOMAIN out = 1 .. n
    BY SeqFacts
  <1>. HIDE DEF n
  <1>2. PICK h : PostFold!Stages(h, l, out, n) /\ PostFold!FoldLeft(Post, l, out) = h[n]
    BY <1>1, PostFold!StagesOfFold
  <1>3. h[0] = l /\ h[n] = Drafted(l, out) /\ \A i \in 1 .. n : h[i] = Post(h[i - 1], out[i])
    BY <1>2, PostFolds DEF PostFold!Stages
  <1>. DEFINE S == {k \in Nat : k <= n => l.flaws \subseteq h[k].flaws}
  <1>4. 0 \in S
    BY <1>3
  <1>5. ASSUME NEW k \in Nat, k \in S PROVE k + 1 \in S
    <2>. SUFFICES ASSUME k + 1 <= n PROVE l.flaws \subseteq h[k + 1].flaws
      OBVIOUS
    <2>1. k + 1 \in 1 .. n /\ (k + 1) - 1 = k /\ l.flaws \subseteq h[k].flaws
      BY <1>1, <1>5
    <2>2. h[k + 1] = Post(h[k], out[k + 1])
      BY <1>3, <2>1
    <2>3. h[k].flaws \subseteq Post(h[k], out[k + 1]).flaws
      BY DEF Post
    <2>. QED BY <2>1, <2>2, <2>3
  <1>6. n \in S /\ n <= n
    <2>. HIDE DEF S
    <2>. QED BY <1>1, <1>4, <1>5, Induction
  <1>. QED BY <1>3, <1>6

\* An event that is written takes nothing from the draft.
LEMMA DraftWritten ==
  ASSUME dialect \in Dialects, NEW r, IsReply(r), NEW c, Stands(r, c), NEW out, IsSeq(out),
         out # <<>>, NEW d, Moves(c, Head(out), d), Drafted(LedgerOf(r), out).flaws = {}
  PROVE  Drafted(LedgerOf(Collect(r, Head(out))), Tail(out)) = Drafted(LedgerOf(r), out)
  <1>. DEFINE e == Head(out)
              l == LedgerOf(r)
  <1>1. Drafted(l, out) = Drafted(Post(l, e), Tail(out)) /\ IsSeq(Tail(out))
    BY DraftedFirst, TailIsSeq
  <1>2. Post(l, e).flaws = {}
    BY <1>1, FlawsStay
  <1>3. l.flaws = {} /\ Fits(l, e)
    BY <1>2 DEF Post
  <1>4. Sound(r)
    BY <1>3 DEF LedgerOf
  <1>. HIDE DEF e
  <1>5. LedgerOf(Collect(r, e)) = Post(LedgerOf(r), e)
    BY <1>3, <1>4, LedgerCollects DEF e
  <1>. QED BY <1>1, <1>5 DEF e

-----------------------------------------------------------------------------
(* The draft of the dialect of Anthropic.                                  *)

\* Two ledgers tell the same, whatever the last block is.
Alike(m, k) ==
  /\ k.text = m.text /\ k.thinking = m.thinking /\ k.marks = m.marks /\ k.reason = m.reason
  /\ k.flaws = m.flaws

\* What f has to write fits the ledger, and the block that is open is the last one.
IsDraft(l, f) ==
  LET m == Drafted(l, f.out)
  IN  /\ m.flaws = {} /\ IsSeq(m.text) /\ IsSeq(m.thinking)
      /\ dialect = "anthropic" =>
           (f.thinkingOpen => m.last = "thinking") /\ (f.textOpen => m.last = "text")

LEMMA StopPosts ==
  ASSUME NEW m, NEW e,
         e.type \in {"content_block_stop", "signature_delta", "input_json_delta", "message_start",
                     "message_stop", "done"}
  PROVE  Alike(m, Post(m, e)) /\ Post(m, e).last = m.last
  <1>1. NewMarks(e) = {} /\ Fits(m, e) /\ (\A k : ~AddsTo(m, e, k))
    BY DEF NewMarks, Fits, AddsTo
  <1>2. e.type \notin {"content_block_start", "message_delta", "finish"}
    OBVIOUS
  <1>. QED BY <1>1, <1>2 DEF Alike, Post

LEMMA StartPosts ==
  ASSUME NEW m, NEW e, e.type = "content_block_start", e.kind # "tool_use", e.call = <<>>
  PROVE  Alike(m, Post(m, e)) /\ Post(m, e).last = e.kind
  <1>1. NewMarks(e) = {} /\ Fits(m, e) /\ (\A k : ~AddsTo(m, e, k))
    BY DEF NewMarks, Fits, AddsTo
  <1>. QED BY <1>1 DEF Alike, Post

LEMMA DeltaPosts ==
  ASSUME NEW m, NEW e, e.type = "content_block_delta", m.last \in TextKinds
  PROVE  LET k == Post(m, e)
         IN  /\ k.text = IF m.last = "text" THEN m.text \o e.text ELSE m.text
             /\ k.thinking = IF m.last = "thinking" THEN m.thinking \o e.text ELSE m.thinking
             /\ k.marks = m.marks /\ k.reason = m.reason /\ k.flaws = m.flaws /\ k.last = m.last
  <1>1. NewMarks(e) = {} /\ Fits(m, e) /\ (\A k : AddsTo(m, e, k) <=> m.last = k)
    BY DEF NewMarks, Fits, AddsTo
  <1>. QED BY <1>1 DEF Post

LEMMA DraftCloses ==
  ASSUME dialect = "anthropic", NEW l, NEW f, IsAnthropic(f), IsDraft(l, f)
  PROVE  /\ LET g == Anthropic!CloseThinking(f)
            IN  IsDraft(l, g) /\ Alike(Drafted(l, f.out), Drafted(l, g.out))
         /\ LET g == Anthropic!CloseText(f)
            IN  IsDraft(l, g) /\ Alike(Drafted(l, f.out), Drafted(l, g.out))
  <1>. DEFINE m == Drafted(l, f.out)
  <1>1. Alike(m, m)
    BY DEF Alike
  <1>2. ASSUME NEW e, e.type = "content_block_stop"
        PROVE  LET k == Drafted(l, Append(f.out, e)) IN Alike(m, k) /\ k.last = m.last
    BY <1>2, DraftedOn, StopPosts DEF IsAnthropic
  <1>3. ASSUME NEW g, NEW k, k = Drafted(l, g.out), Alike(m, k), k.last = m.last,
               g.thinkingOpen => f.thinkingOpen, g.textOpen => f.textOpen
        PROVE  IsDraft(l, g)
    <2>1. k.flaws = {} /\ IsSeq(k.text) /\ IsSeq(k.thinking)
      BY <1>3 DEF IsDraft, Alike
    <2>. QED BY <1>3, <2>1 DEF IsDraft
  <1>4. ASSUME f.thinkingOpen
        PROVE  LET g == Anthropic!CloseThinking(f) IN IsDraft(l, g) /\ Alike(m, Drafted(l, g.out))
    <2>. DEFINE e == Anthropic!BlockStop(f.thinkingAt)
                g == Anthropic!CloseThinking(f)
    <2>1. e.type = "content_block_stop"
      BY DEF Anthropic!BlockStop
    <2>2. g.out = Append(f.out, e) /\ ~g.thinkingOpen /\ g.textOpen = f.textOpen
      BY <1>4 DEF Anthropic!CloseThinking, Anthropic!Emit, IsAnthropic, AnthropicFields
    <2>. HIDE DEF e, g, m
    <2>. QED BY <1>2, <1>3, <2>1, <2>2 DEF g
  <1>5. ASSUME f.textOpen
        PROVE  LET g == Anthropic!CloseText(f) IN IsDraft(l, g) /\ Alike(m, Drafted(l, g.out))
    <2>. DEFINE e == Anthropic!BlockStop(f.textAt)
                g == Anthropic!CloseText(f)
    <2>1. e.type = "content_block_stop"
      BY DEF Anthropic!BlockStop
    <2>2. g.out = Append(f.out, e) /\ ~g.textOpen /\ g.thinkingOpen = f.thinkingOpen
      BY <1>5 DEF Anthropic!CloseText, Anthropic!Emit, IsAnthropic, AnthropicFields
    <2>. HIDE DEF e, g, m
    <2>. QED BY <1>2, <1>3, <2>1, <2>2 DEF g
  <1>6. ~f.thinkingOpen => Anthropic!CloseThinking(f) = f
    BY DEF Anthropic!CloseThinking
  <1>7. ~f.textOpen => Anthropic!CloseText(f) = f
    BY DEF Anthropic!CloseText
  <1>. HIDE DEF m
  <1>. QED BY <1>1, <1>4, <1>5, <1>6, <1>7 DEF m

LEMMA DraftOpens ==
  ASSUME dialect = "anthropic", NEW l, NEW f, IsAnthropic(f), IsDraft(l, f)
  PROVE  /\ ~f.textOpen =>
              LET g == Anthropic!OpenThinking(f)
              IN  /\ IsDraft(l, g) /\ Alike(Drafted(l, f.out), Drafted(l, g.out))
                  /\ Drafted(l, g.out).last = "thinking"
         /\ ~f.thinkingOpen =>
              LET g == Anthropic!OpenText(f)
              IN  /\ IsDraft(l, g) /\ Alike(Drafted(l, f.out), Drafted(l, g.out))
                  /\ Drafted(l, g.out).last = "text"
  <1>. DEFINE m == Drafted(l, f.out)
  <1>1. Alike(m, m)
    BY DEF Alike
  <1>2. ASSUME NEW e, e.type = "content_block_start", e.kind # "tool_use", e.call = <<>>
        PROVE  LET k == Drafted(l, Append(f.out, e)) IN Alike(m, k) /\ k.last = e.kind
    BY <1>2, DraftedOn, StartPosts DEF IsAnthropic
  <1>3. ASSUME NEW g, NEW k, k = Drafted(l, g.out), Alike(m, k),
               g.thinkingOpen => k.last = "thinking", g.textOpen => k.last = "text"
        PROVE  IsDraft(l, g)
    <2>1. k.flaws = {} /\ IsSeq(k.text) /\ IsSeq(k.thinking)
      BY <1>3 DEF IsDraft, Alike
    <2>. QED BY <1>3, <2>1 DEF IsDraft
  <1>4. ASSUME ~f.textOpen, ~f.thinkingOpen
        PROVE  LET g == Anthropic!OpenThinking(f)
                   k == Drafted(l, g.out)
               IN  IsDraft(l, g) /\ Alike(m, k) /\ k.last = "thinking"
    <2>. DEFINE e == Anthropic!BlockStart(f.current, "thinking", <<>>)
                g == Anthropic!OpenThinking(f)
    <2>1. e.type = "content_block_start" /\ e.kind = "thinking" /\ e.call = <<>>
      BY DEF Anthropic!BlockStart
    <2>2. g.out = Append(f.out, e) /\ g.textOpen = f.textOpen
      BY <1>4 DEF Anthropic!OpenThinking, Anthropic!Emit, IsAnthropic, AnthropicFields
    <2>. HIDE DEF e, g, m
    <2>. QED BY <1>2, <1>3, <1>4, <2>1, <2>2 DEF g
  <1>5. ASSUME ~f.textOpen, ~f.thinkingOpen
        PROVE  LET g == Anthropic!OpenText(f)
                   k == Drafted(l, g.out)
               IN  IsDraft(l, g) /\ Alike(m, k) /\ k.last = "text"
    <2>. DEFINE e == Anthropic!BlockStart(f.current, "text", <<>>)
                g == Anthropic!OpenText(f)
    <2>1. e.type = "content_block_start" /\ e.kind = "text" /\ e.call = <<>>
      BY DEF Anthropic!BlockStart
    <2>2. g.out = Append(f.out, e) /\ g.thinkingOpen = f.thinkingOpen
      BY <1>5 DEF Anthropic!OpenText, Anthropic!Emit, IsAnthropic, AnthropicFields
    <2>. HIDE DEF e, g, m
    <2>. QED BY <1>2, <1>3, <1>5, <2>1, <2>2 DEF g
  <1>6. f.thinkingOpen => Anthropic!OpenThinking(f) = f /\ m.last = "thinking"
    BY DEF Anthropic!OpenThinking, IsDraft
  <1>7. f.textOpen => Anthropic!OpenText(f) = f /\ m.last = "text"
    BY DEF Anthropic!OpenText, IsDraft
  <1>. HIDE DEF m
  <1>. QED BY <1>1, <1>4, <1>5, <1>6, <1>7 DEF m

\* What the client can put together has more text of a kind, and is the same otherwise.
Gains(l, f, g, kind, more) ==
  LET m == Drafted(l, f.out)
      k == Drafted(l, g.out)
  IN  /\ k.text = IF kind = "text" THEN m.text \o more ELSE m.text
      /\ k.thinking = IF kind = "thinking" THEN m.thinking \o more ELSE m.thinking
      /\ k.marks = m.marks /\ k.reason = m.reason

\* Nothing that is written changes.
LEMMA SameDraft ==
  ASSUME NEW l, NEW f, IsDraft(l, f), NEW g, g.out = f.out,
         dialect = "anthropic" => g.thinkingOpen = f.thinkingOpen /\ g.textOpen = f.textOpen,
         NEW more
  PROVE  IsDraft(l, g) /\ Gains(l, f, g, "none", more)
  BY DEF IsDraft, Gains

\* The block that is open gets more text.
LEMMA DraftGrows ==
  ASSUME dialect = "anthropic", NEW l, NEW f, IsAnthropic(f), IsDraft(l, f),
         NEW kind \in TextKinds, Drafted(l, f.out).last = kind,
         NEW e, e.type = "content_block_delta", IsSeq(e.text),
         NEW g, Alters(f, g, {"out"}), g.out = Append(f.out, e)
  PROVE  IsDraft(l, g) /\ Gains(l, f, g, kind, e.text)
  <1>. DEFINE m == Drafted(l, f.out)
              k == Drafted(l, g.out)
  <1>1. k = Post(m, e)
    BY DraftedOn DEF IsAnthropic
  <1>. HIDE DEF k, m
  <1>2. /\ k.text = IF m.last = "text" THEN m.text \o e.text ELSE m.text
        /\ k.thinking = IF m.last = "thinking" THEN m.thinking \o e.text ELSE m.thinking
        /\ k.marks = m.marks /\ k.reason = m.reason /\ k.flaws = m.flaws /\ k.last = m.last
    BY <1>1, DeltaPosts DEF m
  <1>3. IsSeq(m.text) /\ IsSeq(m.thinking) /\ m.flaws = {}
    BY DEF IsDraft, m
  <1>4. IsSeq(k.text) /\ IsSeq(k.thinking)
    <2>1. IsSeq(m.text \o e.text) /\ IsSeq(m.thinking \o e.text)
      BY <1>3, ConcatFacts
    <2>. QED BY <1>2, <1>3, <2>1
  <1>5. g.thinkingOpen = f.thinkingOpen /\ g.textOpen = f.textOpen
    BY DEF Alters, AnthropicFields
  <1>6. IsDraft(l, g)
    BY <1>2, <1>3, <1>4, <1>5 DEF IsDraft, k, m
  <1>7. m.last = kind
    BY DEF m
  <1>8. Gains(l, f, g, kind, e.text)
    BY <1>2, <1>7 DEF Gains, k, m
  <1>. QED BY <1>6, <1>8

\* A call of the formatter that only opens, closes and fills blocks of text.
LEMMA ContentDrafts ==
  ASSUME dialect = "anthropic", NEW l, NEW cursor, NEW f, Kept(cursor, f), IsDraft(l, f),
         NEW text, IsSeq(text)
  PROVE  LET g == Anthropic!HandleContent(f, text)
         IN  /\ IsDraft(l, g) /\ Gains(l, f, g, "text", text)
             /\ Alters(f, g, BlockFields \cup {"fullContent"})
             /\ g.fullContent = f.fullContent \o text
  <1>. DEFINE whole == f.fullContent \o text
              f1   == [f EXCEPT !.fullContent = whole]
              f2   == Anthropic!CloseThinking(f1)
              f3   == Anthropic!OpenText(f2)
              e    == Anthropic!TextDelta(f3.textAt, text)
              g    == Anthropic!Emit(f3, e)
              held == Unless(f.fullContent = <<>>, "text")
  <1>1. IsSeq(whole)
    <2>1. IsSeq(f.fullContent)
      BY DEF Kept, Writes, IsAnthropic
    <2>. QED BY <2>1, ConcatFacts
  <1>2. Anthropic!HandleContent(f, text) = g
    BY DEF Anthropic!HandleContent
  <1>. HIDE DEF whole, held
  <1>3. Alters(f, f1, {"fullContent"}) /\ f1.fullContent = whole
    BY DEF Kept, Writes, IsAnthropic, Alters, AnthropicFields
  <1>4. Writes(cursor, f1, held)
    <2>. HIDE DEF f1
    <2>1. Alters(f, f1, {"fullContent", "refused", "receivedContextUsage", "truncatedTools"})
      BY <1>3 DEF Alters
    <2>. QED BY <1>1, <1>3, <2>1, NothingWritten DEF Kept, held
  <1>. HIDE DEF f1
  <1>5. /\ f1.out = f.out /\ f1.thinkingOpen = f.thinkingOpen /\ f1.textOpen = f.textOpen
    BY <1>3 DEF Alters, AnthropicFields
  <1>6. IsDraft(l, f1) /\ IsAnthropic(f1)
    BY <1>4, <1>5, SameDraft DEF Writes
  <1>7. Writes(cursor, f2, held) /\ Alters(f1, f2, BlockFields) /\ ~f2.thinkingOpen
    BY <1>4, ClosesThinking
  <1>8. IsDraft(l, f2) /\ Alike(Drafted(l, f1.out), Drafted(l, f2.out))
    BY <1>6, DraftCloses
  <1>. HIDE DEF f2
  <1>9. Writes(cursor, f3, held) /\ Alters(f2, f3, BlockFields) /\ f3.textOpen
    BY <1>7, OpensText
  <1>10. /\ IsDraft(l, f3) /\ Alike(Drafted(l, f2.out), Drafted(l, f3.out))
         /\ Drafted(l, f3.out).last = "text"
    BY <1>7, <1>8, DraftOpens DEF Writes
  <1>. HIDE DEF f3
  <1>11. e.type = "content_block_delta" /\ e.text = text
    BY DEF Anthropic!TextDelta
  <1>. HIDE DEF e
  <1>12. Alters(f3, g, {"out"}) /\ g.out = Append(f3.out, e)
    BY <1>9, EmitsEvent DEF Writes
  <1>. HIDE DEF g
  <1>13. IsDraft(l, g) /\ Gains(l, f3, g, "text", text)
    <2>1. "text" \in TextKinds /\ IsAnthropic(f3) /\ IsSeq(e.text)
      BY <1>9, <1>11 DEF TextKinds, Writes
    <2>. QED BY <1>10, <1>11, <1>12, <2>1, DraftGrows
  <1>14. Gains(l, f, g, "text", text)
    BY <1>5, <1>8, <1>10, <1>13 DEF Gains, Alike
  <1>15. Alters(f, g, BlockFields \cup {"fullContent"})
    BY <1>3, <1>7, <1>9, <1>12 DEF Alters, BlockFields
  <1>16. g.fullContent = whole
    BY <1>3, <1>7, <1>9, <1>12 DEF Alters, BlockFields, AnthropicFields
  <1>. QED BY <1>2, <1>13, <1>14, <1>15, <1>16 DEF whole

\* Thinking, in the block that is open for it.
LEMMA ThinkingGrows ==
  ASSUME dialect = "anthropic", NEW l, NEW f, IsAnthropic(f), IsDraft(l, f), f.thinkingOpen,
         NEW at, NEW text, IsSeq(text)
  PROVE  LET g == Anthropic!Emit(f, Anthropic!TextDelta(at, text))
         IN  IsDraft(l, g) /\ Gains(l, f, g, "thinking", text) /\ Alters(f, g, {"out"})
  <1>. DEFINE e == Anthropic!TextDelta(at, text)
              g == Anthropic!Emit(f, e)
  <1>1. e.type = "content_block_delta" /\ e.text = text
    BY DEF Anthropic!TextDelta
  <1>. HIDE DEF e
  <1>2. Alters(f, g, {"out"}) /\ g.out = Append(f.out, e)
    BY EmitsEvent
  <1>. HIDE DEF g
  <1>3. "thinking" \in TextKinds /\ Drafted(l, f.out).last = "thinking" /\ IsSeq(e.text)
    BY <1>1 DEF TextKinds, IsDraft
  <1>4. IsDraft(l, g) /\ Gains(l, f, g, "thinking", text)
    BY <1>1, <1>2, <1>3, DraftGrows
  <1>. QED BY <1>2, <1>4 DEF g, e

LEMMA ThinkingDrafts ==
  ASSUME dialect = "anthropic", NEW l, NEW cursor, NEW f, Kept(cursor, f), IsDraft(l, f),
         ~f.textOpen, NEW text, IsSeq(text)
  PROVE  LET g == Anthropic!HandleThinking(f, text)
         IN  /\ IsDraft(l, g) /\ Alters(f, g, BlockFields)
             /\ Gains(l, f, g, IF f.handling = "Strip" THEN "none" ELSE "thinking", text)
  <1>. DEFINE f1 == Anthropic!OpenThinking(f)
              g  == Anthropic!Emit(f1, Anthropic!TextDelta(f1.thinkingAt, text))
              h  == Anthropic!HandleThinking(f, text)
  <1>1. h = IF f.handling = "Strip" THEN f ELSE g
    BY DEF Anthropic!HandleThinking
  <1>. HIDE DEF h
  <1>2. /\ Writes(cursor, f1, Unless(f.fullContent = <<>>, "text"))
        /\ Alters(f, f1, BlockFields) /\ f1.thinkingOpen
    BY OpensThinking DEF Kept
  <1>3. IsDraft(l, f1) /\ Alike(Drafted(l, f.out), Drafted(l, f1.out))
    BY DraftOpens DEF Kept, Writes
  <1>. HIDE DEF f1
  <1>4. IsDraft(l, g) /\ Gains(l, f1, g, "thinking", text) /\ Alters(f1, g, {"out"})
    BY <1>2, <1>3, ThinkingGrows DEF Writes
  <1>. HIDE DEF g
  <1>5. Gains(l, f, g, "thinking", text)
    BY <1>3, <1>4 DEF Gains, Alike
  <1>6. Alters(f, g, BlockFields) /\ Alters(f, f, BlockFields)
    BY <1>2, <1>4 DEF Alters, BlockFields, Kept, Writes, IsAnthropic
  <1>7. Gains(l, f, f, "none", text)
    BY DEF Gains
  <1>. QED BY <1>1, <1>4, <1>5, <1>6, <1>7 DEF h

LEMMA NativeOpens ==
  ASSUME dialect = "anthropic", NEW l, NEW cursor, NEW f, Kept(cursor, f), IsDraft(l, f)
  PROVE  LET g == Anthropic!OpenNativeThinking(f)
         IN  /\ IsDraft(l, g) /\ Alike(Drafted(l, f.out), Drafted(l, g.out))
             /\ IsAnthropic(g) /\ Alters(f, g, BlockFields) /\ g.thinkingOpen
  <1>. DEFINE f1 == Anthropic!CloseText(f)
              f2 == Anthropic!OpenThinking(f1)
              g  == Anthropic!OpenNativeThinking(f)
  <1>1. IsAnthropic(g) /\ Alters(f, g, BlockFields) /\ g.thinkingOpen
    BY OpensNativeThinking DEF Kept, Writes
  <1>2. g = IF f.thinkingOpen THEN f ELSE f2
    BY DEF Anthropic!OpenNativeThinking
  <1>. HIDE DEF g
  <1>3. IsAnthropic(f1) /\ ~f1.textOpen
    BY ClosesText DEF Kept, Writes
  <1>4. IsDraft(l, f1) /\ Alike(Drafted(l, f.out), Drafted(l, f1.out))
    BY DraftCloses DEF Kept, Writes
  <1>. HIDE DEF f1
  <1>5. IsDraft(l, f2) /\ Alike(Drafted(l, f1.out), Drafted(l, f2.out))
    BY <1>3, <1>4, DraftOpens
  <1>. HIDE DEF f2
  <1>6. Alike(Drafted(l, f.out), Drafted(l, f2.out)) /\ Alike(Drafted(l, f.out), Drafted(l, f.out))
    BY <1>4, <1>5 DEF Alike
  <1>. QED BY <1>1, <1>2, <1>5, <1>6 DEF g

LEMMA NativeDrafts ==
  ASSUME dialect = "anthropic", NEW l, NEW cursor, NEW f, Kept(cursor, f), IsDraft(l, f),
         NEW text, IsSeq(text)
  PROVE  LET g == Anthropic!HandleNativeThinking(f, text)
         IN  /\ IsDraft(l, g) /\ Alters(f, g, BlockFields)
             /\ Gains(l, f, g, IF f.handling = "Strip" THEN "none" ELSE "thinking", text)
  <1>. DEFINE f1 == Anthropic!OpenNativeThinking(f)
              g  == Anthropic!Emit(f1, Anthropic!TextDelta(f1.thinkingAt, text))
              h  == Anthropic!HandleNativeThinking(f, text)
  <1>1. h = IF f.handling = "Strip" THEN f ELSE g
    BY DEF Anthropic!HandleNativeThinking, Anthropic!HandleThinking
  <1>. HIDE DEF h
  <1>2. /\ IsDraft(l, f1) /\ Alike(Drafted(l, f.out), Drafted(l, f1.out))
        /\ IsAnthropic(f1) /\ Alters(f, f1, BlockFields) /\ f1.thinkingOpen
    BY NativeOpens
  <1>. HIDE DEF f1
  <1>4. IsDraft(l, g) /\ Gains(l, f1, g, "thinking", text) /\ Alters(f1, g, {"out"})
    BY <1>2, ThinkingGrows
  <1>. HIDE DEF g
  <1>5. Gains(l, f, g, "thinking", text)
    BY <1>2, <1>4 DEF Gains, Alike
  <1>6. Alters(f, g, BlockFields) /\ Alters(f, f, BlockFields)
    BY <1>2, <1>4 DEF Alters, BlockFields, Kept, Writes, IsAnthropic
  <1>7. Gains(l, f, f, "none", text)
    BY DEF Gains
  <1>. QED BY <1>1, <1>4, <1>5, <1>6, <1>7 DEF h

\* An event that adds nothing to what a reply tells.
QuietTypes ==
  {"content_block_stop", "signature_delta", "input_json_delta", "message_start", "message_stop",
   "done"}

\* g has one event more to write than f.
HasMore(f, g, e) ==
  /\ IsSeq(f.out) /\ g.out = Append(f.out, e)
  /\ dialect = "anthropic" => g.thinkingOpen = f.thinkingOpen /\ g.textOpen = f.textOpen

LEMMA QuietDraft ==
  ASSUME NEW l, NEW f, IsDraft(l, f), NEW e, e.type \in QuietTypes, NEW g, HasMore(f, g, e)
  PROVE  IsDraft(l, g) /\ Alike(Drafted(l, f.out), Drafted(l, g.out))
  <1>. DEFINE m == Drafted(l, f.out)
              k == Drafted(l, g.out)
  <1>1. k = Post(m, e)
    BY DraftedOn DEF HasMore
  <1>2. Alike(m, Post(m, e)) /\ Post(m, e).last = m.last
    BY StopPosts DEF QuietTypes
  <1>3. Alike(m, k) /\ k.last = m.last
    BY <1>1, <1>2
  <1>. HIDE DEF m, k
  <1>4. m.flaws = {} /\ IsSeq(m.text) /\ IsSeq(m.thinking)
    BY DEF IsDraft, m
  <1>5. k.flaws = {} /\ IsSeq(k.text) /\ IsSeq(k.thinking)
    BY <1>3, <1>4 DEF Alike
  <1>6. dialect = "anthropic" => (g.thinkingOpen => k.last = "thinking") /\ (g.textOpen => k.last = "text")
    BY <1>3 DEF IsDraft, m, HasMore
  <1>. QED BY <1>3, <1>5, <1>6 DEF IsDraft, k, m

LEMMA BlocksClosed ==
  ASSUME dialect = "anthropic", NEW l, NEW cursor, NEW f, NEW held, Writes(cursor, f, held),
         IsDraft(l, f)
  PROVE  LET g == Anthropic!CloseOpenBlocks(f)
         IN  IsDraft(l, g) /\ Alike(Drafted(l, f.out), Drafted(l, g.out))
  <1>. DEFINE g == Anthropic!CloseThinking(f)
              h == Anthropic!CloseText(g)
  <1>1. IsAnthropic(g)
    BY ClosesThinking DEF Writes
  <1>2. IsDraft(l, g) /\ Alike(Drafted(l, f.out), Drafted(l, g.out))
    BY DraftCloses DEF Writes
  <1>3. h = Anthropic!CloseOpenBlocks(f)
    BY DEF Anthropic!CloseOpenBlocks
  <1>. HIDE DEF g
  <1>4. IsDraft(l, h) /\ Alike(Drafted(l, g.out), Drafted(l, h.out))
    BY <1>1, <1>2, DraftCloses
  <1>. HIDE DEF h
  <1>5. Alike(Drafted(l, f.out), Drafted(l, h.out))
    BY <1>2, <1>4 DEF Alike
  <1>. QED BY <1>3, <1>4, <1>5

LEMMA SignatureDrafts ==
  ASSUME dialect = "anthropic", NEW l, NEW cursor, NEW f, Kept(cursor, f), IsDraft(l, f), NEW text
  PROVE  LET g == Anthropic!HandleThinkingSignature(f)
         IN  IsDraft(l, g) /\ Alters(f, g, BlockFields) /\ Gains(l, f, g, "none", text)
  <1>. DEFINE f1 == Anthropic!OpenNativeThinking(f)
              e  == Anthropic!SignatureDelta(f1.thinkingAt)
              f2 == Anthropic!Emit(f1, e)
              g  == Anthropic!CloseThinking(f2)
              h  == Anthropic!HandleThinkingSignature(f)
  <1>1. h = IF f.handling = "Strip" THEN f ELSE g
    BY DEF Anthropic!HandleThinkingSignature
  <1>. HIDE DEF h
  <1>2. Kept(cursor, f1) /\ Alters(f, f1, BlockFields) /\ f1.thinkingOpen
    BY OpensNativeThinking
  <1>3. IsDraft(l, f1) /\ Alike(Drafted(l, f.out), Drafted(l, f1.out)) /\ IsAnthropic(f1)
    BY NativeOpens
  <1>. HIDE DEF f1
  <1>4. e.type = "signature_delta" /\ e.index = f1.thinkingAt
    BY DEF Anthropic!SignatureDelta
  <1>. HIDE DEF e
  <1>5. Kept(cursor, f2) /\ Alters(f1, f2, {"out"})
    BY <1>2, <1>4, BlockThinks
  <1>6. f2.out = Append(f1.out, e)
    BY <1>3, EmitsEvent
  <1>. HIDE DEF f2
  <1>7. f2.thinkingOpen = f1.thinkingOpen /\ f2.textOpen = f1.textOpen /\ IsSeq(f1.out)
    BY <1>3, <1>5 DEF Alters, AnthropicFields, IsAnthropic
  <1>8. IsDraft(l, f2) /\ Alike(Drafted(l, f1.out), Drafted(l, f2.out))
    <2>1. e.type \in QuietTypes /\ HasMore(f1, f2, e)
      BY <1>4, <1>6, <1>7 DEF QuietTypes, HasMore
    <2>. QED BY <1>3, <2>1, QuietDraft
  <1>9. IsDraft(l, g) /\ Alike(Drafted(l, f2.out), Drafted(l, g.out))
    BY <1>5, <1>8, DraftCloses DEF Kept, Writes
  <1>10. Alters(f2, g, BlockFields)
    BY <1>5, ClosesThinking DEF Kept
  <1>. HIDE DEF g
  <1>11. Gains(l, f, g, "none", text) /\ Gains(l, f, f, "none", text)
    BY <1>3, <1>8, <1>9 DEF Gains, Alike
  <1>12. Alters(f, g, BlockFields) /\ Alters(f, f, BlockFields)
    BY <1>2, <1>5, <1>10 DEF Alters, BlockFields, Kept, Writes, IsAnthropic
  <1>. QED BY <1>1, <1>9, <1>11, <1>12 DEF h

LEMMA RedactedDrafts ==
  ASSUME dialect = "anthropic", NEW l, NEW cursor, NEW f, Kept(cursor, f), IsDraft(l, f), NEW text
  PROVE  LET g == Anthropic!HandleRedactedThinking(f)
         IN  IsDraft(l, g) /\ Alters(f, g, BlockFields) /\ Gains(l, f, g, "none", text)
  <1>. DEFINE f1 == Anthropic!CloseOpenBlocks(f)
              start == Anthropic!BlockStart(f1.current, "redacted_thinking", <<>>)
              stop == Anthropic!BlockStop(f1.current)
              g  == [Anthropic!ReserveToolBlock(f1) EXCEPT !.out = @ \o <<start, stop>>]
              h  == Anthropic!HandleRedactedThinking(f)
              held == Unless(f.fullContent = <<>>, "text")
              one == Append(f1.out, start)
              m == Drafted(l, f1.out)
              k == Drafted(l, one)
              p == Drafted(l, Append(one, stop))
  <1>1. h = IF f.handling = "Strip" THEN f ELSE g
    BY DEF Anthropic!HandleRedactedThinking
  <1>. HIDE DEF h, held
  <1>2. Writes(cursor, f1, held) /\ Alters(f, f1, BlockFields) /\ ~f1.thinkingOpen /\ ~f1.textOpen
    BY ClosesBlocks DEF Kept, held
  <1>3. IsDraft(l, f1) /\ Alike(Drafted(l, f.out), Drafted(l, f1.out))
    BY BlocksClosed DEF Kept
  <1>. HIDE DEF f1
  <1>4. /\ start.type = "content_block_start" /\ start.kind = "redacted_thinking" /\ start.call = <<>>
        /\ stop.type = "content_block_stop"
    BY DEF Anthropic!BlockStart, Anthropic!BlockStop
  <1>5. PICK r : r = g
    OBVIOUS
  <1>6. Writes(cursor, r, held) /\ Alters(f1, r, {"current", "out"}) /\ ~r.textOpen /\ ~r.thinkingOpen
    BY <1>2, <1>5, EmitsRedactedBlock
  <1>7. g.out = f1.out \o <<start, stop>> /\ IsSeq(f1.out)
    BY <1>2 DEF Anthropic!ReserveToolBlock, Writes, IsAnthropic, AnthropicFields
  <1>. HIDE DEF g, start, stop
  <1>8. r.out = Append(one, stop) /\ IsSeq(one)
    <2>1. f1.out \o <<start, stop>> = Append(Append(f1.out, start), stop)
      BY <1>7, AppendTwo
    <2>2. IsSeq(Append(f1.out, start))
      BY <1>7, AppendFacts
    <2>. QED BY <1>5, <1>7, <2>1, <2>2
  <1>9. k = Post(m, start)
    BY <1>7, DraftedOn
  <1>. HIDE DEF one
  <1>10. p = Post(k, stop)
    BY <1>8, DraftedOn
  <1>. HIDE DEF m, k, p
  <1>11. Alike(m, k)
    BY <1>4, <1>9, StartPosts
  <1>12. Alike(k, p)
    BY <1>4, <1>10, StopPosts
  <1>13. Alike(m, p) /\ p = Drafted(l, r.out)
    BY <1>8, <1>11, <1>12 DEF Alike, p
  <1>14. IsDraft(l, r)
    <2>1. m.flaws = {} /\ IsSeq(m.text) /\ IsSeq(m.thinking)
      BY <1>3 DEF IsDraft, m
    <2>2. p.flaws = {} /\ IsSeq(p.text) /\ IsSeq(p.thinking)
      BY <1>13, <2>1 DEF Alike
    <2>. QED BY <1>6, <1>13, <2>2 DEF IsDraft
  <1>15. Gains(l, f, r, "none", text) /\ Gains(l, f, f, "none", text)
    BY <1>3, <1>13 DEF Gains, Alike, m
  <1>16. Alters(f, r, BlockFields) /\ Alters(f, f, BlockFields)
    BY <1>2, <1>6 DEF Alters, BlockFields, Kept, Writes, IsAnthropic
  <1>. QED BY <1>1, <1>5, <1>14, <1>15, <1>16 DEF h

\* The client can put together a call more.
GainsCall(l, f, g, call) ==
  LET m == Drafted(l, f.out)
      k == Drafted(l, g.out)
  IN  /\ k.text = m.text /\ k.thinking = m.thinking /\ k.reason = m.reason
      /\ k.marks = m.marks \cup {MarkOf(call)}

LEMMA OtherArguments ==
  ASSUME NEW call, IsCall(call), NEW a
  PROVE  LET d == [call EXCEPT !.arguments = a]
         IN  IsCall(d) /\ MarkOf(d) = MarkOf(call) /\ d.id = call.id
  BY DEF IsCall, CallFields, MarkOf

\* The start of the block of a call.
LEMMA CallPosts ==
  ASSUME NEW m, m.flaws = {}, NEW call, IsCall(call), call.id \notin IdsOf(m.marks), NEW e,
         e.type = "content_block_start", e.kind = "tool_use", NEW d, e.call = <<d>>,
         IsCall(d), MarkOf(d) = MarkOf(call), d.id = call.id
  PROVE  LET k == Post(m, e)
         IN  /\ k.text = m.text /\ k.thinking = m.thinking /\ k.reason = m.reason /\ k.flaws = {}
             /\ k.marks = m.marks \cup {MarkOf(call)}
  <1>1. e.call[1] = d /\ e.call # <<>>
    OBVIOUS
  <1>2. NewMarks(e) = {MarkOf(call)} /\ Fits(m, e) /\ (\A k : ~AddsTo(m, e, k))
    BY <1>1 DEF NewMarks, Fits, AddsTo
  <1>. QED BY <1>2 DEF Post

LEMMA ToolBlockDrafts ==
  ASSUME dialect = "anthropic", NEW l, NEW f, IsAnthropic(f), IsDraft(l, f),
         ~f.thinkingOpen, ~f.textOpen, NEW call, IsCall(call),
         call.id \notin IdsOf(Drafted(l, f.out).marks)
  PROVE  LET g == Anthropic!EmitToolUseBlock(f, call)
         IN  IsDraft(l, g) /\ GainsCall(l, f, g, call)
  <1>. DEFINE g == Anthropic!EmitToolUseBlock(f, call)
              empty == [call EXCEPT !.arguments = "{}"]
              start == Anthropic!BlockStart(f.current, "tool_use", <<empty>>)
              input == Anthropic!InputJSONDelta(f.current, call.arguments)
              stop  == Anthropic!BlockStop(f.current)
              one   == Append(f.out, start)
              two   == Append(one, input)
              three == Append(two, stop)
              m == Drafted(l, f.out)
              k == Drafted(l, one)
              p == Drafted(l, two)
              q == Drafted(l, three)
  <1>1. /\ g.out = f.out \o <<start, input, stop>> /\ ~g.thinkingOpen /\ ~g.textOpen
    BY DEF Anthropic!EmitToolUseBlock, Anthropic!ReserveToolBlock, IsAnthropic, AnthropicFields
  <1>2. /\ start.type = "content_block_start" /\ start.kind = "tool_use" /\ start.call = <<empty>>
        /\ input.type = "input_json_delta" /\ stop.type = "content_block_stop"
    BY DEF Anthropic!BlockStart, Anthropic!InputJSONDelta, Anthropic!BlockStop
  <1>3. IsCall(empty) /\ MarkOf(empty) = MarkOf(call) /\ empty.id = call.id
    <2>1. PICK a : a = "{}"
      OBVIOUS
    <2>2. empty = [call EXCEPT !.arguments = a]
      BY ZenonT(30), <2>1
    <2>. HIDE DEF empty
    <2>. QED BY <2>2, OtherArguments
  <1>. HIDE DEF empty, start, input, stop, g
  <1>4. IsSeq(f.out) /\ IsSeq(one) /\ IsSeq(two)
    <2>1. IsSeq(f.out)
      BY DEF IsAnthropic
    <2>2. IsSeq(one)
      BY <2>1, AppendFacts
    <2>. HIDE DEF one
    <2>. QED BY <2>1, <2>2, AppendFacts
  <1>5. g.out = three
    BY <1>1, <1>4, AppendThree
  <1>6. k = Post(m, start)
    BY <1>4, DraftedOn
  <1>. HIDE DEF one
  <1>7. p = Post(k, input)
    BY <1>4, DraftedOn
  <1>. HIDE DEF two
  <1>8. q = Post(p, stop)
    BY <1>4, DraftedOn
  <1>. HIDE DEF three
  <1>9. m.flaws = {} /\ IsSeq(m.text) /\ IsSeq(m.thinking) /\ call.id \notin IdsOf(m.marks)
    BY DEF IsDraft
  <1>. HIDE DEF m, k, p, q
  <1>10. /\ k.text = m.text /\ k.thinking = m.thinking /\ k.reason = m.reason /\ k.flaws = {}
         /\ k.marks = m.marks \cup {MarkOf(call)}
    BY <1>2, <1>3, <1>6, <1>9, CallPosts
  <1>11. Alike(k, p) /\ Alike(p, q)
    BY <1>2, <1>7, <1>8, StopPosts
  <1>12. /\ q.text = m.text /\ q.thinking = m.thinking /\ q.reason = m.reason /\ q.flaws = {}
         /\ q.marks = m.marks \cup {MarkOf(call)}
    BY <1>10, <1>11 DEF Alike
  <1>13. IsDraft(l, g)
    BY <1>1, <1>5, <1>9, <1>12 DEF IsDraft, q
  <1>14. GainsCall(l, f, g, call)
    BY <1>5, <1>12 DEF GainsCall, q, m
  <1>. QED BY <1>13, <1>14 DEF g

\* What the formatter counts of the calls it was given.
Cuts(ids, call) == IF call.truncated THEN ids \cup {call.id} ELSE ids

LEMMA ToolDrafts ==
  ASSUME dialect = "anthropic", NEW l, NEW cursor, NEW f, Kept(cursor, f), IsDraft(l, f),
         NEW call, IsCall(call), call.id \notin IdsOf(Drafted(l, f.out).marks)
  PROVE  LET g == Anthropic!HandleToolUse(f, call)
         IN  /\ IsDraft(l, g) /\ GainsCall(l, f, g, call)
             /\ Alters(f, g, BlockFields \cup {"toolBlockCount", "truncatedTools"})
             /\ g.toolBlockCount = f.toolBlockCount + 1
             /\ g.truncatedTools = Cuts(f.truncatedTools, call)
  <1>. DEFINE f1 == Anthropic!CloseOpenBlocks(f)
              ids == Cuts(f1.truncatedTools, call)
              f2 == [f1 EXCEPT !.truncatedTools = ids]
              g  == Anthropic!EmitToolUseBlock(f2, call)
              held == Unless(f.fullContent = <<>>, "text")
  <1>1. Anthropic!HandleToolUse(f, call) = g
    BY DEF Anthropic!HandleToolUse, Cuts
  <1>. HIDE DEF held, ids
  <1>2. Writes(cursor, f1, held) /\ Alters(f, f1, BlockFields) /\ ~f1.thinkingOpen /\ ~f1.textOpen
    BY ClosesBlocks DEF Kept, held
  <1>3. IsDraft(l, f1) /\ Alike(Drafted(l, f.out), Drafted(l, f1.out))
    BY BlocksClosed DEF Kept
  <1>. HIDE DEF f1
  <1>4. Alters(f1, f2, {"truncatedTools"}) /\ f2.truncatedTools = ids
    BY <1>2 DEF Writes, IsAnthropic, Alters, AnthropicFields
  <1>. HIDE DEF f2
  <1>5. /\ f2.fullContent = f1.fullContent /\ f2.thinkingOpen = f1.thinkingOpen
        /\ f2.textOpen = f1.textOpen /\ f2.out = f1.out
        /\ Alters(f1, f2, {"fullContent", "refused", "receivedContextUsage", "truncatedTools"})
    BY <1>4 DEF Alters, AnthropicFields
  <1>6. Writes(cursor, f2, held)
    BY SMTT(60), <1>2, <1>5, NothingWritten DEF Writes, IsAnthropic
  <1>7. IsDraft(l, f2)
    BY <1>3, <1>5, SameDraft
  <1>8. /\ Writes(cursor, g, held) /\ Alters(f2, g, {"current", "toolBlockCount", "out"})
        /\ g.toolBlockCount = f2.toolBlockCount + 1
    BY <1>2, <1>5, <1>6, EmitsToolBlock
  <1>9. IsDraft(l, g) /\ GainsCall(l, f2, g, call)
    <2>1. call.id \notin IdsOf(Drafted(l, f2.out).marks)
      BY <1>3, <1>5 DEF Alike
    <2>. QED BY <1>2, <1>5, <1>6, <1>7, <2>1, ToolBlockDrafts DEF Writes
  <1>. HIDE DEF g
  <1>10. GainsCall(l, f, g, call)
    BY <1>3, <1>5, <1>9 DEF GainsCall, Alike
  <1>11. Alters(f, g, BlockFields \cup {"toolBlockCount", "truncatedTools"})
    BY <1>2, <1>4, <1>8 DEF Alters, BlockFields
  <1>12. f2.toolBlockCount = f.toolBlockCount /\ f1.truncatedTools = f.truncatedTools
         /\ g.truncatedTools = f2.truncatedTools
    BY <1>2, <1>4, <1>8 DEF Alters, BlockFields, AnthropicFields
  <1>13. g.toolBlockCount = f.toolBlockCount + 1 /\ g.truncatedTools = Cuts(f.truncatedTools, call)
    BY <1>4, <1>8, <1>12 DEF ids
  <1>. QED BY <1>1, <1>9, <1>10, <1>11, <1>13

-----------------------------------------------------------------------------
(* An event that is no call.                                               *)
TextualKinds == {"content", "thinking", "native_thinking"}

TextIn(e) == IF e.kind \in TextualKinds THEN e.text ELSE <<>>

\* Where a reply shows the text of an event.
ShownAs(handling, e) ==
  IF e.kind = "content" THEN "text"
  ELSE IF e.kind \notin TextualKinds \/ handling = "Strip" THEN "none"
  ELSE IF handling = "AsReasoningContent" THEN "thinking" ELSE "text"

\* The calls that came so far, as a formatter keeps them.
CallsIn(f) == IF dialect = "anthropic" THEN f.toolBlockCount ELSE f.toolCallsFromStream

FormatterModes ==
  IF dialect = "anthropic" THEN {"AsReasoningContent", "Strip"} ELSE {"AsReasoningContent", "AsContent"}

\* What no event but a call changes, and the content that was seen.
GoesOn(f, g, content) ==
  /\ g.handling = f.handling /\ CallsIn(g) = CallsIn(f) /\ g.truncatedTools = f.truncatedTools
  /\ g.fullContent = content

ContentAfter(f, e) == IF e.kind = "content" THEN f.fullContent \o e.text ELSE f.fullContent

\* g is f after an event that is no call.
Tells(l, f, g, e) ==
  /\ IsDraft(l, g) /\ Gains(l, f, g, ShownAs(f.handling, e), TextIn(e))
  /\ GoesOn(f, g, ContentAfter(f, e))

LEMMA BlocksGoOn ==
  ASSUME dialect = "anthropic", NEW f, NEW g,
         Alters(f, g, BlockFields \cup {"refused", "receivedContextUsage"})
  PROVE  GoesOn(f, g, f.fullContent)
  BY DEF Alters, BlockFields, AnthropicFields, GoesOn, CallsIn

LEMMA AnthropicTells ==
  ASSUME dialect = "anthropic", NEW l, NEW cursor, NEW f, Kept(cursor, f), IsDraft(l, f),
         f.handling \in FormatterModes, NEW e, IsEvent(e), e.kind # "tool_use",
         e.kind = "thinking" => ~f.textOpen
  PROVE  Tells(l, f, Anthropic!Handle(f, e), e)
  <1>. DEFINE g == Anthropic!Handle(f, e)
  <1>0. f.handling \in {"AsReasoningContent", "Strip"}
    BY DEF FormatterModes
  <1>1. CASE e.kind = "content"
    <2>. DEFINE text == e.text
    <2>1. g = Anthropic!HandleContent(f, text) /\ IsSeq(text)
      BY <1>1 DEF Anthropic!Handle, IsEvent
    <2>2. TextIn(e) = text /\ ShownAs(f.handling, e) = "text" /\ ContentAfter(f, e) = f.fullContent \o text
      BY <1>1 DEF TextIn, ShownAs, TextualKinds, ContentAfter
    <2>. HIDE DEF g, text
    <2>3. /\ IsDraft(l, g) /\ Gains(l, f, g, "text", text)
          /\ Alters(f, g, BlockFields \cup {"fullContent"}) /\ g.fullContent = f.fullContent \o text
      BY <2>1, ContentDrafts
    <2>4. GoesOn(f, g, f.fullContent \o text)
      BY <2>3 DEF Alters, BlockFields, AnthropicFields, GoesOn, CallsIn
    <2>. QED BY <2>2, <2>3, <2>4 DEF Tells, g
  <1>2. CASE e.kind \in {"thinking", "native_thinking"}
    <2>. DEFINE text == e.text
                kind == IF f.handling = "Strip" THEN "none" ELSE "thinking"
    <2>1. /\ IsSeq(text)
          /\ e.kind = "thinking" => g = Anthropic!HandleThinking(f, text) /\ ~f.textOpen
          /\ e.kind = "native_thinking" => g = Anthropic!HandleNativeThinking(f, text)
      BY <1>2 DEF Anthropic!Handle, IsEvent
    <2>2. TextIn(e) = text /\ ShownAs(f.handling, e) = kind /\ ContentAfter(f, e) = f.fullContent
      BY <1>0, <1>2 DEF TextIn, ShownAs, TextualKinds, ContentAfter
    <2>. HIDE DEF g, text
    <2>3. IsDraft(l, g) /\ Alters(f, g, BlockFields) /\ Gains(l, f, g, kind, text)
      <3>1. CASE e.kind = "thinking"
        BY <2>1, <3>1, ThinkingDrafts
      <3>2. CASE e.kind = "native_thinking"
        BY <2>1, <3>2, NativeDrafts
      <3>. QED BY <1>2, <3>1, <3>2
    <2>4. GoesOn(f, g, f.fullContent)
      BY <2>3, BlocksGoOn DEF Alters
    <2>. QED BY <2>2, <2>3, <2>4 DEF Tells, g
  <1>3. CASE e.kind \notin TextualKinds
    <2>1. TextIn(e) = <<>> /\ ShownAs(f.handling, e) = "none" /\ ContentAfter(f, e) = f.fullContent
      BY <1>3 DEF TextIn, ShownAs, TextualKinds, ContentAfter
    <2>2. /\ IsDraft(l, g) /\ Gains(l, f, g, "none", <<>>)
          /\ Alters(f, g, BlockFields \cup {"refused", "receivedContextUsage"})
      <3>1. CASE e.kind = "thinking_signature"
        <4>1. g = Anthropic!HandleThinkingSignature(f)
          BY <3>1 DEF Anthropic!Handle
        <4>. HIDE DEF g
        <4>2. IsDraft(l, g) /\ Alters(f, g, BlockFields) /\ Gains(l, f, g, "none", <<>>)
          BY <4>1, SignatureDrafts
        <4>. QED BY <4>2 DEF Alters
      <3>2. CASE e.kind = "redacted_thinking"
        <4>1. g = Anthropic!HandleRedactedThinking(f)
          BY <3>2 DEF Anthropic!Handle
        <4>. HIDE DEF g
        <4>2. IsDraft(l, g) /\ Alters(f, g, BlockFields) /\ Gains(l, f, g, "none", <<>>)
          BY <4>1, RedactedDrafts
        <4>. QED BY <4>2 DEF Alters
      <3>3. CASE e.kind \notin {"thinking_signature", "redacted_thinking"}
        <4>1. g = [f EXCEPT !.refused = TRUE] \/ g = [f EXCEPT !.receivedContextUsage = TRUE] \/ g = f
          BY <1>3, <3>3 DEF Anthropic!Handle, IsEvent, EventKinds, TextualKinds
        <4>. HIDE DEF g
        <4>2. /\ Alters(f, g, {"refused", "receivedContextUsage"})
              /\ g.out = f.out /\ g.thinkingOpen = f.thinkingOpen /\ g.textOpen = f.textOpen
          BY <4>1 DEF Kept, Writes, IsAnthropic, Alters, AnthropicFields
        <4>3. IsDraft(l, g) /\ Gains(l, f, g, "none", <<>>)
          BY <4>2, SameDraft
        <4>. QED BY <4>2, <4>3 DEF Alters
      <3>. QED BY <3>1, <3>2, <3>3
    <2>3. GoesOn(f, g, f.fullContent)
      BY <2>2, BlocksGoOn
    <2>. QED BY <2>1, <2>2, <2>3 DEF Tells
  <1>. QED BY <1>1, <1>2, <1>3 DEF TextualKinds

\* A chunk of text of a chat completion.
LEMMA ChunkDrafts ==
  ASSUME dialect = "openai", NEW l, NEW f, IsDraft(l, f), NEW e, NEW g, HasMore(f, g, e),
         e.type \in {"content", "reasoning_content"}, IsSeq(e.text)
  PROVE  /\ IsDraft(l, g)
         /\ Gains(l, f, g, IF e.type = "content" THEN "text" ELSE "thinking", e.text)
  <1>. DEFINE m == Drafted(l, f.out)
              k == Drafted(l, g.out)
              text == e.text
  <1>1. k = Post(m, e)
    BY DraftedOn DEF HasMore
  <1>2. /\ k.text = IF e.type = "content" THEN m.text \o text ELSE m.text
        /\ k.thinking = IF e.type = "reasoning_content" THEN m.thinking \o text ELSE m.thinking
        /\ k.marks = m.marks /\ k.reason = m.reason /\ k.flaws = m.flaws
    BY <1>1 DEF Post, AddsTo, NewMarks, Fits
  <1>. HIDE DEF m, k
  <1>3. IsSeq(m.text) /\ IsSeq(m.thinking) /\ m.flaws = {}
    BY DEF IsDraft, m
  <1>4. IsSeq(m.text \o text) /\ IsSeq(m.thinking \o text)
    BY <1>3, ConcatFacts
  <1>. HIDE DEF text
  <1>5. IsDraft(l, g)
    BY <1>2, <1>3, <1>4 DEF IsDraft, k
  <1>6. Gains(l, f, g, IF e.type = "content" THEN "text" ELSE "thinking", text)
    BY <1>2 DEF Gains, m, k
  <1>. QED BY <1>5, <1>6 DEF text

LEMMA OpenAITells ==
  ASSUME dialect = "openai", NEW l, NEW cursor, NEW f, OpenAIKept(cursor, f), IsDraft(l, f),
         f.handling \in FormatterModes, NEW e, IsEvent(e), e.kind # "tool_use"
  PROVE  Tells(l, f, OpenAI!Handle(f, e), e)
  <1>. DEFINE g == OpenAI!Handle(f, e)
  <1>0. f.handling \in {"AsReasoningContent", "AsContent"}
    BY DEF FormatterModes
  <1>1. CASE e.kind \in TextualKinds
    <2>. DEFINE kind  == ShownAs(f.handling, e)
                chunk == IF kind = "text" THEN OpenAI!ContentChunk(e.text) ELSE OpenAI!ReasoningChunk(e.text)
                whole == ContentAfter(f, e)
                out   == Append(f.out, chunk)
    <2>1. /\ kind \in TextKinds /\ chunk.text = e.text
          /\ chunk.type = IF kind = "text" THEN "content" ELSE "reasoning_content"
      BY <1>0, <1>1 DEF ShownAs, TextualKinds, TextKinds, OpenAI!ContentChunk, OpenAI!ReasoningChunk
    <2>2. g = [f EXCEPT !.fullContent = whole, !.out = out]
      <3>1. CASE e.kind = "content"
        BY <3>1 DEF OpenAI!Handle, OpenAI!Emit, OpenAIKept, IsOpenAI, OpenAIFields, ContentAfter, ShownAs
      <3>2. CASE e.kind # "content"
        <4>1. g = OpenAI!EmitThinkingChunk(f, e.text)
          BY <1>1, <3>2 DEF OpenAI!Handle, TextualKinds
        <4>2. chunk = IF f.handling = "AsReasoningContent" THEN OpenAI!ReasoningChunk(e.text)
                                                            ELSE OpenAI!ContentChunk(e.text)
          BY <1>0, <1>1, <3>2 DEF ShownAs
        <4>3. g = [f EXCEPT !.out = out]
          BY <4>1, <4>2 DEF OpenAI!EmitThinkingChunk, OpenAI!Emit
        <4>4. whole = f.fullContent
          BY <3>2 DEF ContentAfter
        <4>. HIDE DEF g, out, whole
        <4>5. [f EXCEPT !.out = out] = [f EXCEPT !.fullContent = f.fullContent, !.out = out]
          BY DEF OpenAIKept, IsOpenAI, OpenAIFields
        <4>. QED BY <4>3, <4>4, <4>5
      <3>. QED BY <3>1, <3>2
    <2>3. IsSeq(e.text) /\ TextIn(e) = e.text
      BY <1>1 DEF IsEvent, TextIn, TextualKinds
    <2>. HIDE DEF g, whole, chunk, out
    <2>4. /\ Changes(f, g, {"out", "fullContent"}) /\ g.out = out /\ g.fullContent = whole
          /\ IsSeq(f.out)
      BY <2>2 DEF OpenAIKept, IsOpenAI, Changes, OpenAIFields
    <2>5. HasMore(f, g, chunk)
      BY <2>4 DEF HasMore, out
    <2>6. IsDraft(l, g) /\ Gains(l, f, g, IF chunk.type = "content" THEN "text" ELSE "thinking", chunk.text)
      BY <2>1, <2>3, <2>5, ChunkDrafts
    <2>7. GoesOn(f, g, whole)
      BY <2>4 DEF GoesOn, Changes, OpenAIFields, CallsIn
    <2>8. (IF chunk.type = "content" THEN "text" ELSE "thinking") = kind /\ chunk.text = TextIn(e)
      BY <2>1, <2>3 DEF TextKinds
    <2>. HIDE DEF kind
    <2>. QED BY <2>6, <2>7, <2>8 DEF Tells, g, whole, kind
  <1>2. CASE e.kind \notin TextualKinds
    <2>1. TextIn(e) = <<>> /\ ShownAs(f.handling, e) = "none" /\ ContentAfter(f, e) = f.fullContent
      BY <1>2 DEF TextIn, ShownAs, TextualKinds, ContentAfter
    <2>2. \/ g = [f EXCEPT !.refused = TRUE] \/ g = [f EXCEPT !.receivedContextUsage = TRUE]
          \/ g = [f EXCEPT !.creditsUsed = TRUE] \/ g = f
      BY <1>2 DEF OpenAI!Handle, IsEvent, EventKinds, TextualKinds
    <2>. HIDE DEF g
    <2>3. Changes(f, g, {"refused", "receivedContextUsage", "creditsUsed"}) /\ g.out = f.out
      BY <2>2 DEF OpenAIKept, IsOpenAI, Changes, OpenAIFields
    <2>4. IsDraft(l, g) /\ Gains(l, f, g, "none", <<>>)
      BY <2>3, SameDraft
    <2>5. GoesOn(f, g, f.fullContent)
      BY <2>3 DEF GoesOn, Changes, OpenAIFields, CallsIn
    <2>. QED BY <2>1, <2>4, <2>5 DEF Tells, g
  <1>. QED BY <1>1, <1>2

\* An event that is no call, in either dialect.
LEMMA EventTells ==
  ASSUME dialect \in Dialects, NEW l, NEW cursor, NEW f, KeptBy(cursor, f), IsDraft(l, f),
         f.handling \in FormatterModes, NEW e, IsEvent(e), e.kind # "tool_use",
         e.kind = "thinking" => ~TextOpen(f)
  PROVE  Tells(l, f, Handle(f, e), e)
  <1>1. CASE dialect = "anthropic"
    <2>1. Kept(cursor, f) /\ (e.kind = "thinking" => ~f.textOpen) /\ Handle(f, e) = Anthropic!Handle(f, e)
      BY <1>1 DEF KeptBy, TextOpen, Handle
    <2>. QED BY <1>1, <2>1, AnthropicTells
  <1>2. CASE dialect = "openai"
    <2>1. OpenAIKept(cursor, f) /\ Handle(f, e) = OpenAI!Handle(f, e)
      BY <1>2 DEF KeptBy, Handle
    <2>. QED BY <1>2, <2>1, OpenAITells
  <1>. QED BY <1>1, <1>2 DEF Dialects

-----------------------------------------------------------------------------
(* The texts of a reply and those of the pipeline.                         *)

\* What is shown of the thinking and the content that a formatter was given, but for
\* the characters of native reasoning.
Shows(l, f, thinking, out) ==
  LET m == Drafted(l, f.out)
  IN  /\ f.handling # "AsContent" => m.text = f.fullContent
      /\ f.handling # "AsReasoningContent" => m.thinking = <<>>
      /\ f.handling = "AsReasoningContent" => Strained(out, m.thinking) = Strained(out, thinking)
      /\ f.handling = "AsContent" => Strained(out, m.text) = Strained(out, thinking \o f.fullContent)

Modes == {"AsReasoningContent", "Strip", "AsContent"}

\* Characters of native reasoning are not told.
IsNative(out, text) == IsSeq(text) /\ \A i \in 1 .. Len(text) : text[i] \in out

LEMMA StrainedLonger ==
  ASSUME NEW out, NEW s, IsSeq(s), NEW t, IsSeq(t), Strained(out, s) = Strained(out, t),
         NEW u, IsSeq(u)
  PROVE  /\ Strained(out, s \o u) = Strained(out, t \o u)
         /\ IsNative(out, u) => Strained(out, s \o u) = Strained(out, t)
  <1>1. /\ Strained(out, s \o u) = Strained(out, s) \o Strained(out, u)
        /\ Strained(out, t \o u) = Strained(out, t) \o Strained(out, u)
    BY ZenonT(60), StrainedJoined
  <1>2. IsNative(out, u) => Strained(out, u) = <<>>
    BY StrainedAway DEF IsNative
  <1>3. IsSeq(Strained(out, t))
    BY StrainsOn, ShortSeqs
  <1>4. Strained(out, t) \o <<>> = Strained(out, t)
    BY <1>3, ConcatNone
  <1>. HIDE DEF Strained
  <1>. QED BY <1>1, <1>2, <1>4

\* The thinking of the text after an event.
ThinkingAfter(thinking, e) == IF e.kind = "thinking" THEN thinking \o e.text ELSE thinking

\* Native reasoning has characters of its own, and thinking comes before content.
InOrder(f, e, out) ==
  /\ e.kind = "native_thinking" => IsNative(out, e.text)
  /\ e.kind = "thinking" => f.fullContent = <<>>

LEMMA ShownFully ==
  ASSUME NEW l, NEW f, IsDraft(l, f), f.handling \in Modes, IsSeq(f.fullContent), NEW thinking,
         IsSeq(thinking), NEW out, Shows(l, f, thinking, out), NEW e, IsEvent(e), NEW g,
         Tells(l, f, g, e), InOrder(f, e, out)
  PROVE  Shows(l, g, ThinkingAfter(thinking, e), out)
  <1>. DEFINE m == Drafted(l, f.out)
              k == Drafted(l, g.out)
              kind == ShownAs(f.handling, e)
              text == TextIn(e)
              C == f.fullContent
              D == g.fullContent
              T == ThinkingAfter(thinking, e)
              h == f.handling
  <1>1. IsSeq(m.text) /\ IsSeq(m.thinking)
    BY DEF IsDraft
  <1>2. /\ k.text = IF kind = "text" THEN m.text \o text ELSE m.text
        /\ k.thinking = IF kind = "thinking" THEN m.thinking \o text ELSE m.thinking
        /\ g.handling = h /\ D = ContentAfter(f, e)
    BY DEF Tells, Gains, GoesOn
  <1>3. /\ h # "AsContent" => m.text = C
        /\ h # "AsReasoningContent" => m.thinking = <<>>
        /\ h = "AsReasoningContent" => Strained(out, m.thinking) = Strained(out, thinking)
        /\ h = "AsContent" => Strained(out, m.text) = Strained(out, thinking \o C)
    BY DEF Shows
  <1>4. IsSeq(text) /\ h \in Modes
    BY ShortSeqs DEF IsEvent, TextIn, TextualKinds
  <1>5. IsSeq(thinking \o C)
    BY ConcatFacts
  <1>6. SUFFICES /\ h # "AsContent" => k.text = D
                 /\ h # "AsReasoningContent" => k.thinking = <<>>
                 /\ h = "AsReasoningContent" => Strained(out, k.thinking) = Strained(out, T)
                 /\ h = "AsContent" => Strained(out, k.text) = Strained(out, T \o D)
    BY <1>2 DEF Shows
  <1>7. CASE e.kind = "content"
    <2>1. kind = "text" /\ D = C \o text /\ T = thinking
      BY <1>2, <1>7 DEF ShownAs, TextIn, TextualKinds, ContentAfter, ThinkingAfter
    <2>0. IsSeq(C)
      OBVIOUS
    <2>. HIDE DEF m, k, kind, text, C, D, T, h
    <2>2. (thinking \o C) \o text = thinking \o (C \o text)
      BY SMTT(60), <1>4, <2>0, ConcatAssociates
    <2>3. h = "AsContent" => Strained(out, m.text \o text) = Strained(out, (thinking \o C) \o text)
      BY <1>1, <1>3, <1>4, <1>5, StrainedLonger
    <2>. QED BY <1>2, <1>3, <2>1, <2>2, <2>3
  <1>8. CASE e.kind = "thinking"
    <2>1. /\ kind = IF h = "Strip" THEN "none" ELSE IF h = "AsContent" THEN "text" ELSE "thinking"
          /\ D = C /\ T = thinking \o text /\ C = <<>>
      BY <1>2, <1>8 DEF ShownAs, TextIn, TextualKinds, ContentAfter, ThinkingAfter, InOrder, Modes
    <2>2. IsSeq(T)
      BY <1>4, <2>1, ConcatFacts
    <2>. HIDE DEF m, k, kind, text, C, D, T
    <2>3. T \o C = T /\ thinking \o C = thinking
      BY <2>1, <2>2, ConcatNone
    <2>4. h = "AsContent" => Strained(out, m.text \o text) = Strained(out, thinking \o text)
      BY <1>1, <1>3, <1>4, <2>3, StrainedLonger
    <2>5. h = "AsReasoningContent" => Strained(out, m.thinking \o text) = Strained(out, thinking \o text)
      BY <1>1, <1>3, <1>4, StrainedLonger
    <2>. HIDE DEF h
    <2>. QED BY <1>2, <1>3, <1>4, <2>1, <2>3, <2>4, <2>5 DEF Modes
  <1>9. CASE e.kind = "native_thinking"
    <2>1. /\ kind = IF h = "Strip" THEN "none" ELSE IF h = "AsContent" THEN "text" ELSE "thinking"
          /\ D = C /\ T = thinking /\ IsNative(out, text)
      BY <1>2, <1>9 DEF ShownAs, TextIn, TextualKinds, ContentAfter, ThinkingAfter, InOrder, Modes
    <2>. HIDE DEF m, k, kind, text, C, D, T
    <2>4. h = "AsContent" => Strained(out, m.text \o text) = Strained(out, thinking \o C)
      BY <1>1, <1>3, <1>4, <1>5, <2>1, StrainedLonger
    <2>5. h = "AsReasoningContent" => Strained(out, m.thinking \o text) = Strained(out, thinking)
      BY <1>1, <1>3, <1>4, <2>1, StrainedLonger
    <2>. HIDE DEF h
    <2>. QED BY <1>2, <1>3, <1>4, <2>1, <2>4, <2>5 DEF Modes
  <1>10. CASE e.kind \notin TextualKinds
    <2>1. kind = "none" /\ D = C /\ T = thinking
      BY <1>2, <1>10 DEF ShownAs, TextualKinds, ContentAfter, ThinkingAfter
    <2>. HIDE DEF m, k, kind, text, C, D, T, h
    <2>. QED BY <1>2, <1>3, <2>1
  <1>. QED BY <1>7, <1>8, <1>9, <1>10 DEF TextualKinds

\* A formatter with what it has told so far.
Tracked(l, cursor, f, thinking, out) ==
  /\ KeptBy(cursor, f) /\ IsDraft(l, f) /\ f.handling \in FormatterModes
  /\ IsSeq(thinking) /\ Shows(l, f, thinking, out)

\* What texts leave alone.
SameCalls(l, f, g) ==
  /\ g.handling = f.handling /\ CallsIn(g) = CallsIn(f) /\ g.truncatedTools = f.truncatedTools
  /\ Drafted(l, g.out).marks = Drafted(l, f.out).marks
  /\ Drafted(l, g.out).reason = Drafted(l, f.out).reason

LEMMA KeptContent ==
  ASSUME dialect \in Dialects, NEW cursor, NEW f, KeptBy(cursor, f)
  PROVE  IsSeq(f.fullContent) /\ IsSeq(f.out)
  BY DEF KeptBy, Kept, Writes, IsAnthropic, OpenAIKept, IsOpenAI, Dialects

LEMMA OneTold ==
  ASSUME dialect \in Dialects, NEW l, NEW cursor, NEW f, NEW thinking, NEW out,
         Tracked(l, cursor, f, thinking, out), NEW e, IsEvent(e), e.kind # "tool_use",
         e.kind = "thinking" => ~TextOpen(f), InOrder(f, e, out)
  PROVE  LET g == Handle(f, e)
         IN  /\ Tracked(l, cursor, g, ThinkingAfter(thinking, e), out) /\ SameCalls(l, f, g)
             /\ g.fullContent = ContentAfter(f, e) /\ (TextOpen(g) => TextOpen(f) \/ e.kind = "content")
  <1>. DEFINE g == Handle(f, e)
              T == ThinkingAfter(thinking, e)
  <1>1. KeptBy(cursor, f) /\ IsDraft(l, f) /\ f.handling \in FormatterModes /\ IsSeq(thinking)
    BY DEF Tracked
  <1>2. KeptBy(cursor, g) /\ (TextOpen(g) => TextOpen(f) \/ e.kind = "content")
    BY <1>1, HandlesEvent DEF Told
  <1>3. Tells(l, f, g, e)
    BY <1>1, EventTells
  <1>. HIDE DEF g
  <1>4. IsDraft(l, g) /\ SameCalls(l, f, g) /\ g.fullContent = ContentAfter(f, e)
    BY <1>3 DEF Tells, Gains, GoesOn, SameCalls
  <1>5. IsSeq(f.fullContent)
    BY <1>1, KeptContent
  <1>6. f.handling \in Modes
    BY <1>1 DEF FormatterModes, Modes
  <1>7. Shows(l, g, T, out)
    BY <1>1, <1>3, <1>5, <1>6, ShownFully DEF Tracked
  <1>8. IsSeq(T)
    <2>1. e.kind = "thinking" => IsSeq(e.text)
      BY DEF IsEvent
    <2>2. e.kind = "thinking" => IsSeq(thinking \o e.text)
      BY <1>1, <2>1, ConcatFacts
    <2>. QED BY <1>1, <2>2 DEF ThinkingAfter
  <1>. HIDE DEF T
  <1>9. g.handling \in FormatterModes
    BY <1>1, <1>4 DEF SameCalls
  <1>10. Tracked(l, cursor, g, T, out)
    BY <1>2, <1>4, <1>7, <1>8, <1>9 DEF Tracked
  <1>. QED BY <1>2, <1>4, <1>10 DEF g, T

\* The events that come together.
HandleAll(f, events) == FoldLeft(Handle, f, events)

LEMMA HandleFolds ==
  ASSUME NEW f, NEW events
  PROVE  HandleFold!FoldLeft(Handle, f, events) = HandleAll(f, events)
  BY DEF HandleAll, FoldLeft, MapThenFoldSet, Max,
         HandleFold!FoldLeft, HandleFold!MapThenFoldSet, HandleFold!Max

LEMMA HandlesNone ==
  ASSUME NEW f
  PROVE  HandleAll(f, <<>>) = f
  <1>1. HandleFold!FoldLeft(Handle, f, <<>>) = f
    BY HandleFold!FoldOfNone
  <1>. QED BY <1>1, HandleFolds

LEMMA HandlesOne ==
  ASSUME NEW f, NEW e
  PROVE  HandleAll(f, <<e>>) = Handle(f, e)
  <1>1. HandleFold!FoldLeft(Handle, f, <<e>>) = Handle(f, e)
    BY HandleFold!FoldOfOne
  <1>. QED BY <1>1, HandleFolds

LEMMA HandlesJoined ==
  ASSUME NEW f, NEW a, IsSeq(a), NEW b, IsSeq(b)
  PROVE  HandleAll(f, a \o b) = HandleAll(HandleAll(f, a), b)
  <1>1. HandleFold!FoldLeft(Handle, f, a \o b)
          = HandleFold!FoldLeft(Handle, HandleFold!FoldLeft(Handle, f, a), b)
    BY HandleFold!FoldOfJoined DEF IsSeq
  <1>. QED BY <1>1, HandleFolds

LEMMA DiagnosisTold ==
  ASSUME dialect \in Dialects, NEW f, NEW parser
  PROVE  HandleAll(f, TruncationDiagnosis(parser)) = f
  <1>. DEFINE e == [kind |-> "error"]
  <1>1. Handle(f, e) = f
    BY DEF Handle, Anthropic!Handle, OpenAI!Handle
  <1>2. TruncationDiagnosis(parser) = <<e>> \/ TruncationDiagnosis(parser) = <<>>
    BY DEF TruncationDiagnosis
  <1>. HIDE DEF e
  <1>. QED BY <1>1, <1>2, HandlesOne, HandlesNone

\* A text of the pipeline, of thinking or of content.
LEMMA TextTold ==
  ASSUME dialect \in Dialects, NEW l, NEW cursor, NEW f, NEW thinking, NEW out,
         Tracked(l, cursor, f, thinking, out), NEW kind \in {"thinking", "content"},
         NEW text, IsSeq(text),
         kind = "thinking" /\ text # <<>> => ~TextOpen(f) /\ f.fullContent = <<>>
  PROVE  LET g == HandleAll(f, TextEvent(kind, text))
         IN  /\ Tracked(l, cursor, g, IF kind = "thinking" THEN thinking \o text ELSE thinking, out)
             /\ SameCalls(l, f, g)
             /\ g.fullContent = IF kind = "content" THEN f.fullContent \o text ELSE f.fullContent
             /\ TextOpen(g) => TextOpen(f) \/ kind = "content"
  <1>. DEFINE g == HandleAll(f, TextEvent(kind, text))
              T == IF kind = "thinking" THEN thinking \o text ELSE thinking
              C == IF kind = "content" THEN f.fullContent \o text ELSE f.fullContent
  <1>1. CASE text = <<>>
    <2>1. g = f
      BY <1>1, HandlesNone DEF TextEvent
    <2>2. IsSeq(thinking) /\ IsSeq(f.fullContent)
      BY KeptContent DEF Tracked
    <2>3. T = thinking /\ C = f.fullContent
      BY <1>1, <2>2, ConcatNone
    <2>. HIDE DEF g, T, C
    <2>4. SameCalls(l, f, g)
      BY <2>1 DEF SameCalls
    <2>. QED BY <2>1, <2>3, <2>4 DEF g, T, C
  <1>2. CASE text # <<>>
    <2>. DEFINE e == [kind |-> kind, text |-> text]
    <2>1. g = Handle(f, e)
      BY <1>2, HandlesOne DEF TextEvent
    <2>2. e.kind = kind /\ e.text = text /\ IsEvent(e) /\ e.kind # "tool_use"
      BY DEF IsEvent, EventKinds
    <2>3. T = ThinkingAfter(thinking, e) /\ C = ContentAfter(f, e)
      BY DEF ThinkingAfter, ContentAfter
    <2>. HIDE DEF e, g
    <2>4. (e.kind = "thinking" => ~TextOpen(f)) /\ InOrder(f, e, out)
      BY <1>2, <2>2 DEF InOrder
    <2>. HIDE DEF T, C
    <2>5. /\ Tracked(l, cursor, g, T, out) /\ SameCalls(l, f, g) /\ g.fullContent = C
          /\ (TextOpen(g) => TextOpen(f) \/ e.kind = "content")
      BY <2>1, <2>2, <2>3, <2>4, OneTold
    <2>. QED BY <2>2, <2>5 DEF g, T, C
  <1>. QED BY <1>1, <1>2

ContentTells(l, cursor, f, thinking, out, c) ==
  LET g == HandleAll(f, TextEvent("content", c))
  IN  /\ Tracked(l, cursor, g, thinking, out) /\ SameCalls(l, f, g)
      /\ g.fullContent = f.fullContent \o c

LEMMA ContentTold ==
  ASSUME dialect \in Dialects, NEW l, NEW cursor, NEW f, NEW thinking, NEW out,
         Tracked(l, cursor, f, thinking, out), NEW c, IsSeq(c)
  PROVE  ContentTells(l, cursor, f, thinking, out, c)
  BY TextTold DEF ContentTells

\* What the thinking parser returns for a text.
LEMMA BothTold ==
  ASSUME dialect \in Dialects, NEW l, NEW cursor, NEW f, NEW thinking, NEW out,
         Tracked(l, cursor, f, thinking, out), NEW t, IsSeq(t), NEW c, IsSeq(c),
         t # <<>> => ~TextOpen(f) /\ f.fullContent = <<>>
  PROVE  LET g == HandleAll(f, TextEvent("thinking", t) \o TextEvent("content", c))
         IN  /\ Tracked(l, cursor, g, thinking \o t, out) /\ SameCalls(l, f, g)
             /\ g.fullContent = f.fullContent \o c
  <1>. DEFINE a == TextEvent("thinking", t)
              b == TextEvent("content", c)
              h == HandleAll(f, a)
              g == HandleAll(h, b)
              T == thinking \o t
  <1>1. IsSeq(a) /\ IsSeq(b)
    BY TextEvents DEF AreEvents
  <1>2. HandleAll(f, a \o b) = g
    BY <1>1, HandlesJoined
  <1>3. Tracked(l, cursor, h, T, out) /\ SameCalls(l, f, h) /\ h.fullContent = f.fullContent
    BY TextTold
  <1>. HIDE DEF h, T
  <1>4. Tracked(l, cursor, g, T, out) /\ SameCalls(l, h, g) /\ g.fullContent = h.fullContent \o c
    <2>1. ContentTells(l, cursor, h, T, out, c)
      BY <1>3, ContentTold
    <2>. QED BY <2>1 DEF ContentTells
  <1>. HIDE DEF g, a, b
  <1>5. SameCalls(l, f, g)
    BY <1>3, <1>4 DEF SameCalls
  <1>. QED BY <1>2, <1>3, <1>4, <1>5 DEF a, b, T

-----------------------------------------------------------------------------
(* More characters turn out to be of native reasoning.                     *)
LEMMA StrainedOne ==
  ASSUME NEW out, NEW s, IsSeq(s), NEW ch
  PROVE  Strained(out, Append(s, ch))
           = IF ch \in out THEN Strained(out, s) ELSE Append(Strained(out, s), ch)
  <1>. DEFINE base == [out |-> out, kept |-> <<>>]
              kept == Strained(out, s)
  <1>1. StrainFold!FoldLeft(KeepOthers, base, Append(s, ch))
          = KeepOthers(StrainFold!FoldLeft(KeepOthers, base, s), ch)
    <2>. HIDE DEF base
    <2>. QED BY StrainFold!FoldOfAppended DEF IsSeq
  <1>2. FoldLeft(KeepOthers, base, Append(s, ch)) = KeepOthers(FoldLeft(KeepOthers, base, s), ch)
    <2>. HIDE DEF base
    <2>. QED BY <1>1, StrainFolds
  <1>3. FoldLeft(KeepOthers, base, s) = [out |-> out, kept |-> kept]
    <2>1. IsSeq(<<>>) /\ IsSeq(kept)
      BY ShortSeqs, StrainsOn
    <2>2. StrainedFrom(out, <<>>, s) = [out |-> out, kept |-> <<>> \o Strained(out, s)]
      BY <2>1, StrainsOn
    <2>3. <<>> \o Strained(out, s) = kept
      BY <2>1, ConcatNone
    <2>. QED BY <2>2, <2>3 DEF StrainedFrom
  <1>4. FoldLeft(KeepOthers, base, Append(s, ch)).kept = IF ch \in out THEN kept ELSE Append(kept, ch)
    <2>. HIDE DEF base, kept
    <2>1. KeepOthers([out |-> out, kept |-> kept], ch)
            = [out |-> out, kept |-> IF ch \in out THEN kept ELSE Append(kept, ch)]
      BY KeepsOne
    <2>2. FoldLeft(KeepOthers, base, Append(s, ch))
            = [out |-> out, kept |-> IF ch \in out THEN kept ELSE Append(kept, ch)]
      BY <1>2, <1>3, <2>1
    <2>. QED BY <2>2
  <1>. QED BY <1>4 DEF Strained

LEMMA StrainedAgain ==
  ASSUME NEW out, NEW all, out \subseteq all, NEW text, IsSeq(text)
  PROVE  Strained(all, Strained(out, text)) = Strained(all, text)
  <1>. DEFINE n == Len(text)
  <1>1. n \in Nat /\ DOMAIN text = 1 .. n
    BY SeqFacts
  <1>2. IsSeq(<<>>)
    BY ShortSeqs
  <1>. HIDE DEF n
  <1>3. PICK h : Strains(h, out, <<>>, text, n)
    BY <1>1, StrainsInStages
  <1>4. PICK g : Strains(g, all, <<>>, text, n)
    BY <1>1, StrainsInStages
  <1>. DEFINE Good(k) == \E kept : /\ IsSeq(kept) /\ h[k] = [out |-> out, kept |-> kept]
                                   /\ g[k] = [out |-> all, kept |-> Strained(all, kept)]
              S == {k \in Nat : k <= n => Good(k)}
  <1>5. 0 \in S
    <2>1. g[0] = [out |-> all, kept |-> Strained(all, <<>>)] /\ h[0] = [out |-> out, kept |-> <<>>]
      BY <1>3, <1>4, StrainedNothing DEF Strains
    <2>. HIDE DEF Strained
    <2>2. Good(0)
      BY <1>2, <2>1
    <2>. HIDE DEF Good
    <2>. QED BY <2>2
  <1>. HIDE DEF Good
  <1>6. ASSUME NEW k \in Nat, k \in S PROVE k + 1 \in S
    <2>1. CASE k + 1 <= n
      <3>1. k + 1 \in 1 .. n /\ (k + 1) - 1 = k /\ Good(k)
        BY <1>1, <1>6, <2>1
      <3>2. PICK kept : /\ IsSeq(kept) /\ h[k] = [out |-> out, kept |-> kept]
                        /\ g[k] = [out |-> all, kept |-> Strained(all, kept)]
        BY <3>1 DEF Good
      <3>. DEFINE ch == text[k + 1]
                  longer == IF ch \in out THEN kept ELSE Append(kept, ch)
                  st == Strained(all, kept)
      <3>3. g[k + 1] = KeepOthers(g[k], ch) /\ h[k + 1] = KeepOthers(h[k], ch)
        BY <1>3, <1>4, <3>1 DEF Strains
      <3>. HIDE DEF ch, st
      <3>4. h[k + 1] = [out |-> out, kept |-> longer]
        BY <3>2, <3>3, KeepsOne
      <3>5. g[k + 1] = [out |-> all, kept |-> IF ch \in all THEN st ELSE Append(st, ch)]
        BY <3>2, <3>3, KeepsOne DEF st
      <3>6. Strained(all, Append(kept, ch)) = IF ch \in all THEN st ELSE Append(st, ch)
        BY <3>2, StrainedOne DEF st
      <3>7. Strained(all, longer) = IF ch \in all THEN st ELSE Append(st, ch)
        <4>1. CASE ch \in out
          BY <4>1 DEF st
        <4>2. CASE ch \notin out
          BY <3>6, <4>2
        <4>. QED BY <4>1, <4>2
      <3>8. IsSeq(longer)
        <4>1. IsSeq(Append(kept, ch))
          BY <3>2, AppendFacts
        <4>. QED BY <3>2, <4>1
      <3>. HIDE DEF longer
      <3>9. Good(k + 1)
        BY <3>4, <3>5, <3>7, <3>8 DEF Good
      <3>. QED BY <3>9
    <2>. QED BY <2>1
  <1>7. Good(n)
    <2>1. n \in S /\ n <= n
      <3>. HIDE DEF S
      <3>. QED BY <1>1, <1>5, <1>6, Induction
    <2>. QED BY <2>1
  <1>8. PICK kept : /\ IsSeq(kept) /\ h[n] = [out |-> out, kept |-> kept]
                    /\ g[n] = [out |-> all, kept |-> Strained(all, kept)]
    BY <1>7 DEF Good
  <1>9. StrainedFrom(out, <<>>, text).kept = kept /\ StrainedFrom(all, <<>>, text).kept = Strained(all, kept)
    BY <1>3, <1>4, <1>8 DEF Strains
  <1>10. Strained(out, text) = kept /\ Strained(all, text) = Strained(all, kept)
    BY <1>9 DEF StrainedFrom, Strained
  <1>. HIDE DEF Strained
  <1>. QED BY <1>10

LEMMA ShownStill ==
  ASSUME NEW l, NEW f, IsDraft(l, f), IsSeq(f.fullContent), NEW thinking, IsSeq(thinking),
         NEW out, Shows(l, f, thinking, out), NEW all, out \subseteq all
  PROVE  Shows(l, f, thinking, all)
  <1>. DEFINE m == Drafted(l, f.out)
              both == thinking \o f.fullContent
  <1>1. IsSeq(m.text) /\ IsSeq(m.thinking) /\ IsSeq(both)
    BY ConcatFacts DEF IsDraft
  <1>. HIDE DEF m, both
  <1>2. /\ Strained(all, Strained(out, m.text)) = Strained(all, m.text)
        /\ Strained(all, Strained(out, m.thinking)) = Strained(all, m.thinking)
        /\ Strained(all, Strained(out, both)) = Strained(all, both)
        /\ Strained(all, Strained(out, thinking)) = Strained(all, thinking)
    BY <1>1, StrainedAgain
  <1>3. /\ Strained(out, m.thinking) = Strained(out, thinking)
           => Strained(all, m.thinking) = Strained(all, thinking)
        /\ Strained(out, m.text) = Strained(out, both) => Strained(all, m.text) = Strained(all, both)
    <2>. HIDE DEF Strained
    <2>. QED BY <1>2
  <1>. HIDE DEF Strained
  <1>. QED BY <1>3 DEF Shows, m, both

-----------------------------------------------------------------------------
(* The calls of the stream, which come when it has ended.                  *)
EventsOf(calls) == [i \in DOMAIN calls |-> [kind |-> "tool_use", call |-> calls[i]]]

CutIn(calls, k) == {calls[i].id : i \in {j \in 1 .. k : calls[j].truncated}}

FirstMarks(calls, k) == {MarkOf(calls[i]) : i \in 1 .. k}

\* Calls, each with an id of its own as Kiro gives them.
AreCalls(calls) ==
  /\ IsSeq(calls) /\ OwnIds(calls)
  /\ \A i \in 1 .. Len(calls) : IsCall(calls[i]) /\ calls[i].id \in Nat \ {0}

\* A formatter that was given no calls yet.
NoCallsYet(l, f) ==
  /\ Drafted(l, f.out).marks = {} /\ f.truncatedTools = {}
  /\ CallsIn(f) = IF dialect = "anthropic" THEN 0 ELSE <<>>

\* What it keeps of the first k calls.
HasCalls(f, calls, k) ==
  IF dialect = "anthropic" THEN f.toolBlockCount = k
  ELSE /\ IsSeq(f.toolCallsFromStream) /\ Len(f.toolCallsFromStream) = k
       /\ \A i \in 1 .. k : f.toolCallsFromStream[i] = OpenAI!ToolUseToOpenAI(calls[i])

\* g is f after the first k calls.
GivenCalls(l, f, g, calls, k) ==
  LET m == Drafted(l, g.out)
      r == Drafted(l, f.out)
  IN  /\ IsDraft(l, g) /\ g.handling = f.handling /\ g.fullContent = f.fullContent
      /\ m.text = r.text /\ m.thinking = r.thinking /\ m.reason = r.reason
      /\ m.marks = IF dialect = "anthropic" THEN FirstMarks(calls, k) ELSE {}
      /\ g.truncatedTools = CutIn(calls, k) /\ HasCalls(g, calls, k)

LEMMA MoreMarks ==
  ASSUME NEW calls, NEW k \in Nat
  PROVE  /\ FirstMarks(calls, k + 1) = FirstMarks(calls, k) \cup {MarkOf(calls[k + 1])}
         /\ CutIn(calls, k + 1) = Cuts(CutIn(calls, k), calls[k + 1])
         /\ FirstMarks(calls, 0) = {} /\ CutIn(calls, 0) = {}
  <1>1. 1 .. k + 1 = 1 .. k \cup {k + 1} /\ 1 .. 0 = {}
    OBVIOUS
  <1>. DEFINE D == 1 .. k
              more == 1 .. k + 1
              none == 1 .. 0
              c == calls[k + 1]
              at(S) == {j \in S : calls[j].truncated}
  <1>2. more = D \cup {k + 1} /\ none = {} /\ c = calls[k + 1]
    BY <1>1
  <1>. HIDE DEF D, more, none, c
  <1>3. {MarkOf(calls[i]) : i \in more} = {MarkOf(calls[i]) : i \in D} \cup {MarkOf(c)}
    BY <1>2
  <1>4. {calls[i].id : i \in at(more)}
          = IF c.truncated THEN {calls[i].id : i \in at(D)} \cup {c.id} ELSE {calls[i].id : i \in at(D)}
    <2>1. CASE c.truncated
      <3>1. at(more) = at(D) \cup {k + 1}
        BY <1>2, <2>1
      <3>. HIDE DEF at
      <3>2. {calls[i].id : i \in at(more)} = {calls[i].id : i \in at(D)} \cup {c.id}
        BY <1>2, <3>1
      <3>. QED BY <2>1, <3>2
    <2>2. CASE ~c.truncated
      <3>1. at(more) = at(D)
        BY <1>2, <2>2
      <3>. QED BY <2>2, <3>1
    <2>. QED BY <2>1, <2>2
  <1>5. {MarkOf(calls[i]) : i \in none} = {} /\ {calls[i].id : i \in at(none)} = {}
    BY <1>2
  <1>. QED BY <1>3, <1>4, <1>5 DEF FirstMarks, CutIn, Cuts, D, more, none, c

LEMMA AnthropicGiven ==
  ASSUME dialect = "anthropic", NEW l, NEW cursor, NEW f, NEW g, Kept(cursor, g), NEW calls,
         AreCalls(calls), NEW k \in Nat, k + 1 <= Len(calls), Len(calls) \in Nat,
         GivenCalls(l, f, g, calls, k)
  PROVE  GivenCalls(l, f, Anthropic!HandleToolUse(g, calls[k + 1]), calls, k + 1)
  <1>. DEFINE c == calls[k + 1]
              h == Anthropic!HandleToolUse(g, c)
              m == Drafted(l, g.out)
              n == Drafted(l, h.out)
              r == Drafted(l, f.out)
  <1>1. /\ IsDraft(l, g) /\ g.handling = f.handling /\ g.fullContent = f.fullContent
        /\ m.text = r.text /\ m.thinking = r.thinking /\ m.reason = r.reason
        /\ m.marks = FirstMarks(calls, k) /\ g.truncatedTools = CutIn(calls, k)
        /\ g.toolBlockCount = k
    BY DEF GivenCalls, HasCalls
  <1>2. IsCall(c) /\ c.id \notin IdsOf(m.marks)
    <2>1. k + 1 \in 1 .. Len(calls)
      OBVIOUS
    <2>2. \A i \in 1 .. k : i \in 1 .. Len(calls) /\ i # k + 1
      OBVIOUS
    <2>3. \A i \in 1 .. k : calls[i].id # c.id
      BY <2>1, <2>2 DEF AreCalls, OwnIds
    <2>4. \A x \in m.marks : x.id # c.id
      <3>1. \A i \in 1 .. k : MarkOf(calls[i]).id = calls[i].id
        BY DEF MarkOf
      <3>. HIDE DEF c
      <3>. QED BY <1>1, <2>3, <3>1 DEF FirstMarks
    <2>. HIDE DEF m
    <2>. QED BY <2>1, <2>4 DEF AreCalls, IdsOf
  <1>3. /\ IsDraft(l, h) /\ GainsCall(l, g, h, c)
        /\ Alters(g, h, BlockFields \cup {"toolBlockCount", "truncatedTools"})
        /\ h.toolBlockCount = g.toolBlockCount + 1
        /\ h.truncatedTools = Cuts(g.truncatedTools, c)
    <2>. HIDE DEF c
    <2>. QED BY <1>1, <1>2, ToolDrafts
  <1>4. /\ FirstMarks(calls, k + 1) = FirstMarks(calls, k) \cup {MarkOf(c)}
        /\ CutIn(calls, k + 1) = Cuts(CutIn(calls, k), c)
    BY MoreMarks
  <1>. HIDE DEF c, h
  <1>5. /\ n.text = m.text /\ n.thinking = m.thinking /\ n.reason = m.reason
        /\ n.marks = m.marks \cup {MarkOf(c)}
    BY <1>3 DEF GainsCall
  <1>6. h.handling = g.handling /\ h.fullContent = g.fullContent
    BY <1>3 DEF Alters, BlockFields, AnthropicFields
  <1>. HIDE DEF m, n, r
  <1>7. GivenCalls(l, f, h, calls, k + 1)
    BY <1>1, <1>3, <1>4, <1>5, <1>6 DEF GivenCalls, HasCalls, m, n, r
  <1>. QED BY <1>7 DEF h, c

LEMMA OpenAIGiven ==
  ASSUME dialect = "openai", NEW l, NEW cursor, NEW f, NEW g, OpenAIKept(cursor, g), NEW calls,
         NEW k \in Nat, GivenCalls(l, f, g, calls, k), NEW e, e.kind = "tool_use", e.call = calls[k + 1]
  PROVE  GivenCalls(l, f, OpenAI!Handle(g, e), calls, k + 1)
  <1>. DEFINE c == calls[k + 1]
              d == OpenAI!ToolUseToOpenAI(c)
              h == OpenAI!Handle(g, e)
              m == Drafted(l, g.out)
              r == Drafted(l, f.out)
              list == g.toolCallsFromStream
              longer == Append(list, d)
              cut == Cuts(g.truncatedTools, c)
  <1>1. /\ IsDraft(l, g) /\ g.handling = f.handling /\ g.fullContent = f.fullContent
        /\ m.text = r.text /\ m.thinking = r.thinking /\ m.reason = r.reason
        /\ m.marks = {} /\ g.truncatedTools = CutIn(calls, k)
        /\ IsSeq(list) /\ Len(list) = k
        /\ \A i \in 1 .. k : list[i] = OpenAI!ToolUseToOpenAI(calls[i])
    BY DEF GivenCalls, HasCalls
  <1>2. h = [g EXCEPT !.toolCallsFromStream = longer, !.truncatedTools = cut]
    BY DEF OpenAI!Handle, Cuts
  <1>3. CutIn(calls, k + 1) = Cuts(CutIn(calls, k), c)
    BY MoreMarks
  <1>4. /\ IsSeq(longer) /\ Len(longer) = k + 1 /\ longer[k + 1] = d
        /\ \A i \in 1 .. k : longer[i] = list[i]
    <2>. HIDE DEF d, list
    <2>. QED BY <1>1, AppendFacts
  <1>5. \A i \in 1 .. k + 1 : longer[i] = OpenAI!ToolUseToOpenAI(calls[i])
    <2>1. \A i \in 1 .. k + 1 : i \in 1 .. k \/ i = k + 1
      OBVIOUS
    <2>2. d = OpenAI!ToolUseToOpenAI(calls[k + 1])
      OBVIOUS
    <2>. HIDE DEF d, list, longer
    <2>. QED BY <1>1, <1>4, <2>1, <2>2
  <1>. HIDE DEF h, longer, cut
  <1>6. /\ h.out = g.out /\ h.handling = g.handling /\ h.fullContent = g.fullContent
        /\ h.toolCallsFromStream = longer /\ h.truncatedTools = cut
    BY <1>2 DEF OpenAIKept, IsOpenAI, OpenAIFields
  <1>7. IsDraft(l, h)
    BY <1>1, <1>6, SameDraft
  <1>8. Drafted(l, h.out) = m
    BY <1>6
  <1>9. HasCalls(h, calls, k + 1)
    <2>. HIDE DEF c
    <2>. QED BY <1>4, <1>5, <1>6 DEF HasCalls
  <1>10. h.truncatedTools = CutIn(calls, k + 1)
    BY <1>1, <1>3, <1>6 DEF cut
  <1>. HIDE DEF m, r, c
  <1>. QED BY <1>1, <1>6, <1>7, <1>8, <1>9, <1>10 DEF GivenCalls, m, r, h

LEMMA CallsGiven ==
  ASSUME dialect \in Dialects, NEW l, NEW cursor, NEW f, KeptBy(cursor, f), IsDraft(l, f),
         NoCallsYet(l, f), NEW calls, AreCalls(calls)
  PROVE  LET g == HandleAll(f, EventsOf(calls))
         IN  KeptBy(cursor, g) /\ GivenCalls(l, f, g, calls, Len(calls))
  <1>. DEFINE events == EventsOf(calls)
              n == Len(calls)
              g == HandleAll(f, events)
  <1>1. n \in Nat /\ DOMAIN calls = 1 .. n
    BY SeqFacts DEF AreCalls
  <1>2. /\ DOMAIN events = 1 .. n
        /\ \A i \in 1 .. n : events[i].kind = "tool_use" /\ events[i].call = calls[i]
    BY <1>1 DEF EventsOf
  <1>. HIDE DEF events, n
  <1>3. PICK h : HandledStages(h, f, events, n)
    BY <1>1, <1>2, HandledInStages
  <1>4. h[0] = f /\ h[n] = g /\ \A i \in 1 .. n : h[i] = Handle(h[i - 1], events[i])
    BY <1>3 DEF HandledStages, HandleAll
  <1>. HIDE DEF g
  <1>. DEFINE Good(k) == KeptBy(cursor, h[k]) /\ GivenCalls(l, f, h[k], calls, k)
              S == {k \in Nat : k <= n => Good(k)}
  <1>5. 0 \in S
    <2>1. FirstMarks(calls, 0) = {} /\ CutIn(calls, 0) = {}
      BY MoreMarks
    <2>2. HasCalls(f, calls, 0)
      BY ShortSeqs DEF HasCalls, NoCallsYet, CallsIn
    <2>3. GivenCalls(l, f, f, calls, 0)
      BY <2>1, <2>2 DEF GivenCalls, NoCallsYet
    <2>. QED BY <1>4, <2>3
  <1>6. ASSUME NEW k \in Nat, k \in S PROVE k + 1 \in S
    <2>1. CASE k + 1 <= n
      <3>. DEFINE e == events[k + 1]
                  x == h[k]
      <3>1. k + 1 \in 1 .. n /\ (k + 1) - 1 = k /\ Good(k)
        BY <1>1, <1>6, <2>1
      <3>2. h[k + 1] = Handle(x, e) /\ e.kind = "tool_use" /\ e.call = calls[k + 1]
        BY <1>2, <1>4, <3>1
      <3>3. KeptBy(cursor, x) /\ GivenCalls(l, f, x, calls, k)
        BY <3>1
      <3>. HIDE DEF e, x
      <3>4. IsEvent(e)
        BY <3>2 DEF IsEvent, EventKinds
      <3>5. KeptBy(cursor, Handle(x, e))
        BY <3>2, <3>3, <3>4, HandlesEvent
      <3>6. GivenCalls(l, f, Handle(x, e), calls, k + 1)
        <4>1. CASE dialect = "anthropic"
          <5>1. Handle(x, e) = Anthropic!HandleToolUse(x, calls[k + 1]) /\ Kept(cursor, x)
            BY <3>2, <3>3, <4>1 DEF Handle, Anthropic!Handle, KeptBy
          <5>. QED BY <1>1, <2>1, <3>3, <4>1, <5>1, AnthropicGiven DEF n
        <4>2. CASE dialect = "openai"
          <5>1. Handle(x, e) = OpenAI!Handle(x, e) /\ OpenAIKept(cursor, x)
            BY <3>3, <4>2 DEF Handle, KeptBy
          <5>. QED BY <3>2, <3>3, <4>2, <5>1, OpenAIGiven
        <4>. QED BY <4>1, <4>2 DEF Dialects
      <3>. QED BY <3>2, <3>5, <3>6
    <2>. QED BY <2>1
  <1>7. n \in S /\ n <= n
    <2>. HIDE DEF S
    <2>. QED BY <1>1, <1>5, <1>6, Induction
  <1>8. Good(n)
    BY <1>7
  <1>. QED BY <1>4, <1>8 DEF g, n, events

-----------------------------------------------------------------------------
(* The end of a message, with the calls that are written in its text.      *)
LEMMA WrittenAre ==
  ASSUME NEW text, IsSeq(text)
  PROVE  LET b == ParseBracketToolCalls(text)
         IN  /\ IsSeq(b) /\ Len(b) \in Nat /\ DOMAIN b = 1 .. Len(b)
             /\ \A i \in 1 .. Len(b) : IsCall(b[i]) /\ b[i].id = -i /\ ~b[i].truncated
             /\ Len(b) # 0 => \E k \in 1 .. Len(text) : text[k] = "B"
  <1>. DEFINE at == {k \in DOMAIN text : text[k] = "B"}
              n == Cardinality(at)
              b == ParseBracketToolCalls(text)
  <1>1. IsSeq(b) /\ Len(b) \in Nat /\ DOMAIN b = 1 .. Len(b)
    BY WrittenCalls
  <1>2. b = [i \in 1 .. n |-> [id |-> -i, name |-> "f", arguments |-> "short", spelling |-> "spaced",
                               truncated |-> FALSE]]
    BY DEF ParseBracketToolCalls
  <1>3. DOMAIN b = 1 .. n
    <2>. HIDE DEF n
    <2>. QED BY <1>2
  <1>4. \A i \in 1 .. Len(b) : IsCall(b[i]) /\ b[i].id = -i /\ ~b[i].truncated
    <2>1. ASSUME NEW i \in 1 .. Len(b) PROVE IsCall(b[i]) /\ b[i].id = -i /\ ~b[i].truncated
      <3>1. i \in 1 .. n
        <4>. HIDE DEF n, b
        <4>. QED BY <1>1, <1>3
      <3>2. b[i] = [id |-> -i, name |-> "f", arguments |-> "short", spelling |-> "spaced",
                    truncated |-> FALSE]
        <4>. HIDE DEF n
        <4>. QED BY <1>2, <3>1
      <3>. HIDE DEF b
      <3>. QED BY <3>2 DEF IsCall, CallFields
    <2>. QED BY <2>1
  <1>5. Len(b) # 0 => \E k \in 1 .. Len(text) : text[k] = "B"
    <2>1. Len(b) # 0 => \E x : x \in 1 .. n
      <3>. HIDE DEF n, b
      <3>1. Len(b) # 0 => 1 \in 1 .. Len(b)
        BY <1>1
      <3>. QED BY <1>1, <1>3, <3>1
    <2>2. at = {} => n = 0
      <3>. HIDE DEF at
      <3>. QED BY FS_EmptySet
    <2>. HIDE DEF n, b
    <2>3. Len(b) # 0 => at # {}
      BY <2>1, <2>2
    <2>4. DOMAIN text = 1 .. Len(text)
      BY SeqFacts
    <2>. QED BY <2>3, <2>4
  <1>. QED BY <1>1, <1>4, <1>5

\* Calls that a message did not have are added to it.
AddsCalls(l, f, g, calls, k) ==
  LET m == Drafted(l, g.out)
      r == Drafted(l, f.out)
  IN  /\ m.text = r.text /\ m.thinking = r.thinking /\ m.reason = r.reason
      /\ m.marks = r.marks \cup FirstMarks(calls, k)

\* The calls of a list have ids of their own, and none of them is taken.
OtherCalls(calls, ids) ==
  /\ OwnIds(calls) /\ \A i \in 1 .. Len(calls) : IsCall(calls[i]) /\ calls[i].id \notin ids

LEMMA OneOther ==
  ASSUME NEW calls, NEW marks, OtherCalls(calls, IdsOf(marks)), Len(calls) \in Nat, NEW k \in Nat,
         k + 1 <= Len(calls)
  PROVE  /\ IsCall(calls[k + 1])
         /\ calls[k + 1].id \notin IdsOf(marks \cup FirstMarks(calls, k))
  <1>. DEFINE c == calls[k + 1]
  <1>1. k + 1 \in 1 .. Len(calls)
    OBVIOUS
  <1>2. \A i \in 1 .. k : i \in 1 .. Len(calls) /\ i # k + 1
    OBVIOUS
  <1>3. \A i \in 1 .. k : calls[i].id # c.id
    BY <1>1, <1>2 DEF OtherCalls, OwnIds
  <1>4. \A x \in FirstMarks(calls, k) : x.id # c.id
    <2>1. \A i \in 1 .. k : MarkOf(calls[i]).id = calls[i].id
      BY DEF MarkOf
    <2>. HIDE DEF c
    <2>. QED BY <1>3, <2>1 DEF FirstMarks
  <1>5. IsCall(c) /\ c.id \notin IdsOf(marks)
    BY <1>1 DEF OtherCalls
  <1>6. \A x \in marks : x.id # c.id
    BY <1>5 DEF IdsOf
  <1>. HIDE DEF c
  <1>7. c.id \notin IdsOf(marks \cup FirstMarks(calls, k))
    BY <1>4, <1>6 DEF IdsOf
  <1>. QED BY <1>5, <1>7 DEF c

LEMMA BracketsDraft ==
  ASSUME dialect = "anthropic", NEW l, NEW cursor, NEW f, NEW held, Writes(cursor, f, held),
         ~f.thinkingOpen, ~f.textOpen, IsDraft(l, f), NEW calls, DOMAIN calls = 1 .. Len(calls),
         Len(calls) \in Nat, OtherCalls(calls, IdsOf(Drafted(l, f.out).marks))
  PROVE  LET g == Anthropic!FoldLeft(Anthropic!EmitToolUseBlock, f, calls)
         IN  IsDraft(l, g) /\ AddsCalls(l, f, g, calls, Len(calls))
  <1>. DEFINE n == Len(calls)
  <1>. HIDE DEF n
  <1>0. PICK h : CallStages(h, f, calls, n)
    BY CallsInStages DEF n
  <1>1. /\ h[0] = f
        /\ \A i \in 1 .. n : h[i] = Anthropic!EmitToolUseBlock(h[i - 1], calls[i])
        /\ Anthropic!FoldLeft(Anthropic!EmitToolUseBlock, f, calls) = h[n]
    BY <1>0 DEF CallStages
  <1>. DEFINE Good(k) == /\ Writes(cursor, h[k], held) /\ ~h[k].thinkingOpen /\ ~h[k].textOpen
                         /\ IsDraft(l, h[k]) /\ AddsCalls(l, f, h[k], calls, k)
              S == {k \in Nat : k <= n => Good(k)}
  <1>2. 0 \in S
    <2>1. FirstMarks(calls, 0) = {}
      BY MoreMarks
    <2>2. AddsCalls(l, f, f, calls, 0)
      BY <2>1 DEF AddsCalls
    <2>. QED BY <1>1, <2>2
  <1>3. ASSUME NEW k \in Nat, k \in S PROVE k + 1 \in S
    <2>1. CASE k + 1 <= n
      <3>. DEFINE g == h[k]
                  r == h[k + 1]
                  c == calls[k + 1]
                  marks == Drafted(l, f.out).marks
      <3>1. k + 1 \in 1 .. n /\ (k + 1) - 1 = k /\ Good(k)
        BY <1>3, <2>1 DEF n
      <3>2. r = Anthropic!EmitToolUseBlock(g, c)
        BY <1>1, <3>1
      <3>3. /\ Writes(cursor, g, held) /\ ~g.thinkingOpen /\ ~g.textOpen
            /\ IsDraft(l, g) /\ AddsCalls(l, f, g, calls, k)
        BY <3>1
      <3>4. IsCall(c) /\ c.id \notin IdsOf(marks \cup FirstMarks(calls, k))
        <4>. HIDE DEF marks
        <4>1. OtherCalls(calls, IdsOf(marks))
          BY DEF marks
        <4>. QED BY <2>1, <4>1, OneOther DEF n
      <3>. HIDE DEF g, r, c
      <3>5. c.id \notin IdsOf(Drafted(l, g.out).marks)
        BY <3>3, <3>4 DEF AddsCalls
      <3>6. Writes(cursor, r, held) /\ ~r.thinkingOpen /\ ~r.textOpen
        BY <3>2, <3>3, EmitsToolBlock
      <3>7. IsDraft(l, r) /\ GainsCall(l, g, r, c)
        BY <3>2, <3>3, <3>4, <3>5, ToolBlockDrafts DEF Writes
      <3>8. FirstMarks(calls, k + 1) = FirstMarks(calls, k) \cup {MarkOf(c)}
        BY MoreMarks DEF c
      <3>9. AddsCalls(l, f, r, calls, k + 1)
        BY <3>3, <3>7, <3>8 DEF AddsCalls, GainsCall
      <3>. QED BY <3>6, <3>7, <3>9 DEF r
    <2>. QED BY <2>1
  <1>4. n \in S /\ n <= n
    <2>. HIDE DEF S
    <2>. QED BY <1>2, <1>3, Induction DEF n
  <1>5. Good(n)
    BY <1>4
  <1>. QED BY <1>1, <1>5 DEF n

\* The last two events tell the reason alone.
LEMMA EndPosts ==
  ASSUME NEW m, NEW e, e.type \in {"message_delta", "finish"},
         NEW last, last.type \in {"message_stop", "done"}
  PROVE  LET k == Post(Post(m, e), last)
         IN  /\ k.text = m.text /\ k.thinking = m.thinking /\ k.marks = m.marks
             /\ k.flaws = m.flaws /\ k.reason = e.reason
  <1>. DEFINE a == Post(m, e)
              k == Post(a, last)
  <1>1. /\ a.text = m.text /\ a.thinking = m.thinking /\ a.marks = m.marks
        /\ a.flaws = m.flaws /\ a.reason = e.reason
    BY DEF Post, AddsTo, NewMarks, Fits
  <1>2. Alike(a, k)
    <2>. HIDE DEF a
    <2>. QED BY StopPosts
  <1>. HIDE DEF a, k
  <1>3. /\ k.text = m.text /\ k.thinking = m.thinking /\ k.marks = m.marks
        /\ k.flaws = m.flaws /\ k.reason = e.reason
    BY <1>1, <1>2 DEF Alike
  <1>. QED BY <1>3 DEF k, a

IsCut(m) == m.reason \in {"max_tokens", "length"}

\* The fields of a formatter.
FieldsOf == IF dialect = "anthropic" THEN AnthropicFields ELSE OpenAIFields

HasFields(f) == f = [x \in FieldsOf |-> f[x]]

\* g is the formatter f, given the calls of the stream, after the end of its message.
Closes(l, f, g, calls) ==
  LET m == Drafted(l, g.out)
      r == Drafted(l, f.out)
      written == ParseBracketToolCalls(f.fullContent)
  IN  /\ m.flaws = {} /\ m.text = r.text /\ m.thinking = r.thinking
      /\ g.handling = f.handling /\ g.fullContent = f.fullContent
      /\ g.truncatedTools = f.truncatedTools
      /\ MarksIn(calls) \subseteq m.marks /\ m.marks \subseteq MarksIn(calls) \cup MarksIn(written)
      /\ (IsCut(m) <=> ContentWasTruncated(g)) /\ HasFields(g)

\* The ids of the written calls are not those of the stream.
LEMMA WrittenAreOther ==
  ASSUME NEW text, IsSeq(text), NEW calls, AreCalls(calls)
  PROVE  OtherCalls(ParseBracketToolCalls(text), IdsOf(MarksIn(calls)))
  <1>. DEFINE b == ParseBracketToolCalls(text)
  <1>1. /\ Len(b) \in Nat
        /\ \A i \in 1 .. Len(b) : IsCall(b[i]) /\ b[i].id = -i
    BY WrittenAre
  <1>. HIDE DEF b
  <1>2. OwnIds(b)
    <2>1. \A i, j \in 1 .. Len(b) : -i = -j => i = j
      OBVIOUS
    <2>. QED BY <1>1, <2>1 DEF OwnIds
  <1>3. \A id \in IdsOf(MarksIn(calls)) : id \in Nat \ {0}
    <2>1. \A i \in 1 .. Len(calls) : MarkOf(calls[i]).id = calls[i].id
      BY DEF MarkOf
    <2>. QED BY <2>1 DEF IdsOf, MarksIn, AreCalls
  <1>4. \A i \in 1 .. Len(b) : -i \notin Nat \ {0}
    BY <1>1
  <1>5. OtherCalls(b, IdsOf(MarksIn(calls)))
    BY <1>1, <1>2, <1>3, <1>4 DEF OtherCalls
  <1>. QED BY <1>5 DEF b

LEMMA AnthropicCloses ==
  ASSUME dialect = "anthropic", NEW l, NEW cursor, NEW f, Kept(cursor, f), IsDraft(l, f),
         NEW calls, AreCalls(calls), Drafted(l, f.out).marks = MarksIn(calls)
  PROVE  Closes(l, f, Anthropic!Finish(f), calls)
  <1>. DEFINE written == Anthropic!ParseBracketToolCalls(f.fullContent)
              held   == Unless(f.fullContent = <<>>, "text")
              f1     == Anthropic!CloseOpenBlocks(f)
              f2     == IF written = <<>> THEN f
                        ELSE Anthropic!FoldLeft(Anthropic!EmitToolUseBlock, f1, written)
              h      == Anthropic!CloseOpenBlocks(f2)
              reason == Anthropic!StopReason(h)
              e      == Anthropic!MessageDelta(reason)
              last   == Anthropic!MessageStop
              more   == Append(Append(h.out, e), last)
              g      == Anthropic!Finish(f)
              r      == Drafted(l, f.out)
              m      == Drafted(l, g.out)
              n      == Drafted(l, h.out)
  <1>1. g = Anthropic!Emit(Anthropic!Emit(h, e), last)
    BY DEF Anthropic!Finish
  <1>2. /\ Len(written) \in Nat /\ DOMAIN written = 1 .. Len(written)
        /\ written = ParseBracketToolCalls(f.fullContent)
        /\ OtherCalls(written, IdsOf(MarksIn(calls)))
    BY WrittenCalls, WrittenAreOther, SameOperators DEF Kept, Writes, IsAnthropic
  <1>3. /\ e.type = "message_delta" /\ e.reason = reason /\ last.type = "message_stop"
    BY DEF Anthropic!MessageDelta, Anthropic!MessageStop
  <1>. HIDE DEF written, held, g
  <1>4. /\ Writes(cursor, f1, held) /\ Alters(f, f1, BlockFields) /\ ~f1.thinkingOpen /\ ~f1.textOpen
        /\ IsDraft(l, f1) /\ Alike(r, Drafted(l, f1.out))
    BY ClosesBlocks, BlocksClosed DEF Kept, held
  <1>. HIDE DEF f1
  <1>5. /\ Writes(cursor, f2, held) /\ Alters(f, f2, BlockFields \cup {"toolBlockCount"})
        /\ IsDraft(l, f2) /\ AddsCalls(l, f, f2, written, Len(written))
    <2>1. CASE written = <<>>
      <3>1. FirstMarks(written, Len(written)) = {}
        BY <2>1, MoreMarks
      <3>2. f2 = f
        BY <2>1
      <3>. HIDE DEF f2
      <3>. QED BY <3>1, <3>2 DEF Kept, held, Writes, IsAnthropic, Alters, AddsCalls
    <2>2. CASE written # <<>>
      <3>1. f2 = Anthropic!FoldLeft(Anthropic!EmitToolUseBlock, f1, written)
        BY <2>2
      <3>. HIDE DEF f2
      <3>2. Writes(cursor, f2, held) /\ Alters(f1, f2, BlockFields \cup {"toolBlockCount"})
        BY <1>2, <1>4, <3>1, EmitsWrittenCalls
      <3>3. OtherCalls(written, IdsOf(Drafted(l, f1.out).marks))
        BY <1>2, <1>4 DEF Alike
      <3>4. IsDraft(l, f2) /\ AddsCalls(l, f1, f2, written, Len(written))
        BY <1>2, <1>4, <3>1, <3>3, BracketsDraft
      <3>5. AddsCalls(l, f, f2, written, Len(written))
        BY <1>4, <3>4 DEF AddsCalls, Alike
      <3>. QED BY <1>4, <3>2, <3>4, <3>5 DEF Alters
    <2>. QED BY <2>1, <2>2
  <1>. HIDE DEF f2
  <1>6. /\ Writes(cursor, h, held) /\ Alters(f2, h, BlockFields) /\ ~h.thinkingOpen /\ ~h.textOpen
        /\ IsDraft(l, h) /\ Alike(Drafted(l, f2.out), n)
    BY <1>5, ClosesBlocks, BlocksClosed
  <1>7. /\ h.fullContent = f.fullContent /\ h.handling = f.handling
        /\ h.truncatedTools = f.truncatedTools
    BY <1>5, <1>6 DEF Alters, BlockFields, AnthropicFields
  <1>8. reason = IF h.refused THEN "refusal"
                 ELSE IF Anthropic!ContentWasTruncated(h) THEN "max_tokens"
                 ELSE IF h.toolBlockCount > 0 THEN "tool_use" ELSE "end_turn"
    BY DEF Anthropic!StopReason
  <1>9. Anthropic!ContentWasTruncated(h) => ~h.refused
    BY DEF Anthropic!ContentWasTruncated
  <1>. HIDE DEF h, reason, e, last
  <1>10. g = [h EXCEPT !.out = more]
    BY <1>1, <1>6 DEF Anthropic!Emit, Writes, IsAnthropic, AnthropicFields
  <1>11. IsSeq(h.out) /\ n.flaws = {}
    BY <1>6 DEF Writes, IsAnthropic, IsDraft
  <1>12. /\ m.text = n.text /\ m.thinking = n.thinking /\ m.marks = n.marks
         /\ m.flaws = n.flaws /\ m.reason = reason
    <2>1. IsSeq(Append(h.out, e))
      BY <1>11, AppendFacts
    <2>2. g.out = more
      BY <1>10, <1>6 DEF Writes, IsAnthropic, AnthropicFields
    <2>3. m = Post(Post(n, e), last)
      BY <1>11, <2>1, <2>2, DraftedOn
    <2>. HIDE DEF m, n
    <2>. QED BY <1>3, <2>3, EndPosts
  <1>13. /\ g.fullContent = h.fullContent /\ g.handling = h.handling
         /\ g.truncatedTools = h.truncatedTools
         /\ (Anthropic!ContentWasTruncated(g) <=> Anthropic!ContentWasTruncated(h))
    BY <1>6, <1>10 DEF Anthropic!ContentWasTruncated, Writes, IsAnthropic, AnthropicFields
  <1>14. IsCut(m) <=> ContentWasTruncated(g)
    BY <1>8, <1>9, <1>12, <1>13 DEF IsCut, ContentWasTruncated
  <1>15. FirstMarks(written, Len(written)) = MarksIn(written)
    BY DEF FirstMarks, MarksIn
  <1>. HIDE DEF m, n, r, more
  <1>16. m.text = r.text /\ m.thinking = r.thinking /\ m.marks = r.marks \cup MarksIn(written)
    BY <1>5, <1>6, <1>12, <1>15 DEF AddsCalls, Alike, r, n
  <1>17. r.marks = MarksIn(calls)
    BY DEF r
  <1>18. m.flaws = {}
    BY <1>11, <1>12
  <1>19. HasFields(g)
    BY <1>6, <1>10 DEF Writes, IsAnthropic, AnthropicFields, HasFields, FieldsOf
  <1>. QED BY <1>2, <1>7, <1>13, <1>14, <1>16, <1>17, <1>18, <1>19 DEF Closes, m, r, g

\* The calls of the stream are spelled by one function, and their texts differ.
Spelled(calls) ==
  /\ \A i \in 1 .. Len(calls) : "spelling" \in DOMAIN calls[i] /\ calls[i].spelling = "spaced"
  /\ TextsDiffer(calls, Len(calls))

Compact(c) == OpenAI!ToolUseToOpenAI(c)

LEMMA CompactIs ==
  ASSUME NEW c, IsCall(c), "spelling" \in DOMAIN c
  PROVE  LET d == Compact(c)
         IN  /\ IsCall(d) /\ MarkOf(d) = MarkOf(c) /\ d.id = c.id /\ d.name = c.name
             /\ d.arguments = c.arguments /\ d.spelling = "compact"
  BY DEF Compact, OpenAI!ToolUseToOpenAI, IsCall, CallFields, MarkOf

LEMMA CompactDiffer ==
  ASSUME NEW a, IsCall(a), "spelling" \in DOMAIN a, NEW b, IsCall(b), "spelling" \in DOMAIN b,
         a.spelling = b.spelling, ~SameText(a, b)
  PROVE  ~SameText(Compact(a), Compact(b))
  <1>. DEFINE c == Compact(a)
              d == Compact(b)
  <1>1. c.name = a.name /\ c.arguments = a.arguments
    BY CompactIs
  <1>2. d.name = b.name /\ d.arguments = b.arguments
    BY CompactIs
  <1>. HIDE DEF c, d
  <1>3. ~(a.name = b.name /\ a.arguments = b.arguments)
    BY ZenonT(30) DEF SameText
  <1>4. ~SameText(c, d)
    BY <1>1, <1>2, <1>3, ZenonT(30) DEF SameText
  <1>. QED BY <1>4 DEF c, d

\* The calls of the stream as they are kept, and those written in the text after them.
IsAll(all, calls, written) ==
  /\ IsSeq(all) /\ Len(all) = Len(calls) + Len(written)
  /\ Len(calls) \in Nat /\ Len(written) \in Nat
  /\ \A i \in 1 .. Len(calls) : all[i] = Compact(calls[i])
  /\ \A i \in 1 .. Len(written) : all[Len(calls) + i] = written[i]

LEMMA AllAre ==
  ASSUME dialect = "openai", NEW f, NEW calls, AreCalls(calls), HasCalls(f, calls, Len(calls)),
         NEW written, IsSeq(written)
  PROVE  IsAll(f.toolCallsFromStream \o written, calls, written)
  <1>. DEFINE list == f.toolCallsFromStream
              n == Len(calls)
              all == list \o written
  <1>1. IsSeq(list) /\ Len(list) = n
        /\ \A i \in 1 .. n : list[i] = Compact(calls[i])
    BY DEF HasCalls, Compact
  <1>2. n \in Nat /\ Len(written) \in Nat
    BY SeqFacts DEF AreCalls
  <1>. HIDE DEF list, n
  <1>3. /\ IsSeq(all) /\ Len(all) = Len(list) + Len(written)
        /\ \A i \in 1 .. Len(list) : all[i] = list[i]
        /\ \A i \in 1 .. Len(written) : all[Len(list) + i] = written[i]
    <2>1. IsSeq(list)
      BY <1>1
    <2>. QED BY <2>1, ConcatFacts
  <1>. HIDE DEF all
  <1>. QED BY <1>1, <1>2, <1>3 DEF IsAll, n, all, list

LEMMA AllHaveIds ==
  ASSUME NEW calls, AreCalls(calls), Spelled(calls), NEW text, IsSeq(text), NEW all,
         IsAll(all, calls, ParseBracketToolCalls(text))
  PROVE  /\ OwnIds(all) /\ TextsDiffer(all, Len(calls)) /\ Len(calls) \in 0 .. Len(all)
         /\ \A i \in 1 .. Len(all) :
              IsCall(all[i]) /\ MarkOf(all[i]) \in MarksIn(calls) \cup MarksIn(ParseBracketToolCalls(text))
         /\ \A i \in 1 .. Len(calls) : MarkOf(all[i]) = MarkOf(calls[i])
  <1>. DEFINE written == ParseBracketToolCalls(text)
              n == Len(calls)
              w == Len(written)
  <1>1. /\ \A i \in 1 .. w : IsCall(written[i]) /\ written[i].id = -i
    BY WrittenAre
  <1>. HIDE DEF written
  <1>2. /\ n \in Nat /\ w \in Nat /\ Len(all) = n + w
        /\ \A i \in 1 .. n : all[i] = Compact(calls[i])
        /\ \A i \in 1 .. w : all[n + i] = written[i]
    BY DEF IsAll, written
  <1>3. /\ \A i \in 1 .. n : /\ IsCall(calls[i]) /\ "spelling" \in DOMAIN calls[i]
                             /\ calls[i].spelling = "spaced" /\ calls[i].id \in Nat \ {0}
        /\ \A i, j \in 1 .. n : calls[i].id = calls[j].id => i = j
        /\ \A i, j \in 1 .. n : i # j => ~SameText(calls[i], calls[j])
    BY DEF AreCalls, Spelled, OwnIds, TextsDiffer
  <1>. HIDE DEF n, w
  <1>4. \A i \in 1 .. n : /\ IsCall(all[i]) /\ MarkOf(all[i]) = MarkOf(calls[i])
                          /\ all[i].id = calls[i].id /\ all[i].id \in Nat \ {0}
    <2>1. ASSUME NEW i \in 1 .. n
          PROVE  /\ IsCall(all[i]) /\ MarkOf(all[i]) = MarkOf(calls[i])
                 /\ all[i].id = calls[i].id /\ all[i].id \in Nat \ {0}
      <3>. DEFINE c == calls[i]
      <3>1. IsCall(c) /\ "spelling" \in DOMAIN c /\ c.id \in Nat \ {0} /\ all[i] = Compact(c)
        BY <1>2, <1>3
      <3>. HIDE DEF c
      <3>2. IsCall(Compact(c)) /\ MarkOf(Compact(c)) = MarkOf(c) /\ Compact(c).id = c.id
        BY <3>1, CompactIs
      <3>. QED BY <3>1, <3>2 DEF c
    <2>. QED BY <2>1
  <1>5. \A i \in 1 .. n + w : i \in 1 .. n \/ \E k \in 1 .. w : i = n + k
    <2>1. ASSUME NEW i \in 1 .. n + w, i \notin 1 .. n PROVE \E k \in 1 .. w : i = n + k
      <3>1. i - n \in 1 .. w /\ i = n + (i - n)
        BY <1>2, <2>1
      <3>. QED BY <3>1
    <2>. QED BY <2>1
  <1>6. \A k \in 1 .. w : IsCall(all[n + k]) /\ all[n + k].id = -k /\ all[n + k] = written[k]
    BY <1>1, <1>2 DEF w
  <1>7. OwnIds(all)
    <2>1. ASSUME NEW i \in 1 .. n + w, NEW j \in 1 .. n + w, all[i].id = all[j].id PROVE i = j
      <3>1. CASE i \in 1 .. n /\ j \in 1 .. n
        <4>1. calls[i].id = calls[j].id
          BY <1>4, <2>1, <3>1
        <4>. QED BY <1>3, <3>1, <4>1
      <3>2. CASE i \in 1 .. n /\ j \notin 1 .. n
        <4>1. PICK k \in 1 .. w : j = n + k
          BY <1>5, <3>2
        <4>2. all[i].id \in Nat \ {0} /\ all[j].id = -k
          BY <1>4, <1>6, <3>2, <4>1
        <4>. QED BY <2>1, <4>2
      <3>3. CASE i \notin 1 .. n /\ j \in 1 .. n
        <4>1. PICK k \in 1 .. w : i = n + k
          BY <1>5, <3>3
        <4>2. all[j].id \in Nat \ {0} /\ all[i].id = -k
          BY <1>4, <1>6, <3>3, <4>1
        <4>. QED BY <2>1, <4>2
      <3>4. CASE i \notin 1 .. n /\ j \notin 1 .. n
        <4>1. PICK k \in 1 .. w : i = n + k
          BY <1>5, <3>4
        <4>2. PICK q \in 1 .. w : j = n + q
          BY <1>5, <3>4
        <4>3. all[i].id = -k /\ all[j].id = -q
          BY <1>6, <4>1, <4>2
        <4>4. -k = -q
          BY <2>1, <4>3
        <4>5. k = q
          BY <4>4, <1>2
        <4>. QED BY <4>1, <4>2, <4>5
      <3>. QED BY <3>1, <3>2, <3>3, <3>4
    <2>2. Len(all) = n + w
      BY <1>2
    <2>. QED BY <2>1, <2>2 DEF OwnIds
  <1>8. TextsDiffer(all, n)
    <2>1. ASSUME NEW i \in 1 .. n, NEW j \in 1 .. n, i # j PROVE ~SameText(all[i], all[j])
      <3>. DEFINE a == calls[i]
                  b == calls[j]
      <3>1. /\ IsCall(a) /\ "spelling" \in DOMAIN a /\ a.spelling = "spaced" /\ all[i] = Compact(a)
            /\ IsCall(b) /\ "spelling" \in DOMAIN b /\ b.spelling = "spaced" /\ all[j] = Compact(b)
        BY <1>2, <1>3
      <3>2. ~SameText(a, b)
        BY <1>3, <2>1
      <3>. HIDE DEF a, b
      <3>3. a.spelling = b.spelling
        BY <3>1
      <3>4. ~SameText(Compact(a), Compact(b))
        BY <3>1, <3>2, <3>3, CompactDiffer
      <3>. QED BY <3>1, <3>4
    <2>. QED BY <2>1 DEF TextsDiffer
  <1>9. n \in 0 .. Len(all)
    BY <1>2
  <1>10. \A i \in 1 .. Len(all) :
           IsCall(all[i]) /\ MarkOf(all[i]) \in MarksIn(calls) \cup MarksIn(written)
    <2>1. ASSUME NEW i \in 1 .. Len(all)
          PROVE  IsCall(all[i]) /\ MarkOf(all[i]) \in MarksIn(calls) \cup MarksIn(written)
      <3>0. i \in 1 .. n + w
        BY <1>2
      <3>1. CASE i \in 1 .. n
        BY <1>4, <3>1 DEF MarksIn, n
      <3>2. CASE i \notin 1 .. n
        <4>1. PICK k \in 1 .. w : i = n + k
          BY <1>5, <3>0, <3>2
        <4>2. IsCall(all[i]) /\ all[i] = written[k]
          BY <1>6, <4>1
        <4>. QED BY <4>2 DEF MarksIn, w
      <3>. QED BY <3>1, <3>2
    <2>. QED BY <2>1
  <1>11. \A i \in 1 .. n : MarkOf(all[i]) = MarkOf(calls[i])
    BY <1>4
  <1>. HIDE DEF written
  <1>. QED BY <1>7, <1>8, <1>9, <1>10, <1>11 DEF n, written

\* What is left of them: calls with ids of their own, those of the stream among them.
LEMMA LeftAre ==
  ASSUME NEW calls, AreCalls(calls), Spelled(calls), NEW text, IsSeq(text), NEW all,
         IsAll(all, calls, ParseBracketToolCalls(text))
  PROVE  LET left == DeduplicateToolCalls(all)
         IN  /\ IsSeq(left) /\ Distinct(left) /\ MarksIn(calls) \subseteq MarksIn(left)
             /\ MarksIn(left) \subseteq MarksIn(calls) \cup MarksIn(ParseBracketToolCalls(text))
  <1>. DEFINE left == DeduplicateToolCalls(all)
              both == MarksIn(calls) \cup MarksIn(ParseBracketToolCalls(text))
              n == Len(calls)
  <1>1. /\ OwnIds(all) /\ TextsDiffer(all, n) /\ n \in 0 .. Len(all)
        /\ \A i \in 1 .. Len(all) : IsCall(all[i]) /\ MarkOf(all[i]) \in both
        /\ \A i \in 1 .. n : MarkOf(all[i]) = MarkOf(calls[i])
    BY AllHaveIds
  <1>2. IsSeq(all)
    BY DEF IsAll
  <1>. HIDE DEF both, n
  <1>3. /\ IsSeq(left) /\ OwnIds(left)
        /\ \A i \in 1 .. Len(left) : ElementOf(left[i], all, Len(all))
    BY <1>2, Deduplicated
  <1>4. \A j \in 1 .. n : \E i \in 1 .. Len(left) : left[i] = all[j]
    BY <1>1, <1>2, AllLeft
  <1>. HIDE DEF left
  <1>5. \A i \in 1 .. Len(left) : IsCall(left[i]) /\ MarkOf(left[i]) \in both
    BY <1>1, <1>3 DEF ElementOf
  <1>6. MarksIn(calls) \subseteq MarksIn(left)
    <2>1. ASSUME NEW j \in 1 .. n PROVE MarkOf(calls[j]) \in MarksIn(left)
      <3>1. PICK i \in 1 .. Len(left) : left[i] = all[j]
        BY <1>4
      <3>2. MarkOf(left[i]) = MarkOf(calls[j])
        BY <1>1, <3>1
      <3>. QED BY <3>2 DEF MarksIn
    <2>. QED BY <2>1 DEF MarksIn, n
  <1>7. Distinct(left)
    BY <1>3, <1>5 DEF Distinct, OwnIds
  <1>8. MarksIn(left) \subseteq both
    BY <1>5 DEF MarksIn
  <1>. QED BY <1>3, <1>6, <1>7, <1>8 DEF left, both

\* A chunk of calls, when the client has none.
LEMMA ChunkPosts ==
  ASSUME NEW m, m.flaws = {}, m.marks = {}, NEW calls, Distinct(calls),
         NEW e, e.type = "tool_calls", e.calls = calls
  PROVE  LET k == Post(m, e)
         IN  /\ k.text = m.text /\ k.thinking = m.thinking /\ k.flaws = {}
             /\ k.marks = MarksIn(calls)
  <1>1. Fits(m, e) /\ NewMarks(e) = MarksIn(calls)
    BY DEF Fits, NewMarks
  <1>2. ~AddsTo(m, e, "text") /\ ~AddsTo(m, e, "thinking")
    BY DEF AddsTo
  <1>. QED BY <1>1, <1>2 DEF Post

LEMMA OpenAICloses ==
  ASSUME dialect = "openai", NEW l, NEW cursor, NEW f, OpenAIKept(cursor, f), IsDraft(l, f),
         NEW calls, AreCalls(calls), Spelled(calls), HasCalls(f, calls, Len(calls)),
         Drafted(l, f.out).marks = {}
  PROVE  Closes(l, f, OpenAI!Finish(f), calls)
  <1>. DEFINE written == ParseBracketToolCalls(f.fullContent)
              left   == OpenAI!AllToolCalls(f)
              chunk  == OpenAI!ToolCallsChunk(left)
              reason == OpenAI!FinishReason(f)
              e      == OpenAI!FinalChunk(reason)
              last   == OpenAI!Done
              out    == IF left = <<>> THEN f.out ELSE Append(f.out, chunk)
              more   == Append(Append(out, e), last)
              g      == OpenAI!Finish(f)
              r      == Drafted(l, f.out)
              m      == Drafted(l, g.out)
              n      == Drafted(l, out)
  <1>0. IsSeq(f.fullContent) /\ IsSeq(f.out)
    BY DEF OpenAIKept, IsOpenAI
  <1>1. /\ IsSeq(left) /\ Distinct(left) /\ MarksIn(calls) \subseteq MarksIn(left)
        /\ MarksIn(left) \subseteq MarksIn(calls) \cup MarksIn(written)
    <2>. DEFINE text == f.fullContent
                all == f.toolCallsFromStream \o ParseBracketToolCalls(text)
    <2>1. IsSeq(ParseBracketToolCalls(text))
      BY <1>0, WrittenCalls
    <2>2. IsAll(all, calls, ParseBracketToolCalls(text))
      BY <2>1, AllAre
    <2>3. left = DeduplicateToolCalls(all)
      BY SameOperators DEF OpenAI!AllToolCalls
    <2>4. IsSeq(text)
      BY <1>0
    <2>. HIDE DEF all, left, text
    <2>5. /\ IsSeq(left) /\ Distinct(left) /\ MarksIn(calls) \subseteq MarksIn(left)
          /\ MarksIn(left) \subseteq MarksIn(calls) \cup MarksIn(ParseBracketToolCalls(text))
      BY <2>2, <2>3, <2>4, LeftAre
    <2>. QED BY <2>5 DEF text
  <1>2. /\ e.type = "finish" /\ e.reason = reason /\ last.type = "done"
        /\ chunk.type = "tool_calls" /\ chunk.calls = left
    BY DEF OpenAI!FinalChunk, OpenAI!Done, OpenAI!ToolCallsChunk
  <1>3. reason = IF f.refused THEN "content_filter"
                 ELSE IF OpenAI!IsTruncated(f) THEN "length"
                 ELSE IF left # <<>> THEN "tool_calls" ELSE "stop"
    BY DEF OpenAI!FinishReason
  <1>4. OpenAI!IsTruncated(f) => ~f.refused
    BY DEF OpenAI!IsTruncated
  <1>5. g = [f EXCEPT !.contentWasTruncated = OpenAI!IsTruncated(f), !.out = more]
    <2>. DEFINE h == IF left = <<>> THEN f ELSE OpenAI!Emit(f, chunk)
    <2>1. h = [f EXCEPT !.out = out]
      <3>1. CASE left = <<>>
        BY <3>1 DEF OpenAIKept, IsOpenAI, OpenAIFields
      <3>2. CASE left # <<>>
        BY <3>2 DEF OpenAI!Emit
      <3>. QED BY <3>1, <3>2
    <2>2. g = OpenAI!Emit(OpenAI!Emit([h EXCEPT !.contentWasTruncated = OpenAI!IsTruncated(f)], e),
                          last)
      BY DEF OpenAI!Finish
    <2>. HIDE DEF h, out, e, last, g
    <2>. QED BY <2>1, <2>2 DEF OpenAI!Emit, OpenAIKept, IsOpenAI, OpenAIFields
  <1>. HIDE DEF left, chunk, reason, e, last, g
  <1>6. r.flaws = {} /\ r.marks = {}
    BY DEF IsDraft
  <1>7. /\ IsSeq(out) /\ n.text = r.text /\ n.thinking = r.thinking /\ n.flaws = {}
        /\ n.marks = MarksIn(left)
    <2>1. CASE left = <<>>
      <3>1. MarksIn(left) = {}
        BY <2>1 DEF MarksIn
      <3>2. out = f.out
        BY <2>1
      <3>. HIDE DEF out
      <3>. QED BY <1>0, <1>6, <3>1, <3>2
    <2>2. CASE left # <<>>
      <3>1. out = Append(f.out, chunk)
        BY <2>2
      <3>. HIDE DEF out
      <3>2. IsSeq(out) /\ n = Post(r, chunk)
        BY <1>0, <3>1, AppendFacts, DraftedOn
      <3>. HIDE DEF n, r
      <3>. QED BY <1>1, <1>2, <1>6, <3>2, ChunkPosts
    <2>. QED BY <2>1, <2>2
  <1>. HIDE DEF out
  <1>8. /\ g.out = more /\ g.handling = f.handling /\ g.fullContent = f.fullContent
        /\ g.truncatedTools = f.truncatedTools
        /\ g.contentWasTruncated = OpenAI!IsTruncated(f)
    <2>. HIDE DEF more
    <2>. QED BY <1>5 DEF OpenAIKept, IsOpenAI, OpenAIFields
  <1>9. /\ m.text = n.text /\ m.thinking = n.thinking /\ m.marks = n.marks
        /\ m.flaws = n.flaws /\ m.reason = reason
    <2>1. IsSeq(Append(out, e))
      BY <1>7, AppendFacts
    <2>2. m = Post(Post(n, e), last)
      BY <1>7, <1>8, <2>1, DraftedOn
    <2>. HIDE DEF m, n
    <2>. QED BY <1>2, <2>2, EndPosts
  <1>10. IsCut(m) <=> ContentWasTruncated(g)
    <2>1. ContentWasTruncated(g) <=> g.contentWasTruncated
      BY DEF ContentWasTruncated, OpenAI!ContentWasTruncated
    <2>2. reason \in {"max_tokens", "length"} <=> OpenAI!IsTruncated(f)
      BY <1>3, <1>4
    <2>. HIDE DEF m
    <2>. QED BY <1>8, <1>9, <2>1, <2>2 DEF IsCut
  <1>. HIDE DEF m, n, r, more, written
  <1>11. HasFields(g)
    BY <1>5 DEF OpenAIKept, IsOpenAI, OpenAIFields, HasFields, FieldsOf
  <1>12. /\ m.text = r.text /\ m.thinking = r.thinking /\ m.flaws = {}
         /\ MarksIn(calls) \subseteq m.marks /\ m.marks \subseteq MarksIn(calls) \cup MarksIn(written)
    BY <1>1, <1>7, <1>9
  <1>. QED BY <1>8, <1>10, <1>11, <1>12 DEF Closes, m, r, g, written

\* The end of a message that was given its calls, in either dialect.
LEMMA MessageCloses ==
  ASSUME dialect \in Dialects, NEW l, NEW cursor, NEW f, KeptBy(cursor, f), NEW before,
         NEW calls, AreCalls(calls), Spelled(calls), GivenCalls(l, before, f, calls, Len(calls))
  PROVE  Closes(l, f, FormatterFinish(f), calls)
  <1>1. IsDraft(l, f) /\ HasCalls(f, calls, Len(calls))
    BY DEF GivenCalls
  <1>2. CASE dialect = "anthropic"
    <2>1. Kept(cursor, f)
      BY <1>2 DEF KeptBy
    <2>2. Drafted(l, f.out).marks = MarksIn(calls)
      BY <1>2 DEF GivenCalls, FirstMarks, MarksIn
    <2>3. FormatterFinish(f) = Anthropic!Finish(f)
      BY <1>2 DEF FormatterFinish
    <2>. QED BY <1>1, <1>2, <2>1, <2>2, <2>3, AnthropicCloses
  <1>3. CASE dialect = "openai"
    <2>1. OpenAIKept(cursor, f)
      BY <1>3 DEF KeptBy
    <2>2. Drafted(l, f.out).marks = {}
      BY <1>3 DEF GivenCalls
    <2>3. FormatterFinish(f) = OpenAI!Finish(f)
      BY <1>3 DEF FormatterFinish
    <2>. QED BY <1>1, <1>3, <2>1, <2>2, <2>3, OpenAICloses
  <1>. QED BY <1>2, <1>3 DEF Dialects

-----------------------------------------------------------------------------
(* The calls that the pipeline gives when the stream has ended.            *)
Identified(begun) == \A item \in begun : item.id \in Nat \ {0}

\* The call of an item, or one of the same name as a call with its id.
Stood(item, x, begun) ==
  \E twin, other \in begun : twin.id = item.id /\ twin.name = x.name /\ other.id = x.id

\* Calls that Kiro began, and all of them.
FromBegun(calls, begun) ==
  /\ AreCalls(calls) /\ Spelled(calls)
  /\ \A i \in 1 .. Len(calls) : CameWith(calls[i], begun)
  /\ \A item \in begun : \E i \in 1 .. Len(calls) : Stood(item, calls[i], begun)

LEMMA CallsAtEnd ==
  ASSUME NEW p, IsParser(p), NEW begun, CallsRead(p, begun), Identified(begun)
  PROVE  FromBegun(ParserFinish(p), begun)
  <1>. DEFINE q == FinalizeToolCall(p)
              all == q.toolCalls
              calls == DeduplicateToolCalls(all)
  <1>1. CallsRead(q, begun) /\ IsParser(q) /\ q.currentToolCall = <<>>
    BY FinalizeReads
  <1>2. ParserFinish(p) = calls
    BY DEF ParserFinish
  <1>. HIDE DEF q
  <1>3. /\ IsSeq(all) /\ \A i \in 1 .. Len(all) : IsBegun(all[i], begun)
        /\ \A item \in begun : \E i \in 1 .. Len(all) : all[i].id = item.id
    <2>1. \A y : q.currentToolCall # <<y>>
      BY <1>1
    <2>. QED BY <1>1, <2>1 DEF CallsRead, Assembled, IsParser
  <1>. HIDE DEF all
  <1>4. /\ IsSeq(calls) /\ OwnIds(calls) /\ TextsDiffer(calls, Len(calls))
        /\ \A i \in 1 .. Len(calls) : ElementOf(calls[i], all, Len(all))
        /\ \A j \in 1 .. Len(all) : \E i \in 1 .. Len(calls), k \in 1 .. Len(all) :
             all[k].id = all[j].id /\ all[k].name = calls[i].name
    BY <1>3, Deduplicated
  <1>. HIDE DEF calls
  <1>5. ASSUME NEW i \in 1 .. Len(calls) PROVE IsBegun(calls[i], begun)
    BY <1>3, <1>4 DEF ElementOf
  <1>6. AreCalls(calls)
    <2>1. ASSUME NEW i \in 1 .. Len(calls) PROVE IsCall(calls[i]) /\ calls[i].id \in Nat \ {0}
      BY <1>5 DEF IsBegun, CameWith, Identified
    <2>. QED BY <1>4, <2>1 DEF AreCalls
  <1>7. Spelled(calls)
    BY <1>4, <1>5 DEF Spelled, IsBegun
  <1>8. ASSUME NEW item \in begun PROVE \E i \in 1 .. Len(calls) : Stood(item, calls[i], begun)
    <2>1. PICK j \in 1 .. Len(all) : all[j].id = item.id
      BY <1>3
    <2>2. PICK i \in 1 .. Len(calls), k \in 1 .. Len(all) :
            all[k].id = all[j].id /\ all[k].name = calls[i].name
      BY <1>4
    <2>3. PICK twin \in begun : twin.id = all[k].id /\ twin.name = all[k].name
      BY <1>3 DEF IsBegun, CameWith
    <2>4. PICK other \in begun : other.id = calls[i].id
      BY <1>5 DEF IsBegun, CameWith
    <2>5. Stood(item, calls[i], begun)
      BY <2>1, <2>2, <2>3, <2>4 DEF Stood
    <2>. QED BY <2>5
  <1>9. FromBegun(calls, begun)
    BY <1>5, <1>6, <1>7, <1>8 DEF FromBegun, IsBegun
  <1>. QED BY <1>2, <1>9

CutMarks(marks) == {k.id : k \in {j \in marks : j.truncated}}

\* What the client is told of the calls that Kiro began.
CallsTold(marks, begun, sent) ==
  /\ \A item \in begun : \E k \in marks : Stood(item, k, begun)
  /\ \A k \in marks : k.id > 0 => \E item \in begun : item.id = k.id
  /\ (\E k \in marks : k.id < 0) => "B" \in Range(sent)

\* The calls of the stream, and no others but those written in the text.
HoldsCalls(marks, calls, text) ==
  MarksIn(calls) \subseteq marks /\ marks \subseteq MarksIn(calls) \cup MarksIn(ParseBracketToolCalls(text))

LEMMA WrittenMarks ==
  ASSUME NEW text, IsSeq(text), NEW sent, IsSeq(sent), Within(text, sent),
         NEW k \in MarksIn(ParseBracketToolCalls(text))
  PROVE  k.id \in Int /\ k.id < 0 /\ ~k.truncated /\ "B" \in Range(sent)
  <1>. DEFINE written == ParseBracketToolCalls(text)
  <1>1. /\ Len(written) \in Nat
        /\ \A i \in 1 .. Len(written) : written[i].id = -i /\ ~written[i].truncated
        /\ Len(written) # 0 => \E j \in 1 .. Len(text) : text[j] = "B"
    BY WrittenAre
  <1>. HIDE DEF written
  <1>2. PICK i \in 1 .. Len(written) : k = MarkOf(written[i])
    BY DEF MarksIn, written
  <1>3. k.id = -i /\ ~k.truncated /\ i \in Nat /\ i > 0
    BY <1>1, <1>2 DEF MarkOf
  <1>4. k.id \in Int /\ k.id < 0 /\ Len(written) # 0
    BY <1>1, <1>2, <1>3
  <1>5. PICK j \in 1 .. Len(text) : text[j] = "B"
    BY <1>1, <1>4
  <1>6. PICK n \in 1 .. Len(sent) : text[j] = sent[n]
    BY DEF Within
  <1>7. DOMAIN sent = 1 .. Len(sent)
    BY SeqFacts
  <1>8. "B" \in Range(sent)
    BY <1>5, <1>6, <1>7 DEF Range
  <1>. QED BY <1>3, <1>4, <1>8

LEMMA CallsAreTold ==
  ASSUME NEW calls, NEW begun, FromBegun(calls, begun), NEW text, IsSeq(text), NEW sent, IsSeq(sent),
         Within(text, sent), NEW marks, HoldsCalls(marks, calls, text)
  PROVE  CallsTold(marks, begun, sent) /\ CutMarks(marks) = CutIn(calls, Len(calls))
  <1>. DEFINE written == MarksIn(ParseBracketToolCalls(text))
  <1>1. ASSUME NEW k \in written PROVE k.id \in Int /\ k.id < 0 /\ ~k.truncated /\ "B" \in Range(sent)
    BY WrittenMarks
  <1>2. /\ MarksIn(calls) \subseteq marks /\ marks \subseteq MarksIn(calls) \cup written
    BY DEF HoldsCalls
  <1>. HIDE DEF written
  <1>3. ASSUME NEW k \in MarksIn(calls)
        PROVE  \E i \in 1 .. Len(calls) : k = MarkOf(calls[i])
    BY DEF MarksIn
  <1>4. ASSUME NEW i \in 1 .. Len(calls)
        PROVE  /\ MarkOf(calls[i]) \in marks
               /\ MarkOf(calls[i]).id = calls[i].id /\ MarkOf(calls[i]).name = calls[i].name
               /\ (MarkOf(calls[i]).truncated <=> calls[i].truncated)
               /\ calls[i].id \in Nat \ {0} /\ CameWith(calls[i], begun)
    BY <1>2 DEF MarksIn, MarkOf, FromBegun, AreCalls
  <1>5. ASSUME NEW item \in begun PROVE \E k \in marks : Stood(item, k, begun)
    <2>1. PICK i \in 1 .. Len(calls) : Stood(item, calls[i], begun)
      BY DEF FromBegun
    <2>2. Stood(item, MarkOf(calls[i]), begun)
      BY <1>4, <2>1 DEF Stood
    <2>. QED BY <1>4, <2>2
  <1>6. ASSUME NEW k \in marks, k.id > 0 PROVE \E item \in begun : item.id = k.id
    <2>1. k \notin written
      <3>1. ASSUME k \in written PROVE FALSE
        <4>. DEFINE x == k.id
        <4>1. x \in Int /\ x < 0 /\ x > 0
          BY <1>1, <1>6, <3>1
        <4>. HIDE DEF x
        <4>. QED BY <4>1
      <3>. QED BY <3>1
    <2>2. PICK i \in 1 .. Len(calls) : k = MarkOf(calls[i])
      BY <1>2, <1>3, <2>1
    <2>. QED BY <1>4, <2>2 DEF CameWith
  <1>7. ASSUME NEW k \in marks, k.id < 0 PROVE "B" \in Range(sent)
    <2>1. CASE k \in written
      BY <1>1, <2>1
    <2>2. CASE k \in MarksIn(calls)
      <3>1. PICK i \in 1 .. Len(calls) : k = MarkOf(calls[i])
        BY <1>3, <2>2
      <3>2. k.id \in Nat
        BY <1>4, <3>1
      <3>. QED BY <1>7, <3>2
    <2>. QED BY <1>2, <2>1, <2>2
  <1>8. CallsTold(marks, begun, sent)
    BY <1>5, <1>6, <1>7 DEF CallsTold
  <1>9. ASSUME NEW x PROVE x \in CutMarks(marks) <=> x \in CutIn(calls, Len(calls))
    <2>1. ASSUME x \in CutMarks(marks) PROVE x \in CutIn(calls, Len(calls))
      <3>1. PICK k \in marks : k.truncated /\ x = k.id
        BY <2>1 DEF CutMarks
      <3>2. PICK i \in 1 .. Len(calls) : k = MarkOf(calls[i])
        BY <1>1, <1>2, <1>3, <3>1
      <3>. QED BY <1>4, <3>1, <3>2 DEF CutIn
    <2>2. ASSUME x \in CutIn(calls, Len(calls)) PROVE x \in CutMarks(marks)
      <3>1. PICK i \in 1 .. Len(calls) : calls[i].truncated /\ x = calls[i].id
        BY <2>2 DEF CutIn
      <3>. QED BY <1>4, <3>1 DEF CutMarks
    <2>. QED BY <2>1, <2>2
  <1>. QED BY <1>8, <1>9

-----------------------------------------------------------------------------
(* A reply under way, and one whose message has come to its end.           *)
ModeOf(handling) ==
  IF handling = "as_reasoning_content" THEN "AsReasoningContent"
  ELSE IF dialect = "anthropic" THEN "Strip" ELSE "AsContent"

\* What f has told, and has to write for r, is this thinking and the content it has seen.
Drafts(r, f, thinking, handling, out) ==
  /\ f.handling = ModeOf(handling) /\ IsDraft(LedgerOf(r), f) /\ NoCallsYet(LedgerOf(r), f)
  /\ IsSeq(thinking) /\ Shows(LedgerOf(r), f, thinking, out)

\* The same, with the calls of the stream and the end of the message.
Concludes(r, f, thinking, handling, out, begun, sent) ==
  LET m == Drafted(LedgerOf(r), f.out)
  IN  /\ HasFields(f) /\ f.handling = ModeOf(handling) /\ m.flaws = {}
      /\ Shows(LedgerOf(r), f, thinking, out) /\ CallsTold(m.marks, begun, sent)
      /\ (IsCut(m) <=> ContentWasTruncated(f)) /\ f.truncatedTools = CutMarks(m.marks)

LEMMA DraftsTracked ==
  ASSUME dialect \in Dialects, NEW r, NEW f, NEW thinking, NEW handling, NEW out,
         Drafts(r, f, thinking, handling, out), NEW c, KeptBy(c, f)
  PROVE  Tracked(LedgerOf(r), c, f, thinking, out)
  <1>1. ModeOf(handling) \in FormatterModes
    BY DEF ModeOf, FormatterModes, Dialects
  <1>. QED BY <1>1 DEF Drafts, Tracked

\* What leaves the calls alone goes on with the draft.
LEMMA DraftsGoOn ==
  ASSUME NEW r, NEW f, NEW thinking, NEW handling, NEW out, Drafts(r, f, thinking, handling, out),
         NEW g, NEW c, NEW more, Tracked(LedgerOf(r), c, g, more, out), SameCalls(LedgerOf(r), f, g)
  PROVE  Drafts(r, g, more, handling, out)
  <1>. DEFINE l == LedgerOf(r)
  <1>. HIDE DEF l
  <1>1. NoCallsYet(l, g)
    BY DEF Drafts, NoCallsYet, SameCalls, l
  <1>2. g.handling = ModeOf(handling)
    BY DEF Drafts, SameCalls
  <1>. QED BY <1>1, <1>2 DEF Drafts, Tracked, l

TextsTold(r, c, f, thinking, handling, out, t, x) ==
  LET g == HandleAll(f, TextEvent("thinking", t) \o TextEvent("content", x))
  IN  /\ Drafts(r, g, thinking \o t, handling, out) /\ KeptBy(c, g)
      /\ g.fullContent = f.fullContent \o x

\* The texts of a piece of content.
LEMMA TextsGoOn ==
  ASSUME dialect \in Dialects, NEW r, NEW f, NEW thinking, NEW handling, NEW out,
         Drafts(r, f, thinking, handling, out), NEW c, KeptBy(c, f),
         NEW t, IsSeq(t), NEW x, IsSeq(x), t # <<>> => ~TextOpen(f) /\ f.fullContent = <<>>
  PROVE  TextsTold(r, c, f, thinking, handling, out, t, x)
  <1>. DEFINE l == LedgerOf(r)
              g == HandleAll(f, TextEvent("thinking", t) \o TextEvent("content", x))
              more == thinking \o t
  <1>1. Tracked(l, c, f, thinking, out)
    BY DraftsTracked
  <1>2. Tracked(l, c, g, more, out) /\ SameCalls(l, f, g) /\ g.fullContent = f.fullContent \o x
    BY <1>1, BothTold
  <1>. HIDE DEF g, more
  <1>3. Drafts(r, g, more, handling, out)
    BY <1>2, DraftsGoOn
  <1>4. KeptBy(c, g)
    BY <1>2 DEF Tracked
  <1>. QED BY <1>2, <1>3, <1>4 DEF TextsTold, g, more

\* An object that is neither text nor part of a call.
LEMMA OtherGoesOn ==
  ASSUME dialect \in Dialects, NEW r, NEW f, NEW thinking, NEW handling, NEW out,
         Drafts(r, f, thinking, handling, out), NEW c, KeptBy(c, f), NEW all, out \subseteq all,
         NEW e, IsEvent(e), e.kind \notin {"tool_use", "thinking", "content"},
         e.kind = "native_thinking" => IsNative(all, e.text)
  PROVE  LET g == HandleAll(f, <<e>>)
         IN  Drafts(r, g, thinking, handling, all) /\ g.fullContent = f.fullContent
  <1>. DEFINE l == LedgerOf(r)
              g == HandleAll(f, <<e>>)
  <1>1. Tracked(l, c, f, thinking, out)
    BY DraftsTracked
  <1>2. Shows(l, f, thinking, all)
    <2>1. IsSeq(f.fullContent)
      BY KeptContent
    <2>. QED BY <2>1, ShownStill DEF Drafts
  <1>3. Tracked(l, c, f, thinking, all) /\ Drafts(r, f, thinking, handling, all)
    BY <1>1, <1>2 DEF Tracked, Drafts
  <1>4. InOrder(f, e, all)
    BY DEF InOrder
  <1>5. g = Handle(f, e)
    BY HandlesOne
  <1>. HIDE DEF g
  <1>6. ThinkingAfter(thinking, e) = thinking /\ ContentAfter(f, e) = f.fullContent
    BY DEF ThinkingAfter, ContentAfter
  <1>7. Tracked(l, c, g, thinking, all) /\ SameCalls(l, f, g) /\ g.fullContent = f.fullContent
    BY <1>3, <1>4, <1>5, <1>6, OneTold
  <1>8. Drafts(r, g, thinking, handling, all)
    BY <1>3, <1>7, DraftsGoOn
  <1>. QED BY <1>7, <1>8 DEF g

\* The calls of the stream and the end of the message.
LEMMA DraftEnds ==
  ASSUME dialect \in Dialects, NEW r, NEW f, NEW thinking, NEW handling, NEW out,
         Drafts(r, f, thinking, handling, out), NEW c, KeptBy(c, f),
         NEW calls, NEW begun, FromBegun(calls, begun), NEW sent, IsSeq(sent),
         f.fullContent \in ContentsOf(sent)
  PROVE  LET g == FormatterFinish(HandleAll(f, EventsOf(calls)))
         IN  Concludes(r, g, thinking, handling, out, begun, sent) /\ g.fullContent = f.fullContent
  <1>. DEFINE l == LedgerOf(r)
              h == HandleAll(f, EventsOf(calls))
              g == FormatterFinish(h)
              m == Drafted(l, g.out)
              k == Drafted(l, h.out)
              n == Drafted(l, f.out)
  <1>. HIDE DEF l
  <1>1. AreCalls(calls) /\ Spelled(calls)
    BY DEF FromBegun
  <1>2. IsDraft(l, f) /\ NoCallsYet(l, f) /\ Shows(l, f, thinking, out) /\ f.handling = ModeOf(handling)
    BY DEF Drafts, l
  <1>3. KeptBy(c, h) /\ GivenCalls(l, f, h, calls, Len(calls))
    BY <1>1, <1>2, CallsGiven
  <1>. HIDE DEF h
  <1>4. Closes(l, h, g, calls)
    BY <1>1, <1>3, MessageCloses
  <1>. HIDE DEF g
  <1>5. /\ h.handling = f.handling /\ h.fullContent = f.fullContent
        /\ k.text = n.text /\ k.thinking = n.thinking /\ h.truncatedTools = CutIn(calls, Len(calls))
    BY <1>3 DEF GivenCalls
  <1>6. /\ m.flaws = {} /\ m.text = k.text /\ m.thinking = k.thinking
        /\ g.handling = h.handling /\ g.fullContent = h.fullContent
        /\ g.truncatedTools = h.truncatedTools
        /\ HoldsCalls(m.marks, calls, h.fullContent)
        /\ (IsCut(m) <=> ContentWasTruncated(g)) /\ HasFields(g)
    BY <1>4 DEF Closes, HoldsCalls
  <1>7. Shows(l, g, thinking, out)
    <2>. HIDE DEF m, k, n
    <2>1. Drafted(l, g.out) = m /\ Drafted(l, f.out) = n
      BY DEF m, n
    <2>. QED BY <1>2, <1>5, <1>6, <2>1 DEF Shows
  <1>8. IsSeq(f.fullContent) /\ Within(f.fullContent, sent)
    BY ContentIsSent
  <1>. HIDE DEF m, k, n
  <1>9. CallsTold(m.marks, begun, sent) /\ CutMarks(m.marks) = CutIn(calls, Len(calls))
    BY <1>5, <1>6, <1>8, CallsAreTold
  <1>10. Concludes(r, g, thinking, handling, out, begun, sent)
    BY <1>2, <1>5, <1>6, <1>7, <1>9 DEF Concludes, m, l
  <1>11. g.fullContent = f.fullContent
    BY <1>5, <1>6
  <1>. QED BY <1>10, <1>11 DEF g, h

\* g is f, with an event less to write.
LEMMA SentFields ==
  ASSUME dialect \in Dialects, NEW f, HasFields(f)
  PROVE  LET g == Sent(f)
         IN  /\ HasFields(g) /\ g.out = Tail(f.out) /\ g.handling = f.handling
             /\ g.fullContent = f.fullContent /\ g.truncatedTools = f.truncatedTools
             /\ CallsIn(g) = CallsIn(f) /\ (ContentWasTruncated(g) <=> ContentWasTruncated(f))
             /\ dialect = "anthropic" => g.thinkingOpen = f.thinkingOpen /\ g.textOpen = f.textOpen
  <1>. DEFINE g == Sent(f)
              out == Tail(f.out)
  <1>1. g = [f EXCEPT !.out = out]
    BY DEF Sent
  <1>. HIDE DEF g, out
  <1>2. CASE dialect = "anthropic"
    <2>1. f = [x \in AnthropicFields |-> f[x]]
      BY <1>2 DEF HasFields, FieldsOf
    <2>2. /\ g = [x \in AnthropicFields |-> g[x]] /\ g.out = out
          /\ \A x \in AnthropicFields \ {"out"} : g[x] = f[x]
      BY <1>1, <2>1 DEF AnthropicFields
    <2>3. /\ g.handling = f.handling
          /\ g.fullContent = f.fullContent /\ g.truncatedTools = f.truncatedTools
          /\ g.toolBlockCount = f.toolBlockCount /\ g.refused = f.refused
          /\ g.receivedContextUsage = f.receivedContextUsage
          /\ g.thinkingOpen = f.thinkingOpen /\ g.textOpen = f.textOpen
      BY <2>2 DEF AnthropicFields
    <2>4. Anthropic!ContentWasTruncated(g) <=> Anthropic!ContentWasTruncated(f)
      BY <2>3 DEF Anthropic!ContentWasTruncated
    <2>5. HasFields(g)
      BY <1>2, <2>2 DEF HasFields, FieldsOf
    <2>. QED BY <1>2, <2>2, <2>3, <2>4, <2>5 DEF CallsIn, ContentWasTruncated, g, out
  <1>3. CASE dialect = "openai"
    <2>1. f = [x \in OpenAIFields |-> f[x]]
      BY <1>3 DEF HasFields, FieldsOf
    <2>2. /\ g = [x \in OpenAIFields |-> g[x]] /\ g.out = out
          /\ \A x \in OpenAIFields \ {"out"} : g[x] = f[x]
      BY <1>1, <2>1 DEF OpenAIFields
    <2>3. /\ g.handling = f.handling
          /\ g.fullContent = f.fullContent /\ g.truncatedTools = f.truncatedTools
          /\ g.toolCallsFromStream = f.toolCallsFromStream
          /\ g.contentWasTruncated = f.contentWasTruncated
      BY <2>2 DEF OpenAIFields
    <2>4. OpenAI!ContentWasTruncated(g) <=> OpenAI!ContentWasTruncated(f)
      BY <2>3 DEF OpenAI!ContentWasTruncated
    <2>5. HasFields(g)
      BY <1>3, <2>2 DEF HasFields, FieldsOf
    <2>. QED BY <1>3, <2>2, <2>3, <2>4, <2>5 DEF CallsIn, ContentWasTruncated, g, out
  <1>. QED BY <1>2, <1>3 DEF Dialects

LEMMA KeptFields ==
  ASSUME dialect \in Dialects, NEW c, NEW f, KeptBy(c, f)
  PROVE  HasFields(f)
  BY DEF KeptBy, Kept, Writes, IsAnthropic, OpenAIKept, IsOpenAI, HasFields, FieldsOf, Dialects

\* What a ledger and the formatter tell is told by another one and what is left to write.
SameTold(l, f, k, g) ==
  /\ Drafted(k, g.out) = Drafted(l, f.out) /\ HasFields(g) /\ g.handling = f.handling
  /\ g.fullContent = f.fullContent /\ g.truncatedTools = f.truncatedTools
  /\ CallsIn(g) = CallsIn(f) /\ (ContentWasTruncated(g) <=> ContentWasTruncated(f))
  /\ dialect = "anthropic" => g.thinkingOpen = f.thinkingOpen /\ g.textOpen = f.textOpen

LEMMA WriteTells ==
  ASSUME dialect \in Dialects, NEW r, IsReply(r), NEW c, Stands(r, c), NEW f, HasFields(f),
         IsSeq(f.out), f.out # <<>>, NEW d, Moves(c, Head(f.out), d),
         Drafted(LedgerOf(r), f.out).flaws = {}
  PROVE  SameTold(LedgerOf(r), f, LedgerOf(Collect(r, Head(f.out))), Sent(f))
  <1>. DEFINE l == LedgerOf(r)
              k == LedgerOf(Collect(r, Head(f.out)))
              g == Sent(f)
  <1>1. Drafted(k, Tail(f.out)) = Drafted(l, f.out)
    BY DraftWritten
  <1>2. /\ HasFields(g) /\ g.out = Tail(f.out) /\ g.handling = f.handling
        /\ g.fullContent = f.fullContent /\ g.truncatedTools = f.truncatedTools
        /\ CallsIn(g) = CallsIn(f) /\ (ContentWasTruncated(g) <=> ContentWasTruncated(f))
        /\ dialect = "anthropic" => g.thinkingOpen = f.thinkingOpen /\ g.textOpen = f.textOpen
    BY SentFields
  <1>. HIDE DEF k, l, g
  <1>3. SameTold(l, f, k, g)
    BY <1>1, <1>2 DEF SameTold
  <1>. QED BY <1>3 DEF k, l, g

LEMMA ToldDrafts ==
  ASSUME NEW r, NEW f, NEW thinking, NEW handling, NEW out, Drafts(r, f, thinking, handling, out),
         NEW s, NEW g, SameTold(LedgerOf(r), f, LedgerOf(s), g)
  PROVE  Drafts(s, g, thinking, handling, out)
  <1>. DEFINE l == LedgerOf(r)
              k == LedgerOf(s)
              m == Drafted(l, f.out)
              n == Drafted(k, g.out)
  <1>1. IsDraft(l, f) /\ NoCallsYet(l, f) /\ Shows(l, f, thinking, out) /\ IsSeq(thinking)
    BY DEF Drafts
  <1>2. g.handling = ModeOf(handling)
    BY DEF Drafts, SameTold
  <1>. HIDE DEF l, k
  <1>3. SameTold(l, f, k, g)
    BY DEF l, k
  <1>4. n = m
    BY <1>3 DEF SameTold
  <1>5. IsDraft(k, g)
    BY <1>1, <1>3, <1>4 DEF IsDraft, SameTold
  <1>6. NoCallsYet(k, g)
    BY <1>1, <1>3, <1>4 DEF NoCallsYet, SameTold
  <1>7. Shows(k, g, thinking, out)
    BY <1>1, <1>3, <1>4 DEF Shows, SameTold
  <1>. QED BY <1>1, <1>2, <1>5, <1>6, <1>7 DEF Drafts, k

LEMMA ToldConcludes ==
  ASSUME NEW r, NEW f, NEW thinking, NEW handling, NEW out, NEW begun, NEW sent,
         Concludes(r, f, thinking, handling, out, begun, sent),
         NEW s, NEW g, SameTold(LedgerOf(r), f, LedgerOf(s), g)
  PROVE  Concludes(s, g, thinking, handling, out, begun, sent)
  <1>. DEFINE l == LedgerOf(r)
              k == LedgerOf(s)
              m == Drafted(l, f.out)
              n == Drafted(k, g.out)
  <1>. HIDE DEF l, k
  <1>1. /\ f.handling = ModeOf(handling) /\ m.flaws = {}
        /\ Shows(l, f, thinking, out) /\ CallsTold(m.marks, begun, sent)
        /\ (IsCut(m) <=> ContentWasTruncated(f)) /\ f.truncatedTools = CutMarks(m.marks)
    BY DEF Concludes, l
  <1>2. SameTold(l, f, k, g)
    BY DEF l, k
  <1>3. n = m
    BY <1>2 DEF SameTold
  <1>4. Shows(k, g, thinking, out)
    BY <1>1, <1>2, <1>3 DEF Shows, SameTold
  <1>5. /\ HasFields(g) /\ g.handling = ModeOf(handling) /\ n.flaws = {}
        /\ CallsTold(n.marks, begun, sent)
        /\ (IsCut(n) <=> ContentWasTruncated(g)) /\ g.truncatedTools = CutMarks(n.marks)
    <2>. HIDE DEF m, n
    <2>. QED BY <1>1, <1>2, <1>3 DEF SameTold
  <1>. QED BY <1>4, <1>5 DEF Concludes, k

\* A reply of which all that is told is the same, its pings for one.
LEMMA SameLedger ==
  ASSUME NEW r, NEW s, s.blocks = r.blocks, s.reason = r.reason
  PROVE  LedgerOf(s) = LedgerOf(r)
  <1>1. \A kind : TextOf(s, kind) = TextOf(r, kind)
    BY DEF TextOf
  <1>2. MarksOf(s) = MarksOf(r) /\ (Sound(s) <=> Sound(r))
    BY DEF MarksOf, CallsOf, Sound
  <1>. QED BY <1>1, <1>2 DEF LedgerOf

-----------------------------------------------------------------------------
(* What a reply has to do with what was read.                              *)
NativeIn(items) == UNION {Range(item.text) : item \in {i \in items : i.kind = "native_thinking"}}

\* A reply under way tells what the parsers have made of what was sent.
Recounting(r, f, pl, sent, items) ==
  /\ CallsRead(pl.parser, BegunIn(items))
  /\ \E thinking : /\ HasRead(pl.thinking, sent, thinking, f.fullContent)
                   /\ Drafts(r, f, thinking, pl.thinking.handling, NativeIn(items))

\* A reply at its end tells what all that was sent says.
Recounted(r, f, handling, sent, items) ==
  /\ f.fullContent \in ContentsOf(sent)
  /\ Concludes(r, f, ThinkingOf(handling, sent), handling, NativeIn(items), BegunIn(items), sent)

\* What is known of an object of Kiro.
IsItem(item) ==
  /\ item.kind \in ItemKinds
  /\ item.kind \in {"content", "native_thinking"} => IsSeq(item.text)

\* A text is appended to those before, another object put to the others.
SentOn(pl, sent, item) ==
  IF item.kind = "content" /\ Accepts(pl.parser, item.text) THEN sent \o item.text ELSE sent

ItemsOn(items, item) == IF item.kind = "content" THEN items ELSE items \cup {item}

LEMMA BegunOn ==
  ASSUME NEW items, NEW item
  PROVE  BegunIn(ItemsOn(items, item)) = WithItem(BegunIn(items), item)
  <1>1. CASE item.kind = "content"
    BY <1>1 DEF ItemsOn, WithItem
  <1>2. CASE item.kind = "tool_start"
    BY <1>2 DEF ItemsOn, WithItem, BegunIn
  <1>3. CASE item.kind \notin {"content", "tool_start"}
    BY <1>3 DEF ItemsOn, WithItem, BegunIn
  <1>. QED BY <1>1, <1>2, <1>3

LEMMA NativeOn ==
  ASSUME NEW items, NEW item
  PROVE  /\ NativeIn(items) \subseteq NativeIn(ItemsOn(items, item))
         /\ item.kind # "native_thinking" => NativeIn(ItemsOn(items, item)) = NativeIn(items)
         /\ item.kind = "native_thinking" /\ IsSeq(item.text)
              => IsNative(NativeIn(ItemsOn(items, item)), item.text)
  <1>. DEFINE natives(s) == {i \in s : i.kind = "native_thinking"}
              all == ItemsOn(items, item)
  <1>1. natives(items) \subseteq natives(all)
    BY DEF ItemsOn
  <1>2. item.kind # "native_thinking" => natives(all) = natives(items)
    BY DEF ItemsOn
  <1>3. item.kind = "native_thinking" => item \in natives(all)
    BY DEF ItemsOn
  <1>. HIDE DEF all
  <1>4. /\ NativeIn(items) \subseteq NativeIn(all)
        /\ item.kind # "native_thinking" => NativeIn(all) = NativeIn(items)
    BY <1>1, <1>2 DEF NativeIn
  <1>5. ASSUME item.kind = "native_thinking", IsSeq(item.text)
        PROVE  IsNative(NativeIn(all), item.text)
    <2>1. ASSUME NEW i \in 1 .. Len(item.text) PROVE item.text[i] \in NativeIn(all)
      <3>1. DOMAIN item.text = 1 .. Len(item.text)
        BY <1>5, SeqFacts
      <3>2. item.text[i] \in Range(item.text)
        BY <3>1 DEF Range
      <3>. QED BY <1>3, <1>5, <3>2 DEF NativeIn
    <2>. QED BY <1>5, <2>1 DEF IsNative
  <1>. QED BY <1>4, <1>5 DEF all

\* The diagnosis of a truncated call says nothing to the formatter.
LEMMA QuietlyHandled ==
  ASSUME dialect \in Dialects, NEW f, NEW events, IsSeq(events), NEW parser
  PROVE  HandleAll(f, events \o TruncationDiagnosis(parser)) = HandleAll(f, events)
  <1>. DEFINE last == TruncationDiagnosis(parser)
  <1>1. IsSeq(last)
    BY DiagnosisEvents DEF AreEvents
  <1>2. HandleAll(HandleAll(f, events), last) = HandleAll(f, events)
    BY DiagnosisTold
  <1>. HIDE DEF last
  <1>3. HandleAll(f, events \o last) = HandleAll(HandleAll(f, events), last)
    BY <1>1, HandlesJoined
  <1>. QED BY <1>2, <1>3 DEF last

\* The thinking of the parser comes before any content.
LEMMA ContentWaits ==
  ASSUME NEW p, IsThinking(p), NEW sent, NEW thinking, NEW content,
         HasRead(p, sent, thinking, content), p.state # "Streaming"
  PROVE  content = <<>>
  BY DEF HasRead, IsThinking

LEMMA TextRecounts ==
  ASSUME dialect \in Dialects, NEW r, NEW f, NEW c, KeptBy(c, f), NEW pl, IsPipeline(pl),
         TextOpen(f) => pl.thinking.state = "Streaming", NEW sent, IsSeq(sent), NEW thinking,
         NEW handling, NEW out, HasRead(pl.thinking, sent, thinking, f.fullContent),
         Drafts(r, f, thinking, handling, out), NEW item, IsItem(item),
         NEW fed, ReadsText(pl, item, fed)
  PROVE  LET g == HandleAll(f, fed.events)
         IN  \E more : /\ HasRead(fed.pipeline.thinking, sent \o item.text, more, g.fullContent)
                       /\ Drafts(r, g, more, handling, out)
  <1>. DEFINE p == pl.thinking
              t == ThinkingFeed(p, item.text)
              events == TextEvent("thinking", t.thinking) \o TextEvent("content", t.content)
              g == HandleAll(f, events)
              more == thinking \o t.thinking
  <1>1. /\ fed.pipeline.thinking = t.parser /\ item.kind = "content"
        /\ fed.events = events \o TruncationDiagnosis(fed.pipeline.parser)
    BY DEF ReadsText
  <1>2. IsSeq(item.text) /\ IsThinking(p)
    BY <1>1 DEF IsItem, IsPipeline
  <1>3. /\ IsSeq(t.thinking) /\ IsSeq(t.content)
        /\ p.state = "Streaming" => t.thinking = <<>>
    <2>1. IsParsed(t, p) /\ (p.state = "Streaming" => t.thinking = <<>>)
      BY <1>2, FeedIsParsed
    <2>. HIDE DEF t, p
    <2>. QED BY <2>1 DEF IsParsed
  <1>4. IsSeq(f.fullContent) /\ IsSeq(thinking)
    BY KeptContent DEF Drafts
  <1>5. t.thinking # <<>> => ~TextOpen(f) /\ f.fullContent = <<>>
    BY <1>2, <1>3, ContentWaits
  <1>6. HasRead(t.parser, sent \o item.text, more, f.fullContent \o t.content)
    BY <1>2, <1>4, FeedReads
  <1>. HIDE DEF t, p
  <1>7. IsSeq(events)
    <2>. DEFINE a == TextEvent("thinking", t.thinking)
                b == TextEvent("content", t.content)
    <2>1. IsSeq(a) /\ IsSeq(b)
      BY <1>3, TextEvents DEF AreEvents
    <2>. HIDE DEF a, b
    <2>2. IsSeq(a \o b)
      BY <2>1, ConcatFacts
    <2>. QED BY <2>2 DEF a, b
  <1>8. Drafts(r, g, more, handling, out) /\ g.fullContent = f.fullContent \o t.content
    <2>. DEFINE a == t.thinking
                x == t.content
    <2>1. IsSeq(a) /\ IsSeq(x) /\ (a # <<>> => ~TextOpen(f) /\ f.fullContent = <<>>)
      BY <1>3, <1>5
    <2>2. /\ g = HandleAll(f, TextEvent("thinking", a) \o TextEvent("content", x))
          /\ more = thinking \o a
      OBVIOUS
    <2>. HIDE DEF a, x, g, more, events
    <2>3. TextsTold(r, c, f, thinking, handling, out, a, x)
      BY <2>1, TextsGoOn
    <2>4. Drafts(r, g, more, handling, out) /\ g.fullContent = f.fullContent \o x
      BY <2>2, <2>3 DEF TextsTold
    <2>. QED BY <2>4 DEF x
  <1>. HIDE DEF events, more
  <1>9. HandleAll(f, fed.events) = g
    BY <1>1, <1>7, QuietlyHandled
  <1>. HIDE DEF g
  <1>10. HasRead(fed.pipeline.thinking, sent \o item.text, more, g.fullContent)
    BY <1>1, <1>6, <1>8
  <1>. QED BY <1>8, <1>9, <1>10

\* A text that repeats the last one, or a part of a call.
LEMMA NothingTold ==
  ASSUME dialect \in Dialects, NEW f, NEW events, NEW parser,
         events = <<>> \o TruncationDiagnosis(parser)
  PROVE  HandleAll(f, events) = f
  BY ZenonT(60), QuietlyHandled, HandlesNone, ShortSeqs

LEMMA OtherRecounts ==
  ASSUME dialect \in Dialects, NEW r, NEW f, NEW c, KeptBy(c, f), NEW pl, NEW thinking,
         NEW handling, NEW items, Drafts(r, f, thinking, handling, NativeIn(items)),
         NEW item, IsItem(item), NEW fed, ReadsOther(pl, item, fed)
  PROVE  LET g == HandleAll(f, fed.events)
         IN  /\ Drafts(r, g, thinking, handling, NativeIn(ItemsOn(items, item)))
             /\ g.fullContent = f.fullContent
  <1>. DEFINE all == NativeIn(ItemsOn(items, item))
              g == HandleAll(f, <<item>>)
  <1>1. /\ item.kind \notin {"content"} \cup ToolKinds
        /\ fed.events = <<item>> \o TruncationDiagnosis(pl.parser)
    BY DEF ReadsOther
  <1>2. /\ IsEvent(item) /\ item.kind \notin {"tool_use", "thinking", "content"}
        /\ item.kind = "native_thinking" => IsSeq(item.text)
    BY <1>1 DEF IsItem, IsEvent, ItemKinds, EventKinds, ToolKinds
  <1>3. /\ NativeIn(items) \subseteq all
        /\ item.kind = "native_thinking" => IsNative(all, item.text)
    BY <1>2, NativeOn
  <1>4. HandleAll(f, fed.events) = g
    BY <1>1, QuietlyHandled, ShortSeqs
  <1>. HIDE DEF all
  <1>5. Drafts(r, g, thinking, handling, all) /\ g.fullContent = f.fullContent
    BY <1>2, <1>3, OtherGoesOn
  <1>. HIDE DEF g
  <1>. QED BY <1>4, <1>5 DEF all

\* An object more has been read.
LEMMA ItemRecounts ==
  ASSUME dialect \in Dialects, NEW r, NEW f, NEW c, KeptBy(c, f), NEW pl, IsPipeline(pl),
         TextOpen(f) => pl.thinking.state = "Streaming", NEW sent, IsSeq(sent),
         NEW items, Recounting(r, f, pl, sent, items), NEW item \in Items
  PROVE  LET fed == Feed(pl, item)
         IN  Recounting(r, HandleAll(f, fed.events), fed.pipeline, SentOn(pl, sent, item),
                        ItemsOn(items, item))
  <1>. DEFINE fed == Feed(pl, item)
              g == HandleAll(f, fed.events)
              all == ItemsOn(items, item)
              handling == pl.thinking.handling
  <1>1. IsItem(item)
    BY ItemsAssumption DEF IsItem, IsSeq
  <1>2. CallsRead(fed.pipeline.parser, BegunIn(all))
    <2>1. CallsRead(fed.pipeline.parser, WithItem(BegunIn(items), item))
      BY CallsAreRead DEF Recounting
    <2>. QED BY <2>1, BegunOn
  <1>3. fed.pipeline.thinking.handling = handling
    BY FeedIsPipeline
  <1>4. \/ ReadsText(pl, item, fed) \/ ReadsRepeat(pl, item, fed)
        \/ ReadsTool(pl, item, fed) \/ ReadsOther(pl, item, fed)
    BY FeedTakes
  <1>5. PICK thinking : /\ HasRead(pl.thinking, sent, thinking, f.fullContent)
                        /\ Drafts(r, f, thinking, handling, NativeIn(items))
    BY DEF Recounting
  <1>6. \E more : /\ HasRead(fed.pipeline.thinking, SentOn(pl, sent, item), more, g.fullContent)
                  /\ Drafts(r, g, more, handling, NativeIn(all))
    <2>. HIDE DEF fed, handling
    <2>1. CASE ReadsText(pl, item, fed)
      <3>1. SentOn(pl, sent, item) = sent \o item.text /\ all = items
        BY <2>1 DEF ReadsText, SentOn, ItemsOn
      <3>2. \E more : /\ HasRead(fed.pipeline.thinking, sent \o item.text, more, g.fullContent)
                      /\ Drafts(r, g, more, handling, NativeIn(items))
        BY <1>1, <1>5, <2>1, TextRecounts
      <3>. QED BY <3>1, <3>2
    <2>2. CASE ReadsRepeat(pl, item, fed)
      <3>1. SentOn(pl, sent, item) = sent /\ all = items /\ fed.pipeline = pl
        BY <2>2 DEF ReadsRepeat, SentOn, ItemsOn
      <3>2. g = f
        BY <2>2, NothingTold DEF ReadsRepeat
      <3>. QED BY <1>5, <3>1, <3>2
    <2>3. CASE ReadsTool(pl, item, fed)
      <3>1. /\ SentOn(pl, sent, item) = sent /\ item.kind # "native_thinking"
            /\ fed.pipeline.thinking = pl.thinking
        BY <2>3 DEF ReadsTool, SentOn, ToolKinds
      <3>2. g = f
        BY <2>3, NothingTold DEF ReadsTool
      <3>3. NativeIn(all) = NativeIn(items)
        BY <3>1, NativeOn
      <3>. QED BY <1>5, <3>1, <3>2, <3>3
    <2>4. CASE ReadsOther(pl, item, fed)
      <3>1. SentOn(pl, sent, item) = sent /\ fed.pipeline = pl
        BY <2>4 DEF ReadsOther, SentOn
      <3>2. Drafts(r, g, thinking, handling, NativeIn(all)) /\ g.fullContent = f.fullContent
        BY <1>1, <1>5, <2>4, OtherRecounts
      <3>. QED BY <1>5, <3>1, <3>2
    <2>. QED BY <1>4, <2>1, <2>2, <2>3, <2>4
  <1>. HIDE DEF fed, g, all, handling
  <1>7. Recounting(r, g, fed.pipeline, SentOn(pl, sent, item), all)
    BY <1>2, <1>3, <1>6 DEF Recounting
  <1>. QED BY <1>7 DEF fed, g, all

\* The stream has ended.
LEMMA EndRecounts ==
  ASSUME dialect \in Dialects, NEW r, NEW f, NEW c, KeptBy(c, f), NEW pl, IsPipeline(pl),
         TextOpen(f) => pl.thinking.state = "Streaming", NEW sent, IsSeq(sent),
         NEW items, Recounting(r, f, pl, sent, items), Identified(BegunIn(items))
  PROVE  LET g == FormatterFinish(HandleAll(f, PipelineFinish(pl)))
         IN  Recounted(r, g, pl.thinking.handling, sent, items)
  <1>. DEFINE p == pl.thinking
              t == ThinkingFinish(p)
              a == t.thinking
              x == t.content
              texts == TextEvent("thinking", a) \o TextEvent("content", x)
              calls == ParserFinish(pl.parser)
              events == EventsOf(calls)
              h == HandleAll(f, texts)
              g == FormatterFinish(HandleAll(h, events))
              handling == p.handling
              out == NativeIn(items)
              begun == BegunIn(items)
  <1>0. IsThinking(p) /\ IsParser(pl.parser)
    BY DEF IsPipeline
  <1>1. PICK thinking : HasRead(p, sent, thinking, f.fullContent) /\ Drafts(r, f, thinking, handling, out)
    BY DEF Recounting
  <1>. DEFINE more == thinking \o a
  <1>2. IsSeq(f.fullContent) /\ IsSeq(thinking)
    BY <1>1, KeptContent DEF Drafts
  <1>3. IsSeq(a) /\ IsSeq(x) /\ (p.state = "Streaming" => a = <<>>)
    BY <1>0, FinishIsParsed
  <1>4. a # <<>> => ~TextOpen(f) /\ f.fullContent = <<>>
    BY <1>0, <1>1, <1>3, ContentWaits
  <1>5. more = ThinkingOf(handling, sent) /\ f.fullContent \o x \in ContentsOf(sent)
    BY <1>0, <1>1, <1>2, FinishReads
  <1>6. FromBegun(calls, begun)
    BY <1>0, CallsAtEnd DEF Recounting
  <1>7. HandleAll(f, PipelineFinish(pl)) = HandleAll(h, events)
    <2>. DEFINE q == FinalizeToolCall(pl.parser)
    <2>1. PipelineFinish(pl) = (texts \o events) \o TruncationDiagnosis(q)
      BY DEF PipelineFinish, EventsOf
    <2>. HIDE DEF calls, a, x, q
    <2>2. IsSeq(texts)
      <3>. DEFINE u == TextEvent("thinking", a)
                  v == TextEvent("content", x)
      <3>1. IsSeq(u) /\ IsSeq(v)
        BY <1>3, TextEvents DEF AreEvents
      <3>. HIDE DEF u, v
      <3>2. IsSeq(u \o v)
        BY <3>1, ConcatFacts
      <3>. QED BY <3>2 DEF u, v
    <2>3. IsSeq(calls)
      BY <1>6 DEF FromBegun, AreCalls
    <2>4. IsSeq(events)
      BY <2>3, CallEvents DEF AreEvents, EventsOf
    <2>. HIDE DEF texts, events
    <2>5. IsSeq(texts \o events)
      BY <2>2, <2>4, ConcatFacts
    <2>6. HandleAll(f, texts \o events) = HandleAll(h, events)
      BY <2>2, <2>4, HandlesJoined
    <2>. DEFINE whole == texts \o events
    <2>. HIDE DEF whole, h
    <2>7. HandleAll(f, whole \o TruncationDiagnosis(q)) = HandleAll(f, whole)
      BY <2>5, QuietlyHandled DEF whole
    <2>. QED BY <2>1, <2>6, <2>7 DEF whole
  <1>. HIDE DEF p, t, calls, handling, out, begun
  <1>8. Drafts(r, h, more, handling, out) /\ h.fullContent = f.fullContent \o x /\ KeptBy(c, h)
    <2>. HIDE DEF a, x
    <2>1. TextsTold(r, c, f, thinking, handling, out, a, x)
      BY <1>1, <1>3, <1>4, TextsGoOn
    <2>. QED BY <2>1 DEF TextsTold
  <1>. HIDE DEF a, x, texts, h, more, events
  <1>9. h.fullContent \in ContentsOf(sent)
    BY <1>5, <1>8
  <1>10. Concludes(r, g, more, handling, out, begun, sent) /\ g.fullContent = h.fullContent
    BY <1>6, <1>8, <1>9, DraftEnds DEF events
  <1>. HIDE DEF g
  <1>11. Recounted(r, g, handling, sent, items)
    BY <1>5, <1>9, <1>10 DEF Recounted, out, begun
  <1>. QED BY <1>7, <1>11 DEF g, handling, p

\* A reply that has no blocks yet.
LEMMA NoText ==
  ASSUME NEW kind \in TextKinds, NEW r, r.blocks = <<>>
  PROVE  TextOf(r, kind) = <<>>
  <1>1. 0 \in Nat /\ DOMAIN r.blocks = 1 .. 0
    OBVIOUS
  <1>2. PICK t : Piles(t, kind, r.blocks, 0) /\ TextOf(r, kind) = t[0]
    BY <1>1, TextInPiles
  <1>. QED BY <1>2 DEF Piles

LEMMA EmptyLedger ==
  ASSUME NEW r, r.blocks = <<>>, r.reason = "none"
  PROVE  LET l == LedgerOf(r)
         IN  /\ l.text = <<>> /\ l.thinking = <<>> /\ l.marks = {} /\ l.flaws = {}
             /\ l.reason = "none"
  <1>1. TextOf(r, "text") = <<>> /\ TextOf(r, "thinking") = <<>>
    BY NoText DEF TextKinds
  <1>2. MarksOf(r) = {}
    BY DEF MarksOf, CallsOf
  <1>3. Sound(r)
    <2>1. 1 .. Len(r.blocks) = {}
      BY ShortSeqs
    <2>. QED BY <2>1 DEF Sound
  <1>. QED BY <1>1, <1>2, <1>3 DEF LedgerOf

\* The formatter has nothing to tell yet.
LEMMA NewDraft ==
  ASSUME dialect \in Dialects, NEW handling \in HandlingModes, NEW out
  PROVE  LET f == NewFormatter(dialect, handling)
         IN  Drafts(EmptyReply(dialect), f, <<>>, handling, out) /\ f.fullContent = <<>>
  <1>. DEFINE f == NewFormatter(dialect, handling)
              r == EmptyReply(dialect)
              l == LedgerOf(r)
              m == Drafted(l, f.out)
              start == Anthropic!MessageStart
  <1>1. r.blocks = <<>> /\ r.reason = "none"
    BY DEF EmptyReply
  <1>. HIDE DEF r
  <1>2. /\ l.text = <<>> /\ l.thinking = <<>> /\ l.marks = {} /\ l.flaws = {}
    BY <1>1, EmptyLedger
  <1>. HIDE DEF l
  <1>3. /\ f.handling = ModeOf(handling) /\ f.fullContent = <<>> /\ f.truncatedTools = {}
        /\ CallsIn(f) = IF dialect = "anthropic" THEN 0 ELSE <<>>
        /\ dialect = "anthropic" => ~f.thinkingOpen /\ ~f.textOpen
        /\ f.out = IF dialect = "anthropic" THEN Append(<<>>, start) ELSE <<>>
    <2>1. CASE dialect = "anthropic"
      <3>1. f = [Anthropic!NewFormatter(handling) EXCEPT !.out = Append(<<>>, start)]
        BY <2>1 DEF NewFormatter, Anthropic!EmitMessageStart, Anthropic!Emit, Anthropic!NewFormatter
      <3>. HIDE DEF f
      <3>. QED BY <2>1, <3>1 DEF Anthropic!NewFormatter, ModeOf, CallsIn
    <2>2. CASE dialect = "openai"
      <3>1. f = OpenAI!NewFormatter(handling)
        BY <2>2 DEF NewFormatter
      <3>. HIDE DEF f
      <3>. QED BY <2>2, <3>1 DEF OpenAI!NewFormatter, ModeOf, CallsIn
    <2>. QED BY <2>1, <2>2 DEF Dialects
  <1>. HIDE DEF f
  <1>4. m.text = <<>> /\ m.thinking = <<>> /\ m.marks = {} /\ m.flaws = {}
    <2>1. CASE dialect = "anthropic"
      <3>1. start.type = "message_start"
        BY DEF Anthropic!MessageStart
      <3>. HIDE DEF start
      <3>2. m = Post(l, start)
        <4>1. f.out = Append(<<>>, start)
          BY <1>3, <2>1
        <4>2. IsSeq(<<>>)
          BY ShortSeqs
        <4>3. Drafted(l, Append(<<>>, start)) = Post(Drafted(l, <<>>), start)
          BY <4>2, DraftedOn
        <4>. QED BY <4>1, <4>3, NothingDrafted
      <3>3. Alike(l, Post(l, start))
        BY <3>1, StopPosts
      <3>. HIDE DEF m
      <3>. QED BY <1>2, <3>2, <3>3 DEF Alike
    <2>2. CASE dialect # "anthropic"
      <3>1. m = l
        BY <1>3, <2>2, NothingDrafted
      <3>. HIDE DEF m
      <3>. QED BY <1>2, <3>1
    <2>. QED BY <2>1, <2>2
  <1>. HIDE DEF m
  <1>5. IsSeq(<<>>) /\ <<>> \o <<>> = <<>>
    BY ShortSeqs
  <1>6. IsDraft(l, f)
    BY <1>3, <1>4, <1>5 DEF IsDraft, m
  <1>7. NoCallsYet(l, f)
    BY <1>3, <1>4 DEF NoCallsYet, m
  <1>8. Shows(l, f, <<>>, out)
    BY <1>3, <1>4, <1>5 DEF Shows, m
  <1>. QED BY <1>3, <1>5, <1>6, <1>7, <1>8 DEF Drafts, l, f, r

-----------------------------------------------------------------------------
(* What a reply has to do with what was read, as the handler goes on.      *)
Nothing == [tools |-> {}, contents |-> {}]

\* What was sent, without what repeats the text before, is what the reply tells, and the
\* records are those of the formatter.
Recounts ==
  /\ IsSeq(received.texts) /\ IsSeq(SentText)
  /\ pipeline.parser.lastContent = Sending(received.texts).last
  /\ phase = "streaming" => Recounting(reply, formatter, pipeline, SentText, received.others)
  /\ phase = "finishing" \/ Complete => Recounted(reply, formatter, Handling, SentText, received.others)
  /\ Complete => formatter.out = <<>> /\ saved = RecordsOf(formatter)
  /\ phase \in {"streaming", "finishing"} => err = "none"
  /\ phase \in {"streaming", "finishing"} \/ err # "none" => saved = Nothing

LEMMA WhatWasSent ==
  SentText = Sending(received.texts).whole /\ NativeChars = NativeIn(received.others)
  BY DEF SentText, Sending, SentNothing, NativeChars, NativeIn

\* The predicates depend on the dialect, which does not change.
LEMMA SameLedgerStill ==
  ASSUME dialect' = dialect, NEW r, NEW f
  PROVE  /\ LedgerOf(r)' = LedgerOf(r) /\ ModeOf(f)' = ModeOf(f)
         /\ CallsIn(f)' = CallsIn(f) /\ (HasFields(f)' <=> HasFields(f))
         /\ RecordsOf(f)' = RecordsOf(f)
  <1>1. Sound(r)' <=> Sound(r)
    BY DEF Sound, Apart
  <1>2. LedgerOf(r)' = LedgerOf(r)
    BY <1>1 DEF LedgerOf
  <1>. QED BY <1>2 DEF ModeOf, CallsIn, HasFields, FieldsOf, RecordsOf, ContentWasTruncated

LEMMA SameReading ==
  ASSUME dialect' = dialect, NEW r, NEW f, NEW pl, NEW sent, NEW items, NEW handling
  PROVE  /\ Recounting(r, f, pl, sent, items)' <=> Recounting(r, f, pl, sent, items)
         /\ Recounted(r, f, handling, sent, items)' <=> Recounted(r, f, handling, sent, items)
  <1>1. LedgerOf(r)' = LedgerOf(r) /\ \A x : ModeOf(x)' = ModeOf(x)
    BY SameLedgerStill
  <1>2. CallsIn(f)' = CallsIn(f) /\ (HasFields(f)' <=> HasFields(f))
    BY SameLedgerStill
  <1>3. ContentWasTruncated(f)' <=> ContentWasTruncated(f)
    BY DEF ContentWasTruncated
  <1>4. \A thinking, mode, out :
          Drafts(r, f, thinking, mode, out)' <=> Drafts(r, f, thinking, mode, out)
    BY <1>1, <1>2 DEF Drafts, IsDraft, NoCallsYet, Shows
  <1>5. \A thinking, mode, out, begun :
          Concludes(r, f, thinking, mode, out, begun, sent)'
            <=> Concludes(r, f, thinking, mode, out, begun, sent)
    BY <1>1, <1>2, <1>3 DEF Concludes, Shows
  <1>. QED BY <1>4, <1>5 DEF Recounting, Recounted

LEMMA RecountsInit == Init => Recounts
  <1>. SUFFICES ASSUME Init PROVE Recounts
    OBVIOUS
  <1>1. PICK handling \in Handlings :
          pipeline = NewPipeline(handling) /\ formatter = NewFormatter(dialect, handling)
    BY DEF Init
  <1>2. /\ dialect \in Dialects /\ phase = "streaming" /\ err = "none" /\ saved = Nothing
        /\ reply = EmptyReply(dialect) /\ received.texts = <<>> /\ received.others = {}
    BY DEF Init, Nothing
  <1>3. handling \in HandlingModes
    BY StreamAssumption
  <1>. DEFINE out == NativeIn(received.others)
  <1>4. SentText = <<>> /\ Sending(received.texts).last = <<>>
    BY <1>2, NothingSent, WhatWasSent DEF SentNothing
  <1>5. /\ pipeline.parser = NewParser /\ pipeline.thinking = NewThinking(handling)
        /\ pipeline.thinking.handling = handling
    BY <1>1, <1>3, NewPipelineIs DEF NewPipeline
  <1>6. pipeline.parser.lastContent = <<>> /\ CallsRead(pipeline.parser, BegunIn(received.others))
    <2>1. BegunIn(received.others) = {}
      BY <1>2 DEF BegunIn
    <2>2. 1 .. Len(NewParser.toolCalls) = {}
      BY ShortSeqs DEF NewParser
    <2>3. NewParser.currentToolCall = <<>> /\ NewParser.lastContent = <<>>
      BY DEF NewParser
    <2>. QED BY <1>5, <2>1, <2>2, <2>3 DEF CallsRead
  <1>7. /\ Drafts(reply, formatter, <<>>, handling, out) /\ formatter.fullContent = <<>>
    BY <1>1, <1>2, <1>3, NewDraft
  <1>8. HasRead(pipeline.thinking, SentText, <<>>, formatter.fullContent)
    BY <1>4, <1>5, <1>7, StartsRead
  <1>9. Recounting(reply, formatter, pipeline, SentText, received.others)
    BY <1>5, <1>6, <1>7, <1>8 DEF Recounting
  <1>10. IsSeq(received.texts) /\ IsSeq(SentText)
    BY <1>2, <1>4, ShortSeqs
  <1>. QED BY <1>2, <1>4, <1>6, <1>9, <1>10 DEF Recounts, Complete

\* The text that was sent goes on with what the parser accepts.
LEMMA TextsOn ==
  ASSUME NEW texts, IsSeq(texts), NEW text, IsSeq(text), IsSeq(Sending(texts).whole),
         NEW last, last = Sending(texts).last
  PROVE  LET more == Sending(Append(texts, text))
         IN  /\ IsSeq(Append(texts, text)) /\ IsSeq(more.whole) /\ more.last = text
             /\ more.whole = IF text # last THEN Sending(texts).whole \o text ELSE Sending(texts).whole
  <1>. DEFINE sending == Sending(texts)
              more == Sending(Append(texts, text))
  <1>1. more = AddFresh(sending, text) /\ IsSeq(Append(texts, text))
    BY SendingOn, AppendFacts
  <1>2. IsSeq(sending.whole \o text)
    <2>. HIDE DEF sending
    <2>1. IsSeq(sending.whole)
      BY DEF sending
    <2>. DEFINE whole == sending.whole
    <2>. HIDE DEF whole
    <2>2. IsSeq(whole)
      BY <2>1 DEF whole
    <2>3. IsSeq(whole \o text)
      BY <2>2, ConcatFacts
    <2>. QED BY <2>3 DEF whole
  <1>. HIDE DEF sending, more
  <1>3. IsSeq(sending.whole) /\ last = sending.last
    BY DEF sending
  <1>4. CASE text = last
    BY <1>1, <1>3, <1>4 DEF AddFresh, sending, more
  <1>5. CASE text # last
    BY <1>1, <1>2, <1>3, <1>5 DEF AddFresh, sending, more
  <1>. QED BY <1>4, <1>5

LEMMA ReadRecounts ==
  ASSUME Streams, Recounts, NEW item \in Items, Read(item)
  PROVE  Recounts'
  <1>. DEFINE fed == Feed(pipeline, item)
              g == HandleAll(formatter, fed.events)
              sent == SentOn(pipeline, SentText, item)
              items == ItemsOn(received.others, item)
              texts == IF item.kind = "content" THEN Append(received.texts, item.text)
                                                ELSE received.texts
  <1>1. /\ phase = "streaming" /\ pipeline' = fed.pipeline /\ formatter' = g
        /\ received'.others = items /\ received'.texts = texts
        /\ dialect' = dialect /\ phase' = phase /\ err' = err /\ reply' = reply /\ saved' = saved
    BY DEF Read, HandleAll, ItemsOn
  <1>2. PICK c : At(c)
    BY DEF Streams
  <1>3. KeptBy(c, formatter) /\ (TextOpen(formatter) => pipeline.thinking.state = "Streaming")
    BY <1>1, <1>2 DEF At, Streams
  <1>4. Recounting(reply, formatter, pipeline, SentText, received.others) /\ IsSeq(SentText)
    BY <1>1 DEF Recounts
  <1>5. Recounting(reply, g, fed.pipeline, sent, items)
    BY <1>3, <1>4, ItemRecounts DEF Streams
  <1>6. fed.pipeline.parser.lastContent =
          IF item.kind = "content" THEN item.text ELSE pipeline.parser.lastContent
    <2>1. CallsRead(pipeline.parser, BegunIn(received.others))
      BY <1>4 DEF Recounting
    <2>. QED BY <2>1, CallsAreRead DEF Streams
  <1>. HIDE DEF fed, g, items
  <1>7. /\ IsSeq(texts) /\ IsSeq(sent) /\ Sending(texts).whole = sent
        /\ fed.pipeline.parser.lastContent = Sending(texts).last
    <2>1. /\ IsSeq(received.texts) /\ IsSeq(Sending(received.texts).whole)
          /\ pipeline.parser.lastContent = Sending(received.texts).last
          /\ SentText = Sending(received.texts).whole
      BY WhatWasSent DEF Recounts
    <2>2. CASE item.kind = "content"
      <3>1. IsSeq(item.text)
        BY <2>2, ItemsAssumption DEF IsSeq
      <3>. DEFINE last == pipeline.parser.lastContent
                  text == item.text
      <3>2. Accepts(pipeline.parser, text) <=> text # last
        BY DEF Accepts
      <3>. HIDE DEF last, text
      <3>3. /\ IsSeq(text) /\ last = Sending(received.texts).last
            /\ IsSeq(received.texts) /\ IsSeq(Sending(received.texts).whole)
        BY <2>1, <3>1 DEF last, text
      <3>4. LET more == Sending(Append(received.texts, text))
            IN  /\ IsSeq(Append(received.texts, text)) /\ IsSeq(more.whole) /\ more.last = text
                /\ more.whole = IF text # last THEN Sending(received.texts).whole \o text
                                ELSE Sending(received.texts).whole
        BY <3>3, TextsOn
      <3>. QED BY <1>6, <2>1, <2>2, <3>2, <3>4 DEF SentOn, text
    <2>3. CASE item.kind # "content"
      BY <1>6, <2>1, <2>3 DEF SentOn
    <2>. QED BY <2>2, <2>3
  <1>. HIDE DEF texts, sent
  <1>8. SentText' = sent
    <2>1. SentText' = Sending(received'.texts).whole
      BY DEF SentText, Sending, SentNothing
    <2>. QED BY <1>1, <1>7, <2>1
  <1>9. Recounting(reply, formatter, pipeline, SentText, received.others)'
    BY <1>1, <1>5, <1>8, SameReading
  <1>10. err = "none" /\ saved = Nothing
    BY <1>1 DEF Recounts
  <1>11. ~Complete' /\ phase' = "streaming"
    BY <1>1 DEF Complete
  <1>12. IsSeq(received'.texts) /\ IsSeq(SentText') /\ pipeline'.parser.lastContent = Sending(received'.texts).last
    BY <1>1, <1>7, <1>8
  <1>. QED BY <1>1, <1>9, <1>10, <1>11, <1>12 DEF Recounts

\* The records of this reply are kept, and those of none that broke off.
LEMMA ReadEOFRecounts ==
  ASSUME Streams, Recounts, ReadEOF
  PROVE  Recounts'
  <1>. DEFINE g == FormatterFinish(HandleAll(formatter, PipelineFinish(pipeline)))
  <1>1. /\ phase = "streaming" /\ formatter' = g /\ phase' = "finishing"
        /\ UNCHANGED <<dialect, pipeline, received, err, reply, saved>>
    BY DEF ReadEOF, HandleAll
  <1>2. PICK c : At(c)
    BY DEF Streams
  <1>3. KeptBy(c, formatter) /\ (TextOpen(formatter) => pipeline.thinking.state = "Streaming")
    BY <1>1, <1>2 DEF At, Streams
  <1>4. Recounting(reply, formatter, pipeline, SentText, received.others) /\ IsSeq(SentText)
    BY <1>1 DEF Recounts
  <1>5. Identified(BegunIn(received.others))
    <2>1. received.others \subseteq Items
      BY DEF Streams
    <2>. QED BY <2>1, ItemsAssumption DEF Identified, BegunIn
  <1>6. Recounted(reply, g, Handling, SentText, received.others)
    BY <1>3, <1>4, <1>5, EndRecounts DEF Streams, Handling
  <1>. HIDE DEF g
  <1>7. SentText' = SentText /\ Handling' = Handling
    BY <1>1 DEF SentText, Handling
  <1>8. Recounted(reply, formatter, Handling, SentText, received.others)'
    BY <1>1, <1>6, <1>7, SameReading
  <1>9. err = "none" /\ saved = Nothing
    BY <1>1 DEF Recounts
  <1>10. ~Complete'
    BY <1>1 DEF Complete
  <1>. QED BY <1>1, <1>7, <1>8, <1>9, <1>10 DEF Recounts

\* An event that is written is told by the reply.
LEMMA WriteRecounts ==
  ASSUME Streams, Recounts, Write
  PROVE  Recounts'
  <1>. DEFINE e == Head(formatter.out)
              s == Collect(reply, e)
              g == Sent(formatter)
              out == NativeIn(received.others)
              begun == BegunIn(received.others)
  <1>1. /\ phase \in {"streaming", "finishing"} /\ formatter.out # <<>> /\ reply' = s
        /\ formatter' = g /\ phase' = phase /\ UNCHANGED <<dialect, pipeline, received, err, saved>>
    BY DEF Write, AllWritten, Sent
  <1>2. PICK c : At(c)
    BY DEF Streams
  <1>3. Stands(reply, c) /\ IsReply(reply) /\ dialect \in Dialects
    BY <1>2 DEF At, Streams
  <1>4. CASE phase = "streaming"
    <2>1. KeptBy(c, formatter) /\ HasFields(formatter) /\ IsSeq(formatter.out)
      <3>1. KeptBy(c, formatter)
        BY <1>2, <1>4 DEF At
      <3>2. HasFields(formatter)
        BY <1>3, <3>1, KeptFields
      <3>3. IsSeq(formatter.out)
        BY <1>3, <3>1 DEF KeptBy, Kept, Writes, IsAnthropic, OpenAIKept, IsOpenAI, Dialects
      <3>. QED BY <3>1, <3>2, <3>3
    <2>2. PICK b : Moves(c, e, b)
      BY <1>1, <1>3, <2>1, SendsOne
    <2>3. PICK thinking : /\ HasRead(pipeline.thinking, SentText, thinking, formatter.fullContent)
                          /\ Drafts(reply, formatter, thinking, Handling, out)
      BY <1>4 DEF Recounts, Recounting, Handling
    <2>4. Drafted(LedgerOf(reply), formatter.out).flaws = {}
      BY <2>3 DEF Drafts, IsDraft
    <2>5. SameTold(LedgerOf(reply), formatter, LedgerOf(s), g)
      BY <1>1, <1>3, <2>1, <2>2, <2>4, WriteTells
    <2>. HIDE DEF s, g, out
    <2>6. Drafts(s, g, thinking, Handling, out) /\ g.fullContent = formatter.fullContent
      <3>1. Drafts(s, g, thinking, Handling, out)
        BY <2>3, <2>5, ToldDrafts
      <3>. QED BY <2>5, <3>1 DEF SameTold
    <2>7. Recounting(s, g, pipeline, SentText, received.others)
      <3>1. CallsRead(pipeline.parser, begun)
        BY <1>4 DEF Recounts, Recounting
      <3>. QED BY <2>3, <2>6, <3>1 DEF Recounting, Handling, out
    <2>8. SentText' = SentText
      BY <1>1 DEF SentText
    <2>9. Recounting(reply, formatter, pipeline, SentText, received.others)'
      BY <1>1, <2>7, <2>8, SameReading
    <2>10. ~Complete'
      BY <1>1, <1>4 DEF Complete
    <2>. QED BY <1>1, <1>4, <2>8, <2>9, <2>10 DEF Recounts
  <1>5. CASE phase = "finishing"
    <2>. DEFINE thinking == ThinkingOf(Handling, SentText)
    <2>1. Finished(c, formatter) /\ IsSeq(formatter.out)
      BY <1>2, <1>5 DEF At, Finished
    <2>2. PICK b : Moves(c, e, b)
      BY <1>1, <2>1, SendsLast
    <2>3. /\ formatter.fullContent \in ContentsOf(SentText)
          /\ Concludes(reply, formatter, thinking, Handling, out, begun, SentText)
      BY <1>5 DEF Recounts, Recounted
    <2>4. HasFields(formatter) /\ Drafted(LedgerOf(reply), formatter.out).flaws = {}
      BY <2>3 DEF Concludes
    <2>5. SameTold(LedgerOf(reply), formatter, LedgerOf(s), g)
      BY <1>1, <1>3, <2>1, <2>2, <2>4, WriteTells
    <2>. HIDE DEF s, g, out, begun, thinking
    <2>6. Concludes(s, g, thinking, Handling, out, begun, SentText)
      BY <2>3, <2>5, ToldConcludes
    <2>7. g.fullContent = formatter.fullContent
      BY <2>5 DEF SameTold
    <2>8. Recounted(s, g, Handling, SentText, received.others)
      BY <2>3, <2>6, <2>7 DEF Recounted, out, begun, thinking
    <2>9. SentText' = SentText /\ Handling' = Handling
      BY <1>1 DEF SentText, Handling
    <2>10. Recounted(reply, formatter, Handling, SentText, received.others)'
      BY <1>1, <2>8, <2>9, SameReading
    <2>11. ~Complete'
      BY <1>1, <1>5 DEF Complete
    <2>. QED BY <1>1, <1>5, <2>9, <2>10, <2>11 DEF Recounts
  <1>. QED BY <1>1, <1>4, <1>5

\* The handler goes on, and nothing is written.
LEMMA HandlerRecounts ==
  ASSUME Streams, Recounts, ReadError \/ WriteError \/ Save \/ Return
  PROVE  Recounts'
  <1>1. /\ UNCHANGED <<dialect, pipeline, received, reply>> /\ phase' \in {"stopping", "returned"}
    BY DEF ReadError, WriteError, Save, Return
  <1>2. SentText' = SentText /\ Handling' = Handling
    BY <1>1 DEF SentText, Handling
  <1>3. CASE ReadError \/ WriteError
    <2>1. err' # "none" /\ saved' = Nothing
      BY <1>3 DEF ReadError, WriteError, Recounts
    <2>2. ~Complete'
      BY <2>1 DEF Complete
    <2>. QED BY <1>1, <1>2, <2>1, <2>2 DEF Recounts
  <1>4. CASE Save
    <2>1. /\ phase = "finishing" /\ formatter.out = <<>> /\ saved' = RecordsOf(formatter)
          /\ formatter' = formatter /\ err' = err
      BY <1>4 DEF Save, AllWritten
    <2>2. Recounted(reply, formatter, Handling, SentText, received.others) /\ err = "none"
      BY <2>1 DEF Recounts
    <2>3. Recounted(reply, formatter, Handling, SentText, received.others)'
      BY <1>1, <1>2, <2>1, <2>2, SameReading
    <2>4. saved' = RecordsOf(formatter)'
      BY <1>1, <2>1, SameLedgerStill
    <2>. QED BY <1>1, <1>2, <2>1, <2>2, <2>3, <2>4 DEF Recounts
  <1>5. CASE Return
    <2>1. phase = "stopping" /\ UNCHANGED <<formatter, err, saved>>
      BY <1>5 DEF Return
    <2>2. Complete' <=> Complete
      BY <1>1, <2>1 DEF Complete
    <2>3. Complete => Recounted(reply, formatter, Handling, SentText, received.others)'
      BY <1>1, <1>2, <2>1, SameReading DEF Recounts
    <2>4. Complete => saved' = RecordsOf(formatter)'
      BY <1>1, <2>1, SameLedgerStill DEF Recounts
    <2>. QED BY <1>1, <1>2, <2>1, <2>2, <2>3, <2>4 DEF Recounts
  <1>. QED BY <1>3, <1>4, <1>5

\* A ping tells nothing.
LEMMA SameBlocksTell ==
  ASSUME NEW r, NEW s, s.blocks = r.blocks, s.reason = r.reason, NEW f, NEW pl, NEW sent,
         NEW items, NEW handling
  PROVE  /\ Recounting(s, f, pl, sent, items) <=> Recounting(r, f, pl, sent, items)
         /\ Recounted(s, f, handling, sent, items) <=> Recounted(r, f, handling, sent, items)
  <1>1. LedgerOf(s) = LedgerOf(r)
    BY SameLedger
  <1>2. \A thinking, mode, out : Drafts(s, f, thinking, mode, out) <=> Drafts(r, f, thinking, mode, out)
    BY <1>1 DEF Drafts
  <1>3. \A thinking, mode, out, begun :
          Concludes(s, f, thinking, mode, out, begun, sent)
            <=> Concludes(r, f, thinking, mode, out, begun, sent)
    BY <1>1 DEF Concludes
  <1>. QED BY <1>2, <1>3 DEF Recounting, Recounted

LEMMA PingerRecounts ==
  ASSUME Streams, Recounts, Tick \/ Ping \/ PingerExit \/ UNCHANGED vars
  PROVE  Recounts'
  <1>1. UNCHANGED <<dialect, pipeline, received, formatter, phase, err, saved>>
    BY DEF Tick, Ping, PingerExit, vars
  <1>2. reply'.blocks = reply.blocks /\ reply'.reason = reply.reason
    <2>. DEFINE s == [reply EXCEPT !.pings = reply.pings + 1]
    <2>1. reply = [x \in ReplyFields |-> reply[x]]
      BY DEF Streams, IsReply, HasBlocks
    <2>2. s.blocks = reply.blocks /\ s.reason = reply.reason
      BY <2>1 DEF ReplyFields
    <2>3. reply' = reply \/ reply' = s
      BY DEF Tick, Ping, PingerExit, vars
    <2>. QED BY <2>2, <2>3
  <1>3. SentText' = SentText /\ Handling' = Handling /\ (Complete' <=> Complete)
    BY <1>1 DEF SentText, Handling, Complete
  <1>4. phase = "streaming" => Recounting(reply, formatter, pipeline, SentText, received.others)'
    <2>1. Recounting(reply', formatter, pipeline, SentText, received.others)
            <=> Recounting(reply, formatter, pipeline, SentText, received.others)
      BY <1>2, SameBlocksTell
    <2>. QED BY <1>1, <1>3, <2>1, SameReading DEF Recounts
  <1>5. phase = "finishing" \/ Complete =>
          Recounted(reply, formatter, Handling, SentText, received.others)'
    <2>1. Recounted(reply', formatter, Handling, SentText, received.others)
            <=> Recounted(reply, formatter, Handling, SentText, received.others)
      BY <1>2, SameBlocksTell
    <2>. QED BY <1>1, <1>3, <2>1, SameReading DEF Recounts
  <1>6. RecordsOf(formatter)' = RecordsOf(formatter)
    BY <1>1, SameLedgerStill
  <1>. QED BY <1>1, <1>3, <1>4, <1>5, <1>6 DEF Recounts

LEMMA RecountsNext == Streams /\ Recounts /\ [Next]_vars => Recounts'
  <1>. SUFFICES ASSUME Streams, Recounts, [Next]_vars PROVE Recounts'
    OBVIOUS
  <1>1. ASSUME NEW item \in Items, Read(item) PROVE Recounts'
    BY <1>1, ReadRecounts
  <1>2. CASE ReadEOF
    BY <1>2, ReadEOFRecounts
  <1>3. CASE Write
    BY <1>3, WriteRecounts
  <1>4. CASE ReadError \/ WriteError \/ Save \/ Return
    BY <1>4, HandlerRecounts
  <1>5. CASE Tick \/ Ping \/ PingerExit \/ UNCHANGED vars
    BY <1>5, PingerRecounts
  <1>. QED BY <1>1, <1>2, <1>3, <1>4, <1>5 DEF Next

LEMMA AlwaysRecounts == Spec => [](Streams /\ Recounts)
  <1>1. Spec => []Streams
    BY AlwaysStreams
  <1>2. Streams /\ Recounts /\ [Next]_vars => Recounts'
    BY RecountsNext
  <1>. QED BY <1>1, <1>2, RecountsInit, PTL DEF Spec

-----------------------------------------------------------------------------
(* What the client holds at the end.                                       *)
AllTold ==
  /\ Sound(reply) /\ HasBlocks(reply) /\ formatter.handling = ModeOf(Handling)
  /\ formatter.fullContent \in ContentsOf(SentText)
  /\ formatter.handling # "AsContent" => TextOf(reply, "text") = formatter.fullContent
  /\ formatter.handling # "AsReasoningContent" => TextOf(reply, "thinking") = <<>>
  /\ formatter.handling = "AsReasoningContent" =>
       WithoutNative(TextOf(reply, "thinking")) = WithoutNative(ShownThinking)
  /\ formatter.handling = "AsContent" =>
       WithoutNative(TextOf(reply, "text")) = WithoutNative(ShownThinking \o formatter.fullContent)
  /\ CallsTold(MarksOf(reply), BegunIn(received.others), SentText)
  /\ CutShort <=> ContentWasTruncated(formatter)
  /\ formatter.truncatedTools = CutMarks(MarksOf(reply))

LEMMA CompleteTellsAll ==
  ASSUME Streams, Recounts, Complete
  PROVE  AllTold
  <1>. DEFINE l == LedgerOf(reply)
              thinking == ThinkingOf(Handling, SentText)
              out == NativeIn(received.others)
              begun == BegunIn(received.others)
  <1>1. /\ formatter.out = <<>> /\ formatter.fullContent \in ContentsOf(SentText)
        /\ Concludes(reply, formatter, thinking, Handling, out, begun, SentText)
    BY DEF Recounts, Recounted
  <1>2. Drafted(l, formatter.out) = l
    BY <1>1, NothingDrafted
  <1>3. /\ l.text = TextOf(reply, "text") /\ l.thinking = TextOf(reply, "thinking")
        /\ l.marks = MarksOf(reply) /\ l.reason = reply.reason
        /\ (l.flaws = {} => Sound(reply))
    BY DEF LedgerOf
  <1>4. \A text : Strained(out, text) = WithoutNative(text)
    BY WhatWasSent DEF WithoutNative
  <1>5. thinking = ShownThinking
    BY DEF ShownThinking
  <1>. HIDE DEF l, thinking, out, begun
  <1>6. /\ formatter.handling = ModeOf(Handling) /\ l.flaws = {}
        /\ Shows(l, formatter, thinking, out) /\ CallsTold(l.marks, begun, SentText)
        /\ (IsCut(l) <=> ContentWasTruncated(formatter)) /\ formatter.truncatedTools = CutMarks(l.marks)
    BY <1>1, <1>2 DEF Concludes, l
  <1>7. /\ formatter.handling # "AsContent" => l.text = formatter.fullContent
        /\ formatter.handling # "AsReasoningContent" => l.thinking = <<>>
        /\ formatter.handling = "AsReasoningContent" =>
             Strained(out, l.thinking) = Strained(out, thinking)
        /\ formatter.handling = "AsContent" =>
             Strained(out, l.text) = Strained(out, thinking \o formatter.fullContent)
    BY <1>2, <1>6 DEF Shows
  <1>8. CutShort <=> ContentWasTruncated(formatter)
    BY <1>3, <1>6 DEF CutShort, IsCut
  <1>9. HasBlocks(reply)
    BY DEF Streams, IsReply
  <1>. QED BY <1>1, <1>3, <1>4, <1>5, <1>6, <1>7, <1>8, <1>9 DEF AllTold, begun

LEMMA RecordsFollow ==
  ASSUME Streams, Recounts
  PROVE  RecordsMatchReply
  <1>. SUFFICES ASSUME phase \in {"stopping", "returned"}
                PROVE  IF err # "none" THEN saved = [tools |-> {}, contents |-> {}]
                       ELSE /\ saved.tools = {c.id : c \in {d \in CallsOf(reply) : d.truncated}}
                            /\ EchoesContent =>
                                 saved.contents = IF CutShort THEN {TextOf(reply, "text")} ELSE {}
    BY DEF RecordsMatchReply
  <1>1. CASE err # "none"
    BY <1>1 DEF Recounts, Nothing
  <1>2. CASE err = "none"
    <2>1. Complete
      BY <1>2 DEF Complete
    <2>2. AllTold
      BY <2>1, CompleteTellsAll
    <2>3. /\ saved.tools = formatter.truncatedTools
          /\ saved.contents = IF ContentWasTruncated(formatter) THEN {formatter.fullContent} ELSE {}
      BY <2>1 DEF Recounts, RecordsOf
    <2>4. CutMarks(MarksOf(reply)) = {c.id : c \in {d \in CallsOf(reply) : d.truncated}}
      <3>. DEFINE calls == CallsOf(reply)
                  cut == {d \in calls : d.truncated}
      <3>. HIDE DEF calls
      <3>1. \A c : MarkOf(c).id = c.id /\ (MarkOf(c).truncated <=> c.truncated)
        BY DEF MarkOf
      <3>2. MarksOf(reply) = {MarkOf(c) : c \in calls}
        BY DEF MarksOf, calls
      <3>3. ASSUME NEW x \in CutMarks(MarksOf(reply)) PROVE x \in {c.id : c \in cut}
        <4>1. PICK k \in MarksOf(reply) : k.truncated /\ x = k.id
          BY DEF CutMarks
        <4>2. PICK c \in calls : k = MarkOf(c)
          BY <3>2
        <4>. QED BY <3>1, <4>1, <4>2
      <3>4. ASSUME NEW c \in cut PROVE c.id \in CutMarks(MarksOf(reply))
        <4>1. MarkOf(c) \in {j \in MarksOf(reply) : j.truncated} /\ MarkOf(c).id = c.id
          BY <3>1, <3>2
        <4>. QED BY <4>1 DEF CutMarks
      <3>. QED BY <3>3, <3>4 DEF calls
    <2>5. EchoesContent => formatter.handling # "AsContent"
      BY <2>2 DEF AllTold, EchoesContent, ModeOf
    <2>. QED BY <1>2, <2>2, <2>3, <2>4, <2>5 DEF AllTold
  <1>. QED BY <1>1, <1>2

LEMMA CallsFollow ==
  ASSUME Streams, Recounts
  PROVE  ToolCallsOnce
  <1>. DEFINE begun == {item \in received.others : item.kind = "tool_start"}
              at == {i \in DOMAIN reply.blocks : reply.blocks[i].kind = "tool_use"}
              call(i) == reply.blocks[i].call[1]
  <1>. SUFFICES ASSUME Complete
                PROVE  /\ \A i, j \in at : call(i).id = call(j).id => i = j
                       /\ \A item \in begun :
                            \E i \in at : \/ call(i).id = item.id
                                          \/ \E twin, other \in begun :
                                               twin.id = item.id /\ twin.name = call(i).name
                                                 /\ other.id = call(i).id
                       /\ \A i \in at : call(i).id > 0 => \E item \in begun : item.id = call(i).id
                       /\ (\E i \in at : call(i).id < 0) => "B" \in Range(SentText)
    BY DEF ToolCallsOnce
  <1>1. AllTold
    BY CompleteTellsAll
  <1>. DEFINE marks == MarksOf(reply)
  <1>2. Sound(reply) /\ HasBlocks(reply) /\ CallsTold(marks, begun, SentText)
    BY <1>1 DEF AllTold, BegunIn
  <1>3. DOMAIN reply.blocks = 1 .. Len(reply.blocks)
    BY <1>2, SeqFacts DEF HasBlocks
  <1>4. ASSUME NEW i \in at
        PROVE  MarkOf(call(i)) \in marks
    BY <1>2, <1>3, MarksAre DEF Sound, HasItsCall
  <1>5. ASSUME NEW k \in marks
        PROVE  \E i \in at : k = MarkOf(call(i))
    BY <1>2, <1>3, MarksAre DEF Sound, HasItsCall
  <1>6. \A i, j \in at : call(i).id = call(j).id => i = j
    BY <1>2, <1>3 DEF Sound, Apart
  <1>. HIDE DEF at, begun, marks, call
  <1>7. ASSUME NEW item \in begun
        PROVE  \E i \in at : \E twin, other \in begun :
                 twin.id = item.id /\ twin.name = call(i).name /\ other.id = call(i).id
    <2>1. PICK k \in marks : Stood(item, k, begun)
      BY <1>2 DEF CallsTold
    <2>2. PICK i \in at : k = MarkOf(call(i))
      BY <1>5
    <2>. QED BY <2>1, <2>2 DEF Stood, MarkOf
  <1>8. ASSUME NEW i \in at
        PROVE  /\ call(i).id > 0 => \E item \in begun : item.id = call(i).id
               /\ call(i).id < 0 => "B" \in Range(SentText)
    BY <1>2, <1>4 DEF CallsTold, MarkOf
  <1>. QED BY <1>6, <1>7, <1>8

LEMMA TextFollows ==
  ASSUME Streams, Recounts
  PROVE  TextReassembled
  <1>. DEFINE content == formatter.fullContent
  <1>. SUFFICES ASSUME Complete
                PROVE  IF Handling = "as_reasoning_content"
                       THEN /\ WithoutNative(TextOf(reply, "thinking")) = WithoutNative(ShownThinking)
                            /\ TextOf(reply, "text") \in ContentsOf(SentText)
                       ELSE /\ TextOf(reply, "thinking") = <<>>
                            /\ WithoutNative(TextOf(reply, "text")) \in
                                 {WithoutNative((IF dialect = "openai" THEN ShownThinking ELSE <<>>) \o x) :
                                    x \in ContentsOf(SentText)}
    BY DEF TextReassembled
  <1>1. AllTold /\ dialect \in Dialects
    BY CompleteTellsAll DEF Streams
  <1>2. CASE Handling = "as_reasoning_content"
    <2>1. formatter.handling = "AsReasoningContent"
      BY <1>1, <1>2 DEF AllTold, ModeOf
    <2>. QED BY <1>1, <1>2, <2>1 DEF AllTold
  <1>3. CASE Handling # "as_reasoning_content" /\ dialect = "openai"
    <2>1. formatter.handling = "AsContent"
      BY <1>1, <1>3 DEF AllTold, ModeOf
    <2>. QED BY <1>1, <1>3, <2>1 DEF AllTold
  <1>4. CASE Handling # "as_reasoning_content" /\ dialect = "anthropic"
    <2>1. formatter.handling = "Strip"
      BY <1>1, <1>4 DEF AllTold, ModeOf
    <2>2. TextOf(reply, "text") = content /\ TextOf(reply, "thinking") = <<>>
          /\ content \in ContentsOf(SentText)
      BY <1>1, <2>1 DEF AllTold
    <2>3. IsSeq(TextOf(reply, "text"))
      BY <1>1, TextIsSeq DEF AllTold, TextKinds
    <2>4. <<>> \o content = content
      <3>1. IsSeq(content)
        BY <2>2, <2>3
      <3>. HIDE DEF content
      <3>. QED BY <3>1, ConcatNone
    <2>. HIDE DEF content
    <2>. QED BY <1>4, <2>2, <2>4
  <1>. QED BY <1>1, <1>2, <1>3, <1>4 DEF Dialects

-----------------------------------------------------------------------------
\* The records saved for the next request of a conversation are exactly those of the calls
\* the client holds broken and of the text it holds cut short, for any stream of any length
\* and however it ends; a reply that broke off leaves none.
THEOREM RecordsAlwaysMatch == Spec => []RecordsMatchReply
  <1>1. Streams /\ Recounts => RecordsMatchReply
    BY RecordsFollow
  <1>. QED BY <1>1, AlwaysRecounts, PTL

\* A reply that came to its end holds every call that Kiro began, each under one id, and no
\* call but those and the ones written in the text: fragments, repeats and calls cut off by
\* the end of the stream neither lose a call nor tell it twice.
THEOREM CallsAlwaysOnce == Spec => []ToolCallsOnce
  <1>1. Streams /\ Recounts => ToolCallsOnce
    BY CallsFollow
  <1>. QED BY <1>1, AlwaysRecounts, PTL

\* A reply that came to its end tells the thinking and the content that a reading of the
\* whole text gives, wherever its tags, its pieces and the other objects fall.
THEOREM TextAlwaysReassembled == Spec => []TextReassembled
  <1>1. Streams /\ Recounts => TextReassembled
    BY TextFollows
  <1>. QED BY <1>1, AlwaysRecounts, PTL
=============================================================================
