----------------------------- MODULE RequestProofs -----------------------------
(***************************************************************************)
(* Proofs about the requests.  First what the conversion makes of any      *)
(* conversation: the roles of the history alternate, and the cuts are no   *)
(* deeper than the limit asks for (OpenAIConverter, AnthropicConverter,    *)
(* PayloadTrim, Normalize).  Then GatewayRequests, for every set of        *)
(* requests, with whatever bodies they come, and every number of attempts  *)
(* and chunks: what a dump of the debug log can hold, and what may be said *)
(* of every request at every point on its way.                             *)
(***************************************************************************)
EXTENDS RequestProperties, RecursionTheorems, FiniteSetTheorems, TLAPS

MergeFold == INSTANCE FoldTheorems WITH op <- Merge
AlternateFold == INSTANCE FoldTheorems WITH op <- Alternate
AlignFold == INSTANCE FoldTheorems WITH op <- Aligned
StepFold == INSTANCE FoldTheorems WITH op <- Step

-----------------------------------------------------------------------------
(* Messages, and what the chain of Normalize does to their roles.          *)
MessageFields == {"role", "text", "calls", "results", "images", "reasoning"}

IsMessage(m) == m = [f \in MessageFields |-> m[f]]

Conversation(msgs) == IsSeq(msgs) /\ \A i \in 1 .. Len(msgs) : IsMessage(msgs[i])

NoNeighbours(msgs) == \A i \in 1 .. Len(msgs) - 1 : msgs[i].role # msgs[i + 1].role

\* The user first, and never two messages of the assistant in a row.
UserFirst(msgs) ==
  /\ msgs[1].role = "user"
  /\ \A i \in 1 .. Len(msgs) : msgs[i].role \in {"user", "assistant"}
  /\ \A i \in 1 .. Len(msgs) - 1 : "user" \in {msgs[i].role, msgs[i + 1].role}

Alternating(msgs) ==
  \A i \in 1 .. Len(msgs) : msgs[i].role = IF i % 2 = 1 THEN "user" ELSE "assistant"

LEMMA MessageIs ==
  ASSUME NEW role, NEW text
  PROVE  IsMessage(Message(role, text)) /\ Message(role, text).role = role
  BY DEF IsMessage, Message, MessageFields

\* Calls and results as text, and what is left of a message then.
LEMMA RewrittenMessages ==
  ASSUME NEW m, IsMessage(m)
  PROVE  /\ IsMessage(Stripped(m)) /\ Stripped(m).role = m.role
         /\ IsMessage(WithResultsAsText(m)) /\ WithResultsAsText(m).role = m.role
  <1>1. IsMessage(Stripped(m)) /\ Stripped(m).role = m.role
    BY DEF Stripped, Message, IsMessage, MessageFields
  <1>2. IsMessage(WithResultsAsText(m)) /\ WithResultsAsText(m).role = m.role
    <2>. DEFINE text == m.text \o ToolResultsToText(m.results)
    <2>1. WithResultsAsText(m) =
            [m EXCEPT !.text = text, !.results = <<>>, !.reasoning = NoReasoning]
      BY DEF WithResultsAsText
    <2>. HIDE DEF text
    <2>. QED BY <2>1 DEF IsMessage, MessageFields
  <1>. QED BY <1>1, <1>2

LEMMA MergedMessage ==
  ASSUME NEW m, IsMessage(m), NEW n
  PROVE  IsMessage(MergedWith(m, n)) /\ MergedWith(m, n).role = m.role
  <1>. DEFINE text == m.text \o Newline \o n.text
              calls == IF n.role = "assistant" THEN m.calls \o n.calls ELSE m.calls
              results == IF n.role = "user" THEN m.results \o n.results ELSE m.results
              reasoning == IF n.role = "assistant" /\ m.reasoning = NoReasoning
                           THEN n.reasoning ELSE m.reasoning
  <1>1. MergedWith(m, n) = [m EXCEPT !.text = text, !.calls = calls, !.results = results,
                                     !.reasoning = reasoning]
    BY DEF MergedWith
  <1>. HIDE DEF text, calls, results, reasoning
  <1>. QED BY <1>1 DEF IsMessage, MessageFields

\* The two ways to be rid of results that Kiro would refuse leave the roles.
LEMMA ToolsSettled ==
  ASSUME NEW msgs, Conversation(msgs), NEW t,
         t \in {StripAllToolContent(msgs), EnsureAssistantBeforeToolResults(msgs)}
  PROVE  /\ Conversation(t) /\ Len(t) = Len(msgs)
         /\ \A i \in 1 .. Len(msgs) : t[i].role = msgs[i].role
  <1>1. DOMAIN msgs = 1 .. Len(msgs) /\ IsSeq(msgs)
    BY SeqFacts DEF Conversation
  <1>2. /\ t = [i \in DOMAIN msgs |-> t[i]]
        /\ \A i \in 1 .. Len(msgs) : t[i] \in {msgs[i], Stripped(msgs[i]), WithResultsAsText(msgs[i])}
    BY <1>1 DEF StripAllToolContent, EnsureAssistantBeforeToolResults
  <1>3. IsSeq(t) /\ Len(t) = Len(msgs)
    BY <1>1, <1>2, SameLength
  <1>. QED BY <1>2, <1>3, RewrittenMessages DEF Conversation

LEMMA MergeStep ==
  ASSUME NEW out, Conversation(out), NoNeighbours(out), NEW msg, IsMessage(msg)
  PROVE  LET new == Merge(out, msg)
         IN  /\ Conversation(new) /\ NoNeighbours(new) /\ new # <<>>
             /\ Last(new).role = msg.role
  <1>. DEFINE n == Len(out)
  <1>1. IsSeq(out) /\ n \in Nat /\ (out = <<>> <=> n = 0) /\ Last(out) = out[n]
    BY SeqFacts DEF Conversation, Last
  <1>2. ASSUME NEW s, IsSeq(s), Len(s) <= n, \A i \in 1 .. Len(s) : s[i] = out[i],
               NEW m, IsMessage(m), m.role = msg.role,
               Len(s) > 0 => s[Len(s)].role # m.role
        PROVE  LET new == Append(s, m)
               IN  /\ Conversation(new) /\ NoNeighbours(new) /\ new # <<>>
                   /\ Last(new).role = msg.role
    <2>. DEFINE new == Append(s, m)
    <2>1. /\ IsSeq(new) /\ Len(new) = Len(s) + 1 /\ Len(s) \in Nat
          /\ \A i \in 1 .. Len(s) : new[i] = out[i]
          /\ new[Len(s) + 1] = m
      BY <1>2, AppendFacts, SeqFacts
    <2>. HIDE DEF new
    <2>2. new # <<>>
      BY <2>1, SeqFacts
    <2>3. ASSUME NEW i \in 1 .. Len(new) PROVE IsMessage(new[i])
      <3>1. i \in 1 .. Len(s) \/ i = Len(s) + 1
        BY <2>1
      <3>. QED BY <1>1, <1>2, <2>1, <3>1 DEF Conversation
    <2>4. ASSUME NEW i \in 1 .. Len(new) - 1 PROVE new[i].role # new[i + 1].role
      <3>1. CASE i = Len(s)
        BY <1>2, <2>1, <3>1
      <3>2. CASE i # Len(s)
        <4>1. i \in 1 .. Len(s) /\ i + 1 \in 1 .. Len(s) /\ i \in 1 .. n - 1
          BY <1>1, <1>2, <2>1, <3>2
        <4>. QED BY <2>1, <4>1 DEF NoNeighbours
      <3>. QED BY <3>1, <3>2
    <2>5. Last(new) = m
      BY <2>1 DEF Last
    <2>. QED BY <1>2, <2>1, <2>2, <2>3, <2>4, <2>5 DEF Conversation, NoNeighbours, new
  <1>3. CASE out # <<>> /\ Last(out).role = msg.role
    <2>. DEFINE s == Front(out)
                m == MergedWith(Last(out), msg)
    <2>1. /\ IsSeq(s) /\ Len(s) = n - 1 /\ Len(s) \in Nat
          /\ \A i \in 1 .. Len(s) : s[i] = out[i]
      BY <1>1, <1>3, FrontFacts
    <2>2. IsMessage(m) /\ m.role = msg.role
      BY <1>1, <1>3, MergedMessage DEF Conversation
    <2>3. Len(s) > 0 => s[Len(s)].role # m.role
      <3>. HIDE DEF s, m
      <3>. QED BY <1>1, <1>3, <2>1, <2>2 DEF NoNeighbours
    <2>4. Merge(out, msg) = Append(s, m)
      BY <1>3 DEF Merge
    <2>. HIDE DEF s, m
    <2>. QED BY <1>1, <1>2, <2>1, <2>2, <2>3, <2>4
  <1>4. CASE ~(out # <<>> /\ Last(out).role = msg.role)
    <2>1. Merge(out, msg) = Append(out, msg)
      BY <1>4 DEF Merge
    <2>. QED BY <1>1, <1>2, <1>4, <2>1
  <1>. QED BY <1>3, <1>4

MergeStages(h, msgs, n) ==
  /\ h[0] = <<>>
  /\ \A i \in 1 .. n : h[i] = Merge(h[i - 1], msgs[i])

LEMMA MergedInStages ==
  ASSUME NEW msgs, NEW n \in Nat, DOMAIN msgs = 1 .. n
  PROVE  \E h : MergeStages(h, msgs, n) /\ MergeAdjacentMessages(msgs) = h[n]
  <1>1. \E h : /\ MergeFold!Stages(h, <<>>, msgs, n)
               /\ MergeFold!FoldLeft(Merge, <<>>, msgs) = h[n]
    BY MergeFold!StagesOfFold
  <1>2. MergeFold!FoldLeft(Merge, <<>>, msgs) = FoldLeft(Merge, <<>>, msgs)
    BY DEF FoldLeft, MapThenFoldSet, Max,
           MergeFold!FoldLeft, MergeFold!MapThenFoldSet, MergeFold!Max
  <1>. QED BY <1>1, <1>2 DEF MergeFold!Stages, MergeStages, MergeAdjacentMessages

LEMMA NothingMerged == Conversation(<<>>) /\ NoNeighbours(<<>>)
  <1>1. IsSeq(<<>>) /\ Len(<<>>) = 0
    BY DEF IsSeq
  <1>. QED BY <1>1 DEF Conversation, NoNeighbours

\* Merged, no two neighbours have one role, and the last role is still the last.
LEMMA MergedRoles ==
  ASSUME NEW msgs, Conversation(msgs), msgs # <<>>
  PROVE  LET new == MergeAdjacentMessages(msgs)
         IN  /\ Conversation(new) /\ NoNeighbours(new) /\ new # <<>>
             /\ Last(new).role = Last(msgs).role
  <1>. DEFINE n == Len(msgs)
  <1>1. n \in Nat \ {0} /\ DOMAIN msgs = 1 .. n
    BY SeqFacts DEF Conversation
  <1>2. PICK h : MergeStages(h, msgs, n) /\ MergeAdjacentMessages(msgs) = h[n]
    BY <1>1, MergedInStages
  <1>. DEFINE Good(k) == /\ Conversation(h[k]) /\ NoNeighbours(h[k])
                         /\ k > 0 => h[k] # <<>> /\ Last(h[k]).role = msgs[k].role
              S == {k \in Nat : k <= n => Good(k)}
  <1>3. 0 \in S
    BY <1>2, NothingMerged DEF MergeStages
  <1>4. ASSUME NEW k \in Nat, k \in S PROVE k + 1 \in S
    <2>. SUFFICES ASSUME k + 1 <= n PROVE Good(k + 1)
      OBVIOUS
    <2>1. Conversation(h[k]) /\ NoNeighbours(h[k]) /\ k + 1 \in 1 .. n /\ (k + 1) - 1 = k
      BY <1>1, <1>4
    <2>2. h[k + 1] = Merge(h[k], msgs[k + 1])
      BY <1>2, <2>1 DEF MergeStages
    <2>3. IsMessage(msgs[k + 1])
      BY <2>1 DEF Conversation
    <2>. QED BY <2>1, <2>2, <2>3, MergeStep
  <1>5. n \in S
    <2>. HIDE DEF S
    <2>. QED BY <1>1, <1>3, <1>4, Induction
  <1>6. Good(n)
    BY <1>1, <1>5
  <1>. QED BY <1>1, <1>2, <1>6 DEF Last

LEMMA FirstIsUser ==
  ASSUME NEW msgs, Conversation(msgs), NoNeighbours(msgs), msgs # <<>>
  PROVE  LET new == EnsureFirstMessageIsUser(msgs)
         IN  /\ Conversation(new) /\ NoNeighbours(new) /\ new # <<>>
             /\ new[1].role = "user" /\ Last(new).role = Last(msgs).role
  <1>. DEFINE n == Len(msgs)
              first == Message("user", Placeholder)
  <1>1. IsSeq(msgs) /\ n \in Nat \ {0} /\ Head(msgs) = msgs[1]
    BY SeqFacts DEF Conversation, IsSeq
  <1>2. CASE Head(msgs).role = "user"
    BY <1>1, <1>2 DEF EnsureFirstMessageIsUser
  <1>3. CASE Head(msgs).role # "user"
    <2>. DEFINE new == <<first>> \o msgs
    <2>1. IsSeq(<<first>>) /\ Len(<<first>>) = 1 /\ <<first>>[1] = first
      <3>. HIDE DEF first
      <3>1. <<first>> = [i \in 1 .. 1 |-> <<first>>[i]]
        OBVIOUS
      <3>. QED BY <3>1, ASequence
    <2>2. IsMessage(first) /\ first.role = "user"
      <3>1. PICK role : role = "user"
        OBVIOUS
      <3>. QED BY <3>1, MessageIs
    <2>3. /\ IsSeq(new) /\ Len(new) = n + 1 /\ new[1] = first
          /\ \A i \in 1 .. n : new[i + 1] = msgs[i]
      <3>. HIDE DEF first
      <3>. QED BY <1>1, <2>1, ConcatFacts
    <2>4. EnsureFirstMessageIsUser(msgs) = new
      BY <1>1, <1>3 DEF EnsureFirstMessageIsUser
    <2>. HIDE DEF new, first
    <2>5. ASSUME NEW i \in 1 .. Len(new) PROVE IsMessage(new[i])
      <3>1. i = 1 \/ (i - 1 \in 1 .. n /\ (i - 1) + 1 = i)
        BY <1>1, <2>3
      <3>2. CASE i = 1
        BY <2>2, <2>3, <3>2
      <3>3. CASE i - 1 \in 1 .. n /\ (i - 1) + 1 = i
        <4>1. new[i] = msgs[i - 1]
          BY <2>3, <3>3
        <4>. QED BY <3>3, <4>1 DEF Conversation
      <3>. QED BY <3>1, <3>2, <3>3
    <2>6. ASSUME NEW i \in 1 .. Len(new) - 1 PROVE new[i].role # new[i + 1].role
      <3>1. CASE i = 1
        BY <1>1, <1>3, <2>2, <2>3, <3>1
      <3>2. CASE i # 1
        <4>1. i - 1 \in 1 .. n - 1 /\ (i - 1) + 1 = i /\ i \in 1 .. n /\ i - 1 \in 1 .. n
          BY <1>1, <2>3, <3>2
        <4>2. new[i] = msgs[i - 1] /\ new[i + 1] = msgs[i]
          BY <2>3, <4>1
        <4>3. msgs[i - 1].role # msgs[(i - 1) + 1].role
          BY <4>1 DEF NoNeighbours
        <4>. QED BY <4>1, <4>2, <4>3
      <3>. QED BY <3>1, <3>2
    <2>7. Last(new) = Last(msgs) /\ new # <<>>
      BY <1>1, <2>3, SeqFacts DEF Last
    <2>. QED BY <2>2, <2>3, <2>4, <2>5, <2>6, <2>7 DEF Conversation, NoNeighbours
  <1>. QED BY <1>2, <1>3

LEMMA RolesNormalized ==
  ASSUME NEW msgs, Conversation(msgs), NoNeighbours(msgs), msgs # <<>>, msgs[1].role = "user"
  PROVE  LET new == NormalizeMessageRoles(msgs)
         IN  /\ Conversation(new) /\ new # <<>> /\ UserFirst(new)
             /\ Last(new).role = "assistant" <=> Last(msgs).role = "assistant"
  <1>. DEFINE n == Len(msgs)
              new == NormalizeMessageRoles(msgs)
  <1>1. IsSeq(msgs) /\ n \in Nat \ {0} /\ DOMAIN msgs = 1 .. n
    BY SeqFacts DEF Conversation
  <1>2. /\ new = [i \in DOMAIN msgs |-> new[i]]
        /\ \A i \in 1 .. n :
             new[i] = IF msgs[i].role \in {"user", "assistant"} THEN msgs[i]
                      ELSE [msgs[i] EXCEPT !.role = "user", !.reasoning = NoReasoning]
    BY <1>1 DEF NormalizeMessageRoles
  <1>. HIDE DEF new
  <1>3. IsSeq(new) /\ Len(new) = n
    BY <1>1, <1>2, SameLength
  <1>4. ASSUME NEW i \in 1 .. n
        PROVE  IsMessage(new[i]) /\ new[i].role = IF msgs[i].role = "assistant" THEN "assistant"
                                                  ELSE "user"
    <2>1. IsMessage(msgs[i])
      BY DEF Conversation
    <2>. QED BY ZenonT(60), <1>2, <2>1 DEF IsMessage, MessageFields
  <1>5. new # <<>>
    BY <1>1, <1>3, SeqFacts
  <1>6. UserFirst(new)
    <2>1. 1 \in 1 .. n /\ \A i \in 1 .. n - 1 : i \in 1 .. n /\ i + 1 \in 1 .. n
      BY <1>1
    <2>. QED BY <1>3, <1>4, <2>1 DEF UserFirst, NoNeighbours
  <1>7. n \in 1 .. n
    BY <1>1
  <1>. QED BY <1>3, <1>4, <1>5, <1>6, <1>7 DEF Conversation, Last, new

LEMMA AlternateStep ==
  ASSUME NEW out, Conversation(out), Alternating(out), NEW msg, IsMessage(msg),
         msg.role \in {"user", "assistant"},
         out = <<>> \/ Last(out).role = "assistant" => msg.role = "user"
  PROVE  LET new == Alternate(out, msg)
         IN  /\ Conversation(new) /\ Alternating(new) /\ new # <<>>
             /\ Last(new).role = msg.role
  <1>. DEFINE n == Len(out)
  <1>1. IsSeq(out) /\ n \in Nat /\ (out = <<>> <=> n = 0) /\ Last(out) = out[n]
    BY SeqFacts DEF Conversation, Last
  <1>2. n > 0 => Last(out).role = IF n % 2 = 1 THEN "user" ELSE "assistant"
    BY <1>1 DEF Alternating
  <1>3. ASSUME NEW s, Conversation(s), Alternating(s), NEW m, IsMessage(m),
               m.role = IF Len(s) % 2 = 0 THEN "user" ELSE "assistant"
        PROVE  LET new == Append(s, m)
               IN  /\ Conversation(new) /\ Alternating(new) /\ new # <<>>
                   /\ Last(new) = m /\ Len(new) = Len(s) + 1
    <2>. DEFINE new == Append(s, m)
    <2>1. /\ IsSeq(new) /\ Len(new) = Len(s) + 1 /\ Len(s) \in Nat
          /\ \A i \in 1 .. Len(s) : new[i] = s[i]
          /\ new[Len(s) + 1] = m
      BY <1>3, AppendFacts, SeqFacts DEF Conversation
    <2>. HIDE DEF new
    <2>2. new # <<>> /\ Last(new) = m
      BY <2>1, SeqFacts DEF Last
    <2>3. ASSUME NEW i \in 1 .. Len(new)
          PROVE  IsMessage(new[i]) /\ new[i].role = IF i % 2 = 1 THEN "user" ELSE "assistant"
      <3>1. CASE i \in 1 .. Len(s)
        BY <1>3, <2>1, <3>1 DEF Conversation, Alternating
      <3>2. CASE i = Len(s) + 1
        <4>1. Len(s) % 2 = 0 <=> i % 2 = 1
          BY <2>1, <3>2
        <4>. QED BY <1>3, <2>1, <3>2, <4>1
      <3>. QED BY <2>1, <3>1, <3>2
    <2>. QED BY <2>1, <2>2, <2>3 DEF Conversation, Alternating, new
  <1>4. CASE out # <<>> /\ msg.role = "user" /\ Last(out).role = "user"
    <2>. DEFINE between == Message("assistant", Placeholder)
                first == Append(out, between)
    <2>1. n % 2 = 1
      BY <1>1, <1>2, <1>4
    <2>2. IsMessage(between) /\ between.role = "assistant"
      <3>1. PICK role : role = "assistant"
        OBVIOUS
      <3>. QED BY <3>1, MessageIs
    <2>. HIDE DEF between
    <2>3. Conversation(first) /\ Alternating(first) /\ Len(first) = n + 1
      BY <1>3, <2>1, <2>2
    <2>4. Alternate(out, msg) = Append(first, msg)
      <3>1. IsSeq(out) /\ out \o <<between, msg>> = Append(Append(out, between), msg)
        <4>. DEFINE S == Range(out) \cup {between, msg}
        <4>1. out \in Seq(S) /\ between \in S /\ msg \in S
          BY <1>1 DEF IsSeq
        <4>. HIDE DEF S
        <4>. QED BY <1>1, <4>1
      <3>. QED BY <1>4, <3>1 DEF Alternate, between
    <2>5. (n + 1) % 2 = 0
      BY <1>1, <2>1
    <2>. HIDE DEF first
    <2>. QED BY <1>3, <1>4, <2>3, <2>4, <2>5
  <1>5. CASE ~(out # <<>> /\ msg.role = "user" /\ Last(out).role = "user")
    <2>1. Alternate(out, msg) = Append(out, msg)
      BY <1>5 DEF Alternate
    <2>2. msg.role = IF n % 2 = 0 THEN "user" ELSE "assistant"
      BY <1>1, <1>2, <1>5
    <2>. QED BY <1>3, <2>1, <2>2
  <1>. QED BY <1>4, <1>5

AlternateStages(h, msgs, n) ==
  /\ h[0] = <<>>
  /\ \A i \in 1 .. n : h[i] = Alternate(h[i - 1], msgs[i])

LEMMA AlternatedInStages ==
  ASSUME NEW msgs, NEW n \in Nat, DOMAIN msgs = 1 .. n
  PROVE  \E h : AlternateStages(h, msgs, n) /\ EnsureAlternatingRoles(msgs) = h[n]
  <1>1. \E h : /\ AlternateFold!Stages(h, <<>>, msgs, n)
               /\ AlternateFold!FoldLeft(Alternate, <<>>, msgs) = h[n]
    BY AlternateFold!StagesOfFold
  <1>2. AlternateFold!FoldLeft(Alternate, <<>>, msgs) = FoldLeft(Alternate, <<>>, msgs)
    BY DEF FoldLeft, MapThenFoldSet, Max,
           AlternateFold!FoldLeft, AlternateFold!MapThenFoldSet, AlternateFold!Max
  <1>. QED BY <1>1, <1>2 DEF AlternateFold!Stages, AlternateStages, EnsureAlternatingRoles

LEMMA RolesAlternated ==
  ASSUME NEW msgs, Conversation(msgs), msgs # <<>>, UserFirst(msgs)
  PROVE  LET new == EnsureAlternatingRoles(msgs)
         IN  /\ Conversation(new) /\ Alternating(new) /\ new # <<>>
             /\ Last(new).role = Last(msgs).role
  <1>. DEFINE n == Len(msgs)
  <1>1. n \in Nat \ {0} /\ DOMAIN msgs = 1 .. n
    BY SeqFacts DEF Conversation
  <1>2. PICK h : AlternateStages(h, msgs, n) /\ EnsureAlternatingRoles(msgs) = h[n]
    BY <1>1, AlternatedInStages
  <1>. DEFINE Good(k) == /\ Conversation(h[k]) /\ Alternating(h[k])
                         /\ h[k] = <<>> <=> k = 0
                         /\ k > 0 => Last(h[k]).role = msgs[k].role
              S == {k \in Nat : k <= n => Good(k)}
  <1>3. 0 \in S
    <2>1. Alternating(<<>>)
      BY DEF Alternating
    <2>. QED BY <1>2, <2>1, NothingMerged DEF AlternateStages
  <1>4. ASSUME NEW k \in Nat, k \in S PROVE k + 1 \in S
    <2>. SUFFICES ASSUME k + 1 <= n PROVE Good(k + 1)
      OBVIOUS
    <2>1. Good(k) /\ k + 1 \in 1 .. n /\ (k + 1) - 1 = k
      BY <1>1, <1>4
    <2>2. h[k + 1] = Alternate(h[k], msgs[k + 1])
      BY <1>2, <2>1 DEF AlternateStages
    <2>3. IsMessage(msgs[k + 1]) /\ msgs[k + 1].role \in {"user", "assistant"}
      BY <2>1 DEF Conversation, UserFirst
    <2>4. h[k] = <<>> \/ Last(h[k]).role = "assistant" => msgs[k + 1].role = "user"
      <3>1. CASE k = 0
        BY <3>1 DEF UserFirst
      <3>2. CASE k # 0
        <4>1. k \in 1 .. n - 1
          BY <1>1, <2>1, <3>2
        <4>2. "user" \in {msgs[k].role, msgs[k + 1].role}
          BY <4>1 DEF UserFirst
        <4>. QED BY <2>1, <3>2, <4>2
      <3>. QED BY <3>1, <3>2
    <2>5. Conversation(h[k]) /\ Alternating(h[k])
      BY <2>1
    <2>. QED BY <2>2, <2>3, <2>4, <2>5, AlternateStep
  <1>5. n \in S
    <2>. HIDE DEF S
    <2>. QED BY <1>1, <1>3, <1>4, Induction
  <1>6. Good(n)
    BY <1>1, <1>5
  <1>. QED BY <1>1, <1>2, <1>6 DEF Last

\* The whole chain.
LEMMA NormalizedRoles ==
  ASSUME NEW msgs, Conversation(msgs), msgs # <<>>
  PROVE  LET new == Normalized(msgs)
         IN  Conversation(new) /\ Alternating(new) /\ new # <<>>
  BY MergedRoles, FirstIsUser, RolesNormalized, RolesAlternated DEF Normalized

-----------------------------------------------------------------------------
(* From the messages to the history.                                       *)
EntryFields == {"by", "content", "images", "results", "uses", "reasoning"}

IsEntry(e) == e = [f \in EntryFields |-> e[f]]

By(i) == IF i % 2 = 1 THEN "user" ELSE "assistant"

\* A history that starts with the user, alternates, and ends with the assistant.
IsHistory(history) ==
  /\ IsSeq(history) /\ Len(history) % 2 = 0
  /\ \A i \in 1 .. Len(history) : IsEntry(history[i]) /\ history[i].by = By(i)

LEMMA EntryIs ==
  ASSUME NEW m, m.role \in {"user", "assistant"}
  PROVE  IsEntry(Entry(m)) /\ Entry(m).by = m.role
  BY DEF IsEntry, EntryFields, Entry, UserEntry, AssistantEntry

LEMMA AssistantEntryIs ==
  ASSUME NEW content, NEW uses, NEW reasoning
  PROVE  LET e == AssistantEntry(content, uses, reasoning)
         IN  IsEntry(e) /\ e.by = "assistant"
  BY DEF IsEntry, EntryFields, AssistantEntry

LEMMA SystemPromptKeepsRoles ==
  ASSUME NEW msgs, Conversation(msgs), Alternating(msgs), msgs # <<>>, NEW system
  PROVE  LET new == WithSystemPrompt(system, msgs)
         IN  Conversation(new) /\ Alternating(new) /\ new # <<>> /\ Len(new) = Len(msgs)
  <1>. DEFINE n == Len(msgs)
              text == system \o msgs[1].text
              first == [msgs[1] EXCEPT !.text = text]
              new == WithSystemPrompt(system, msgs)
  <1>1. IsSeq(msgs) /\ n \in Nat \ {0} /\ DOMAIN msgs = 1 .. n /\ IsMessage(msgs[1])
    BY SeqFacts DEF Conversation
  <1>2. new = [msgs EXCEPT ![1] = first]
    BY <1>1 DEF WithSystemPrompt
  <1>3. IsMessage(first) /\ first.role = msgs[1].role
    <2>. HIDE DEF text
    <2>. QED BY <1>1 DEF IsMessage, MessageFields
  <1>. HIDE DEF first, new
  <1>4. /\ new = [i \in DOMAIN msgs |-> new[i]] /\ new[1] = first
        /\ \A i \in 1 .. n : i # 1 => new[i] = msgs[i]
    <2>1. new = [i \in DOMAIN msgs |-> IF i = 1 THEN first ELSE msgs[i]]
      BY <1>2
    <2>2. 1 \in DOMAIN msgs
      BY <1>1
    <2>. QED BY <1>1, <2>1, <2>2
  <1>5. IsSeq(new) /\ Len(new) = n
    BY <1>1, <1>4, SameLength
  <1>6. new # <<>>
    BY <1>1, <1>5, SeqFacts
  <1>7. \A i \in 1 .. n : IsMessage(new[i]) /\ new[i].role = msgs[i].role
    BY <1>3, <1>4 DEF Conversation
  <1>. QED BY <1>5, <1>6, <1>7 DEF Conversation, Alternating, new

LEMMA KiroHistoryAlternates ==
  ASSUME NEW msgs, Conversation(msgs), Alternating(msgs), msgs # <<>>
  PROVE  IsHistory(KiroHistory(msgs))
  <1>. DEFINE n == Len(msgs)
              front == Front(msgs)
              built == BuildKiroHistory(front)
              last == AssistantEntry(Last(msgs).text, <<>>, NoReasoning)
  <1>1. /\ IsSeq(msgs) /\ n \in Nat \ {0} /\ Last(msgs) = msgs[n]
        /\ \A i \in 1 .. n : msgs[i].role = By(i)
    BY SeqFacts DEF Conversation, Last, Alternating, By
  <1>2. /\ IsSeq(front) /\ Len(front) = n - 1 /\ DOMAIN front = 1 .. n - 1
        /\ \A i \in 1 .. n - 1 : front[i] = msgs[i]
    BY <1>1, FrontFacts, SeqFacts
  <1>3. /\ built = [i \in DOMAIN front |-> built[i]]
        /\ \A i \in 1 .. n - 1 : built[i] = Entry(msgs[i])
    <2>. HIDE DEF front
    <2>1. built = [i \in DOMAIN front |-> Entry(front[i])]
      BY DEF BuildKiroHistory
    <2>. HIDE DEF built
    <2>. QED BY <1>2, <2>1
  <1>. HIDE DEF front, built
  <1>4. IsSeq(built) /\ Len(built) = n - 1
    BY <1>2, <1>3, SameLength
  <1>5. ASSUME NEW i \in 1 .. n - 1 PROVE IsEntry(built[i]) /\ built[i].by = By(i)
    <2>. DEFINE m == msgs[i]
    <2>1. m.role = By(i) /\ built[i] = Entry(m)
      BY SMTT(60), <1>1, <1>3
    <2>2. m.role \in {"user", "assistant"}
      BY <2>1 DEF By
    <2>. HIDE DEF m
    <2>. QED BY <2>1, <2>2, EntryIs
  <1>6. CASE Last(msgs).role = "assistant"
    <2>1. n % 2 = 0
      BY <1>1, <1>6 DEF By
    <2>2. KiroHistory(msgs) = built \o <<last>>
      BY <1>6 DEF KiroHistory, built, front
    <2>3. IsEntry(last) /\ last.by = "assistant"
      BY AssistantEntryIs
    <2>. DEFINE new == Append(built, last)
    <2>. HIDE DEF last
    <2>4. built \o <<last>> = new
      <3>. DEFINE S == Range(built) \cup {last}
      <3>1. built \in Seq(S) /\ last \in S
        BY <1>4 DEF IsSeq
      <3>. HIDE DEF S
      <3>. QED BY <3>1
    <2>5. /\ IsSeq(new) /\ Len(new) = n /\ new[n] = last
          /\ \A i \in 1 .. n - 1 : new[i] = built[i]
      BY <1>1, <1>4, AppendFacts
    <2>. HIDE DEF new
    <2>6. ASSUME NEW i \in 1 .. n PROVE IsEntry(new[i]) /\ new[i].by = By(i)
      <3>1. CASE i = n
        BY <2>1, <2>3, <2>5, <3>1 DEF By
      <3>2. CASE i # n
        <4>1. i \in 1 .. n - 1
          BY <1>1, <3>2
        <4>. QED BY <1>5, <2>5, <4>1
      <3>. QED BY <3>1, <3>2
    <2>. QED BY <2>1, <2>2, <2>4, <2>5, <2>6 DEF IsHistory
  <1>7. CASE Last(msgs).role # "assistant"
    <2>1. (n - 1) % 2 = 0
      BY <1>1, <1>7 DEF By
    <2>2. KiroHistory(msgs) = built \o <<>>
      BY <1>7 DEF KiroHistory, built, front
    <2>3. built \o <<>> = built
      BY <1>4 DEF IsSeq
    <2>. QED BY <1>4, <1>5, <2>1, <2>2, <2>3 DEF IsHistory
  <1>. QED BY <1>6, <1>7

LEMMA UntrimmedHistory ==
  ASSUME NEW u, Conversation(u.messages), u.messages # <<>>
  PROVE  IsHistory(UntrimmedPayload(u).history)
  <1>. DEFINE settled == IF u.tools = <<>> THEN StripAllToolContent(u.messages)
                         ELSE EnsureAssistantBeforeToolResults(u.messages)
              msgs == Normalized(settled)
              all == WithSystemPrompt(FullSystemPrompt(u), msgs)
  <1>1. Conversation(settled) /\ settled # <<>>
    <2>1. settled \in {StripAllToolContent(u.messages), EnsureAssistantBeforeToolResults(u.messages)}
      OBVIOUS
    <2>. HIDE DEF settled
    <2>2. Conversation(settled) /\ Len(settled) = Len(u.messages)
      BY <2>1, ToolsSettled
    <2>. QED BY <2>2, SeqFacts DEF Conversation
  <1>2. Conversation(msgs) /\ Alternating(msgs) /\ msgs # <<>>
    <2>. HIDE DEF settled
    <2>. QED BY <1>1, NormalizedRoles
  <1>3. Conversation(all) /\ Alternating(all) /\ all # <<>>
    <2>. HIDE DEF msgs
    <2>. QED BY <1>2, SystemPromptKeepsRoles
  <1>4. UntrimmedPayload(u).history = KiroHistory(all)
    BY DEF UntrimmedPayload, PreparedMessages
  <1>. HIDE DEF all
  <1>. QED BY <1>3, <1>4, KiroHistoryAlternates


-----------------------------------------------------------------------------
(* What the cuts leave.                                                    *)

\* The recursion of Cut, for any payloads kept and any places to stop at: it has
\* a solution if it stops at the last three places.
Cuts(cut, from, length, kept, stop) ==
  cut = [n \in from .. length |-> IF n \in stop THEN kept[n] ELSE cut[n + 2]]

LEMMA CutExists ==
  ASSUME NEW length \in Nat, NEW kept, NEW stop,
         \A n \in 0 .. length : length - n <= 2 => n \in stop
  PROVE  \E cut : Cuts(cut, 0, length, kept, stop)
  <1>. DEFINE S == {k \in Nat : k <= length => \E cut : Cuts(cut, length - k, length, kept, stop)}
  <1>1. 0 \in S
    <2>. DEFINE cut == [n \in length .. length |-> kept[n]]
    <2>1. cut = [n \in length .. length |-> IF n \in stop THEN kept[n] ELSE cut[n + 2]]
      OBVIOUS
    <2>. HIDE DEF cut
    <2>2. Cuts(cut, length - 0, length, kept, stop)
      BY <2>1 DEF Cuts
    <2>. QED BY <2>2
  <1>2. ASSUME NEW k \in Nat, k \in S PROVE k + 1 \in S
    <2>. SUFFICES ASSUME k + 1 <= length
                  PROVE  \E cut : Cuts(cut, length - (k + 1), length, kept, stop)
      OBVIOUS
    <2>. DEFINE from == length - (k + 1)
    <2>1. /\ from \in 0 .. length /\ length - k = from + 1
          /\ from \notin stop => from + 2 \in from + 1 .. length
      OBVIOUS
    <2>2. PICK old : Cuts(old, from + 1, length, kept, stop)
      BY <1>2, <2>1
    <2>. DEFINE cut == [n \in from .. length |->
                          IF n = from THEN IF n \in stop THEN kept[n] ELSE old[n + 2]
                          ELSE old[n]]
    <2>. HIDE DEF from
    <2>3. ASSUME NEW n \in from .. length
          PROVE  cut[n] = IF n \in stop THEN kept[n] ELSE cut[n + 2]
      <3>1. CASE n = from
        <4>1. n \notin stop => n + 2 \in from .. length /\ n + 2 # from
          BY <2>1, <3>1
        <4>. QED BY <3>1, <4>1
      <3>2. CASE n # from
        <4>1. n \in from + 1 .. length /\ cut[n] = old[n]
          BY <2>1, <3>2
        <4>2. old[n] = IF n \in stop THEN kept[n] ELSE old[n + 2]
          BY <2>2, <4>1 DEF Cuts
        <4>3. n \notin stop => n + 2 \in from .. length /\ n + 2 # from
          BY <2>1, <4>1
        <4>. QED BY <4>1, <4>2, <4>3
      <3>. QED BY <3>1, <3>2
    <2>4. cut = [n \in from .. length |-> cut[n]]
      OBVIOUS
    <2>. HIDE DEF cut
    <2>5. Cuts(cut, from, length, kept, stop)
      BY <2>3, <2>4 DEF Cuts
    <2>. QED BY <2>5 DEF from
  <1>3. length \in S
    <2>. HIDE DEF S
    <2>. QED BY <1>1, <1>2, Induction
  <1>. QED BY <1>3

\* It stops at the first place of its steps of two where it can.
LEMMA CutStops ==
  ASSUME NEW length \in Nat, NEW kept, NEW stop,
         \A n \in 0 .. length : length - n <= 2 => n \in stop,
         NEW cut, Cuts(cut, 0, length, kept, stop)
  PROVE  \E c \in 0 .. length :
           /\ c % 2 = 0 /\ c \in stop /\ cut[0] = kept[c]
           /\ c > 0 => c - 2 \in 0 .. length /\ c - 2 \notin stop
  <1>. DEFINE EndsAt(n, c) == /\ (c - n) % 2 = 0 /\ c \in stop /\ cut[n] = kept[c]
                              /\ c > n => c - 2 \in n .. length /\ c - 2 \notin stop
              S == {k \in Nat : \A n \in 0 .. length :
                                  length - n <= k => \E c \in n .. length : EndsAt(n, c)}
  <1>1. \A n \in 0 .. length : cut[n] = IF n \in stop THEN kept[n] ELSE cut[n + 2]
    BY DEF Cuts
  <1>2. ASSUME NEW n \in 0 .. length, n \in stop PROVE \E c \in n .. length : EndsAt(n, c)
    <2>1. EndsAt(n, n)
      BY <1>1, <1>2
    <2>. HIDE DEF EndsAt
    <2>. QED BY <2>1
  <1>3. 0 \in S
    BY <1>2
  <1>4. ASSUME NEW k \in Nat, k \in S PROVE k + 1 \in S
    <2>. SUFFICES ASSUME NEW n \in 0 .. length, length - n <= k + 1
                  PROVE  \E c \in n .. length : EndsAt(n, c)
      OBVIOUS
    <2>1. CASE n \notin stop
      <3>1. n + 2 \in 0 .. length /\ length - (n + 2) <= k
        BY <2>1
      <3>2. PICK c \in n + 2 .. length : EndsAt(n + 2, c)
        BY <1>4, <3>1
      <3>3. cut[n] = cut[n + 2]
        BY <1>1, <2>1
      <3>4. /\ (c - n) % 2 = 0
            /\ c - 2 \in n .. length /\ c - 2 \notin stop
        <4>1. (c - (n + 2)) % 2 = 0
          BY <3>2
        <4>2. (c - n) % 2 = 0
          BY <4>1
        <4>3. CASE c > n + 2
          BY <3>2, <4>3, <4>2
        <4>4. CASE c = n + 2
          BY <2>1, <4>4, <4>2
        <4>. QED BY <4>3, <4>4
      <3>. QED BY <3>2, <3>3, <3>4
    <2>. QED BY <1>2, <2>1
  <1>5. length \in S
    <2>. HIDE DEF S
    <2>. QED BY <1>3, <1>4, Induction
  <1>6. PICK c \in 0 .. length : EndsAt(0, c)
    <2>. HIDE DEF EndsAt
    <2>1. 0 \in 0 .. length /\ length - 0 <= length
      OBVIOUS
    <2>. QED BY <1>5, <2>1
  <1>. QED BY <1>6

LEMMA EvenSteps ==
  ASSUME NEW c \in Nat, c % 2 = 0
  PROVE  /\ \A n \in Nat : (c + n) % 2 = n % 2
         /\ \A n \in Nat : n % 2 = 0 => (n - c) % 2 = 0
  OBVIOUS

PayloadFields == {"history", "content", "images", "results", "tools"}

IsPayload(payload) ==
  payload = [f \in PayloadFields |-> payload[f]] /\ IsHistory(payload.history)

\* The payload without the first n entries of its history.
Without(payload, n) ==
  [payload EXCEPT !.history = SubSeq(payload.history, n + 1, Len(payload.history))]

\* A place the cuts stop at.
CutHere(payload, max, c) ==
  /\ c \in 0 .. Len(payload.history) /\ c % 2 = 0
  /\ Len(payload.history) - c <= 2 \/ ~(checkPayloadSize(Without(payload, c)) > max)
  /\ c > 0 => /\ c - 2 \in 0 .. Len(payload.history)
              /\ checkPayloadSize(Without(payload, c - 2)) > max

LEMMA WithoutFirst ==
  ASSUME NEW payload, IsPayload(payload), NEW c \in 0 .. Len(payload.history)
  PROVE  LET new == Without(payload, c)
         IN  /\ new = [payload EXCEPT !.history = new.history]
             /\ new = [f \in PayloadFields |-> new[f]]
             /\ \A f \in PayloadFields \ {"history"} : new[f] = payload[f]
             /\ new.history = SubSeq(payload.history, c + 1, Len(payload.history))
             /\ Len(new.history) = Len(payload.history) - c
             /\ \A i \in 1 .. Len(new.history) : new.history[i] = payload.history[c + i]
             /\ c % 2 = 0 => IsHistory(new.history)
  <1>. DEFINE h == payload.history
              tail == SubSeq(h, c + 1, Len(h))
              new == Without(payload, c)
  <1>1. /\ IsSeq(tail) /\ Len(tail) = Len(h) - c /\ Len(h) - c \in Nat /\ Len(h) \in Nat
        /\ \A i \in 1 .. Len(h) - c : tail[i] = h[c + i]
    BY TailFacts, SeqFacts DEF IsPayload, IsHistory
  <1>2. new = [payload EXCEPT !.history = tail]
    BY DEF Without
  <1>3. /\ new.history = tail /\ new = [f \in PayloadFields |-> new[f]]
        /\ \A f \in PayloadFields \ {"history"} : new[f] = payload[f]
    <2>. HIDE DEF tail, new
    <2>. QED BY <1>2 DEF IsPayload, PayloadFields
  <1>4. ASSUME c % 2 = 0 PROVE IsHistory(tail)
    <2>1. (Len(h) - c) % 2 = 0
      <3>1. Len(h) % 2 = 0
        BY DEF IsPayload, IsHistory
      <3>2. c \in Nat /\ Len(h) \in Nat
        BY <1>1
      <3>. HIDE DEF tail, h
      <3>. QED BY <1>4, <3>1, <3>2, EvenSteps
    <2>2. ASSUME NEW i \in 1 .. Len(h) - c PROVE IsEntry(tail[i]) /\ tail[i].by = By(i)
      <3>1. c + i \in 1 .. Len(h) /\ (c + i) % 2 = i % 2 /\ tail[i] = h[c + i]
        <4>1. c \in Nat /\ i \in Nat /\ c + i \in 1 .. Len(h)
          BY SMTT(60), <1>1
        <4>2. tail[i] = h[c + i]
          BY <1>1
        <4>. HIDE DEF tail
        <4>. QED BY <1>4, <4>1, <4>2, EvenSteps
      <3>2. IsEntry(h[c + i]) /\ h[c + i].by = By(c + i)
        BY <3>1 DEF IsPayload, IsHistory
      <3>3. By(c + i) = By(i)
        BY <3>1 DEF By
      <3>. QED BY <3>1, <3>2, <3>3
    <2>. HIDE DEF tail
    <2>. QED BY <1>1, <2>1, <2>2 DEF IsHistory
  <1>. HIDE DEF tail
  <1>5. new = [payload EXCEPT !.history = new.history]
    BY <1>2, <1>3
  <1>6. new.history = SubSeq(payload.history, c + 1, Len(payload.history))
    BY <1>3 DEF tail
  <1>. HIDE DEF new
  <1>. QED BY <1>1, <1>3, <1>4, <1>5, <1>6 DEF new

LEMMA CutIs ==
  ASSUME NEW payload, IsPayload(payload), NEW max
  PROVE  \E c : CutHere(payload, max, c) /\ Cut(payload, max) = Without(payload, c)
  <1>. DEFINE length == Len(payload.history)
              kept == [n \in 0 .. length |-> Without(payload, n)]
              stop == {n \in 0 .. length : \/ ~(Len(kept[n].history) > 2)
                                           \/ ~(checkPayloadSize(kept[n]) > max)}
              Body(f) == [n \in 0 .. length |->
                            LET now == Without(payload, n)
                            IN  IF Len(now.history) > 2 /\ checkPayloadSize(now) > max
                                THEN f[n + 2] ELSE now]
  <1>1. length \in Nat
    BY SeqFacts DEF IsPayload, IsHistory
  <1>2. \A n \in 0 .. length : kept[n] = Without(payload, n) /\ Len(kept[n].history) = length - n
    BY WithoutFirst
  <1>3. \A n \in 0 .. length : length - n <= 2 => n \in stop
    <2>. HIDE DEF kept
    <2>. QED BY <1>1, <1>2
  <1>4. Cut(payload, max) = (CHOOSE f : f = Body(f))[0]
    BY DEF Cut, Without
  <1>5. ASSUME NEW f PROVE f = Body(f) <=> Cuts(f, 0, length, kept, stop)
    <2>1. ASSUME NEW n \in 0 .. length
          PROVE  (Len(Without(payload, n).history) > 2
                    /\ checkPayloadSize(Without(payload, n)) > max) <=> n \notin stop
      BY <1>2
    <2>. HIDE DEF stop
    <2>. QED BY <1>2, <2>1 DEF Cuts
  <1>6. \A n \in 0 .. length : n \in stop <=>
          (length - n <= 2 \/ ~(checkPayloadSize(Without(payload, n)) > max))
    BY <1>1, <1>2
  <1>. HIDE DEF Body, kept, stop
  <1>7. PICK cut : Cuts(cut, 0, length, kept, stop) /\ Cut(payload, max) = cut[0]
    <2>1. \E f : Cuts(f, 0, length, kept, stop)
      BY <1>1, <1>3, CutExists
    <2>2. \E f : f = Body(f)
      BY <1>5, <2>1
    <2>3. (CHOOSE f : f = Body(f)) = Body(CHOOSE f : f = Body(f))
      BY <2>2
    <2>. QED BY <1>4, <1>5, <2>3
  <1>8. PICK c \in 0 .. length :
           /\ c % 2 = 0 /\ c \in stop /\ cut[0] = kept[c]
           /\ c > 0 => c - 2 \in 0 .. length /\ c - 2 \notin stop
    BY <1>1, <1>3, <1>7, CutStops
  <1>. QED BY <1>2, <1>6, <1>7, <1>8 DEF CutHere

AlignStages(h, history, n) ==
  /\ h[0] = <<>>
  /\ \A i \in 1 .. n : h[i] = Aligned(h[i - 1], history[i])

\* A history that starts with the user stays as it is.
LEMMA AlignedAlready ==
  ASSUME NEW history, IsHistory(history)
  PROVE  alignToUserMessage(history) = history
  <1>. DEFINE n == Len(history)
  <1>1. IsSeq(history) /\ n \in Nat /\ DOMAIN history = 1 .. n
    BY SeqFacts DEF IsHistory
  <1>2. PICK h : AlignStages(h, history, n) /\ alignToUserMessage(history) = h[n]
    <2>1. PICK h : /\ AlignFold!Stages(h, <<>>, history, n)
                   /\ AlignFold!FoldLeft(Aligned, <<>>, history) = h[n]
      BY <1>1, AlignFold!StagesOfFold
    <2>2. AlignFold!FoldLeft(Aligned, <<>>, history) = FoldLeft(Aligned, <<>>, history)
      BY DEF FoldLeft, MapThenFoldSet, Max,
             AlignFold!FoldLeft, AlignFold!MapThenFoldSet, AlignFold!Max
    <2>. QED BY <2>1, <2>2 DEF AlignFold!Stages, AlignStages, alignToUserMessage
  <1>. DEFINE Good(k) == /\ IsSeq(h[k]) /\ Len(h[k]) = k
                         /\ \A j \in 1 .. k : h[k][j] = history[j]
              S == {k \in Nat : k <= n => Good(k)}
  <1>3. 0 \in S
    <2>1. IsSeq(<<>>) /\ Len(<<>>) = 0
      BY DEF IsSeq
    <2>. QED BY <1>2, <2>1 DEF AlignStages
  <1>4. ASSUME NEW k \in Nat, k \in S PROVE k + 1 \in S
    <2>. SUFFICES ASSUME k + 1 <= n PROVE Good(k + 1)
      OBVIOUS
    <2>1. IsSeq(h[k]) /\ Len(h[k]) = k /\ \A j \in 1 .. k : h[k][j] = history[j]
      BY <1>1, <1>4
    <2>2. k + 1 \in 1 .. n /\ (k + 1) - 1 = k
      BY <1>1
    <2>3. h[k + 1] = Aligned(h[k], history[k + 1])
      BY <1>2, <2>2 DEF AlignStages
    <2>4. h[k] # <<>> \/ history[k + 1].by = "user"
      <3>1. CASE k = 0
        BY <2>2, <3>1 DEF IsHistory, By
      <3>2. CASE k # 0
        BY <2>1, <3>2, SeqFacts
      <3>. QED BY <3>1, <3>2
    <2>5. h[k + 1] = Append(h[k], history[k + 1])
      BY <2>3, <2>4 DEF Aligned
    <2>6. /\ IsSeq(h[k + 1]) /\ Len(h[k + 1]) = k + 1
          /\ \A j \in 1 .. k : h[k + 1][j] = h[k][j]
          /\ h[k + 1][k + 1] = history[k + 1]
      BY <2>1, <2>5, AppendFacts
    <2>7. ASSUME NEW j \in 1 .. k + 1 PROVE h[k + 1][j] = history[j]
      <3>1. j \in 1 .. k \/ j = k + 1
        OBVIOUS
      <3>. QED BY <2>1, <2>6, <3>1
    <2>. QED BY <2>6, <2>7
  <1>5. Good(n)
    <2>1. n \in S
      <3>. HIDE DEF S
      <3>. QED BY <1>1, <1>3, <1>4, Induction
    <2>. QED BY <1>1, <2>1
  <1>6. h[n] = [j \in 1 .. n |-> h[n][j]] /\ history = [j \in 1 .. n |-> history[j]]
    BY <1>1, <1>5, SeqFacts
  <1>. QED BY <1>2, <1>5, <1>6

LEMMA RepairedHistory ==
  ASSUME NEW history, IsHistory(history)
  PROVE  LET new == repairOrphanedToolResults(history)
         IN  /\ IsHistory(new) /\ Len(new) = Len(history)
             /\ \A i \in 1 .. Len(history) :
                  /\ new[i].content = history[i].content
                  /\ new[i].uses = history[i].uses
                  /\ new[i].reasoning = history[i].reasoning
  <1>. DEFINE n == Len(history)
              Left(i) == SelectSeq(history[i].results, LAMBDA r : r.id \in ValidIDs(history, i))
              new == repairOrphanedToolResults(history)
  <1>1. IsSeq(history) /\ n \in Nat /\ DOMAIN history = 1 .. n
    BY SeqFacts DEF IsHistory
  <1>2. new = [i \in 1 .. n |-> [history[i] EXCEPT !.results = Left(i)]]
    BY <1>1 DEF repairOrphanedToolResults
  <1>. HIDE DEF Left, new
  <1>3. IsSeq(new) /\ Len(new) = n
    <2>1. new = [i \in 1 .. n |-> new[i]]
      BY <1>2
    <2>. QED BY <1>1, <2>1, ASequence
  <1>4. ASSUME NEW i \in 1 .. n
        PROVE  /\ IsEntry(new[i]) /\ new[i].by = By(i)
               /\ new[i].content = history[i].content
               /\ new[i].uses = history[i].uses
               /\ new[i].reasoning = history[i].reasoning
    <2>. DEFINE e == history[i]
    <2>1. IsEntry(e) /\ e.by = By(i)
      BY <1>1 DEF IsHistory
    <2>2. new[i] = [e EXCEPT !.results = Left(i)]
      BY <1>2
    <2>. HIDE DEF e
    <2>. QED BY <2>1, <2>2 DEF IsEntry, EntryFields, e
  <1>5. n % 2 = 0
    BY DEF IsHistory
  <1>. QED BY <1>3, <1>4, <1>5 DEF IsHistory, new

\* What the limit makes of a payload.
TrimmedFrom(new, payload, max) ==
  \E c : /\ CutHere(payload, max, c)
         /\ Len(new.history) = Len(payload.history) - c
         /\ \A i \in 1 .. Len(new.history) :
              /\ new.history[i].content = payload.history[c + i].content
              /\ new.history[i].uses = payload.history[c + i].uses
              /\ new.history[i].reasoning = payload.history[c + i].reasoning

LEMMA TrimmedPayload ==
  ASSUME NEW payload, IsPayload(payload), NEW max
  PROVE  LET new == TrimPayloadToLimit(payload, max)
         IN  /\ IsPayload(new) /\ TrimmedFrom(new, payload, max)
             /\ \A f \in PayloadFields \ {"history"} : new[f] = payload[f]
  <1>1. PICK c : CutHere(payload, max, c) /\ Cut(payload, max) = Without(payload, c)
    BY CutIs
  <1>. DEFINE cut == Without(payload, c)
              repaired == repairOrphanedToolResults(cut.history)
              new == TrimPayloadToLimit(payload, max)
  <1>2. /\ cut = [f \in PayloadFields |-> cut[f]] /\ IsHistory(cut.history)
        /\ \A f \in PayloadFields \ {"history"} : cut[f] = payload[f]
        /\ Len(cut.history) = Len(payload.history) - c
        /\ \A i \in 1 .. Len(cut.history) : cut.history[i] = payload.history[c + i]
    BY <1>1, WithoutFirst DEF CutHere
  <1>3. new = [cut EXCEPT !.history = repaired]
    BY <1>1, <1>2, AlignedAlready DEF TrimPayloadToLimit
  <1>. HIDE DEF cut, new
  <1>4. /\ IsHistory(repaired) /\ Len(repaired) = Len(cut.history)
        /\ \A i \in 1 .. Len(cut.history) :
             /\ repaired[i].content = cut.history[i].content
             /\ repaired[i].uses = cut.history[i].uses
             /\ repaired[i].reasoning = cut.history[i].reasoning
    BY <1>2, RepairedHistory
  <1>. HIDE DEF repaired
  <1>5. /\ new = [f \in PayloadFields |-> new[f]] /\ new.history = repaired
        /\ \A f \in PayloadFields \ {"history"} : new[f] = payload[f]
    BY <1>2, <1>3 DEF PayloadFields
  <1>6. TrimmedFrom(new, payload, max)
    <2>1. Len(new.history) = Len(payload.history) - c
      BY <1>2, <1>4, <1>5
    <2>2. ASSUME NEW i \in 1 .. Len(new.history)
          PROVE  /\ new.history[i].content = payload.history[c + i].content
                 /\ new.history[i].uses = payload.history[c + i].uses
                 /\ new.history[i].reasoning = payload.history[c + i].reasoning
      <3>1. i \in 1 .. Len(cut.history) /\ new.history = repaired
        BY <1>4, <1>5
      <3>. QED BY <1>2, <1>4, <3>1
    <2>. QED BY <1>1, <2>1, <2>2 DEF TrimmedFrom
  <1>. QED BY <1>4, <1>5, <1>6 DEF IsPayload, new

-----------------------------------------------------------------------------
(* From a client's messages to a conversation.                             *)

\* Sequences put together.
FlattenStages(h, seqs, n) ==
  h = [i \in 1 .. n |-> IF i = 1 THEN seqs[i] ELSE h[i - 1] \o seqs[i]]

LEMMA FlattenExists ==
  ASSUME NEW seqs, NEW n \in Nat
  PROVE  \E h : FlattenStages(h, seqs, n)
  <1>. DEFINE S == {k \in Nat : \E h : FlattenStages(h, seqs, k)}
  <1>1. 0 \in S
    <2>. DEFINE h == [i \in 1 .. 0 |-> i]
    <2>1. h = [i \in 1 .. 0 |-> IF i = 1 THEN seqs[i] ELSE h[i - 1] \o seqs[i]]
      OBVIOUS
    <2>. QED BY <2>1 DEF FlattenStages
  <1>2. ASSUME NEW k \in Nat, k \in S PROVE k + 1 \in S
    <2>1. PICK old : FlattenStages(old, seqs, k)
      BY <1>2
    <2>. DEFINE h == [i \in 1 .. k + 1 |->
                        IF i <= k THEN old[i]
                        ELSE IF i = 1 THEN seqs[i] ELSE old[i - 1] \o seqs[i]]
    <2>2. ASSUME NEW i \in 1 .. k + 1
          PROVE  h[i] = IF i = 1 THEN seqs[i] ELSE h[i - 1] \o seqs[i]
      <3>1. CASE i <= k
        <4>1. old[i] = IF i = 1 THEN seqs[i] ELSE old[i - 1] \o seqs[i]
          <5>1. i \in 1 .. k
            BY <3>1
          <5>. QED BY <2>1, <5>1 DEF FlattenStages
        <4>2. i # 1 => h[i - 1] = old[i - 1]
          BY <3>1
        <4>. QED BY <3>1, <4>1, <4>2
      <3>2. CASE ~(i <= k)
        <4>1. i # 1 => h[i - 1] = old[i - 1]
          BY <3>2
        <4>. QED BY <3>2, <4>1
      <3>. QED BY <3>1, <3>2
    <2>3. h = [i \in 1 .. k + 1 |-> h[i]]
      OBVIOUS
    <2>. HIDE DEF h
    <2>4. FlattenStages(h, seqs, k + 1)
      BY <2>2, <2>3 DEF FlattenStages
    <2>. QED BY <2>4
  <1>3. n \in S
    <2>. HIDE DEF S
    <2>. QED BY <1>1, <1>2, Induction
  <1>. QED BY <1>3

LEMMA FlattenIs ==
  ASSUME NEW seqs, NEW n \in Nat \ {0}, Len(seqs) = n
  PROVE  \E h : /\ FlattenSeq(seqs) = h[n] /\ h[1] = seqs[1]
                /\ \A i \in 1 .. n - 1 : h[i + 1] = h[i] \o seqs[i + 1]
  <1>. DEFINE h == CHOOSE g : g = [i \in 1 .. n |-> IF i = 1 THEN seqs[i] ELSE g[i - 1] \o seqs[i]]
  <1>1. FlattenSeq(seqs) = h[n]
    BY DEF FlattenSeq
  <1>2. FlattenStages(h, seqs, n)
    BY FlattenExists DEF FlattenStages
  <1>. HIDE DEF h
  <1>3. h[1] = seqs[1]
    BY <1>2 DEF FlattenStages
  <1>4. ASSUME NEW i \in 1 .. n - 1 PROVE h[i + 1] = h[i] \o seqs[i + 1]
    <2>1. i + 1 \in 1 .. n /\ i + 1 # 1 /\ (i + 1) - 1 = i
      OBVIOUS
    <2>. QED BY <1>2, <2>1 DEF FlattenStages
  <1>. QED BY ZenonT(60), <1>1, <1>3, <1>4

LEMMA FlattenedIsSeq ==
  ASSUME NEW seqs, IsSeq(seqs), \A i \in 1 .. Len(seqs) : IsSeq(seqs[i])
  PROVE  IsSeq(FlattenSeq(seqs))
  <1>. DEFINE n == Len(seqs)
  <1>1. n \in Nat
    BY SeqFacts
  <1>2. CASE n = 0
    BY <1>2 DEF FlattenSeq
  <1>3. CASE n # 0
    <2>1. PICK h : /\ FlattenSeq(seqs) = h[n] /\ h[1] = seqs[1]
                   /\ \A i \in 1 .. n - 1 : h[i + 1] = h[i] \o seqs[i + 1]
      <3>1. n \in Nat \ {0} /\ Len(seqs) = n
        BY <1>1, <1>3
      <3>. HIDE DEF n
      <3>. QED BY <3>1, FlattenIs
    <2>. DEFINE S == {k \in Nat : k + 1 <= n => IsSeq(h[k + 1])}
    <2>2. 0 \in S
      <3>1. 1 \in 1 .. n /\ 0 + 1 = 1
        BY <1>1, <1>3
      <3>2. IsSeq(h[0 + 1])
        BY <2>1, <3>1
      <3>. QED BY <3>2
    <2>3. ASSUME NEW k \in Nat, k \in S PROVE k + 1 \in S
      <3>. SUFFICES ASSUME (k + 1) + 1 <= n PROVE IsSeq(h[(k + 1) + 1])
        OBVIOUS
      <3>1. IsSeq(h[k + 1]) /\ k + 1 \in 1 .. n - 1 /\ (k + 1) + 1 \in 1 .. n
        BY <1>1, <2>3
      <3>2. h[(k + 1) + 1] = h[k + 1] \o seqs[(k + 1) + 1]
        BY <2>1, <3>1
      <3>. QED BY <3>1, <3>2, ConcatFacts
    <2>4. n - 1 \in S
      <3>. HIDE DEF S
      <3>. QED BY <1>1, <1>3, <2>2, <2>3, Induction
    <2>5. (n - 1) + 1 = n
      BY <1>1
    <2>. QED BY <2>1, <2>4, <2>5
  <1>. QED BY <1>2, <1>3

LEMMA AnthropicConversation ==
  ASSUME NEW msgs, IsSeq(msgs), NEW model
  PROVE  LET new == attachNativeReasoning(msgs, ConvertAnthropicMessages(msgs), model)
         IN  /\ Conversation(new) /\ Len(new) = Len(msgs)
             /\ IsSeq(ConvertAnthropicMessages(msgs))
             /\ Len(ConvertAnthropicMessages(msgs)) = Len(msgs)
  <1>. DEFINE n == Len(msgs)
              converted == ConvertAnthropicMessages(msgs)
              new == attachNativeReasoning(msgs, converted, model)
  <1>1. n \in Nat /\ DOMAIN msgs = 1 .. n
    BY SeqFacts
  <1>2. converted = [i \in 1 .. n |-> ConvertAnthropicMessage(msgs[i])]
    BY <1>1 DEF ConvertAnthropicMessages
  <1>. HIDE DEF converted, n
  <1>3. IsSeq(converted) /\ Len(converted) = n /\ DOMAIN converted = 1 .. n
    <2>1. converted = [i \in 1 .. n |-> converted[i]]
      BY <1>2
    <2>. QED BY <1>1, <2>1, ASequence, SeqFacts
  <1>4. ASSUME NEW m PROVE IsMessage(ConvertAnthropicMessage(m))
    <2>. DEFINE plain == Message(m.role, ExtractTextContent(m.content))
                calls == ExtractToolUsesFromAnthropicContent(m.content)
                results == ExtractToolResultsFromAnthropicContent(m.content)
                images == ExtractImagesFromContent(m.content)
                            \o ExtractImagesFromToolResults(m.content)
    <2>1. IsMessage(plain)
      BY MessageIs
    <2>2. ConvertAnthropicMessage(m) \in {plain, [plain EXCEPT !.calls = calls],
                                          [plain EXCEPT !.results = results, !.images = images]}
      <3>. HIDE DEF calls, results, images
      <3>. QED BY DEF ConvertAnthropicMessage, calls, results, images
    <2>. HIDE DEF plain, calls, results, images
    <2>. QED BY <2>1, <2>2 DEF IsMessage, MessageFields
  <1>5. new = [i \in 1 .. n |-> new[i]]
        /\ \A i \in 1 .. n : \/ new[i] = converted[i]
                             \/ \E x : new[i] = [converted[i] EXCEPT !.reasoning = x]
    BY <1>3 DEF attachNativeReasoning
  <1>. HIDE DEF new
  <1>6. ASSUME NEW i \in 1 .. n PROVE IsMessage(new[i])
    <2>. DEFINE m == converted[i]
    <2>1. IsMessage(m)
      BY <1>2, <1>4
    <2>2. new[i] = m \/ \E x : new[i] = [m EXCEPT !.reasoning = x]
      BY <1>5
    <2>. HIDE DEF m
    <2>. QED BY <2>1, <2>2 DEF IsMessage, MessageFields
  <1>7. IsSeq(new) /\ Len(new) = n
    BY <1>1, <1>5, ASequence
  <1>. QED BY <1>3, <1>6, <1>7 DEF Conversation, new, n, converted

\* The two lists an OpenAI conversation is gathered in.
IsGathered(state) ==
  /\ state = [f \in {"out", "pending"} |-> state[f]]
  /\ Conversation(state.out) /\ IsMessage(state.pending)

LEMMA Appended ==
  ASSUME NEW msgs, Conversation(msgs), NEW m, IsMessage(m)
  PROVE  Conversation(Append(msgs, m))
  <1>. DEFINE n == Len(msgs)
              new == Append(msgs, m)
  <1>1. IsSeq(msgs) /\ n \in Nat
    BY SeqFacts DEF Conversation
  <1>2. /\ IsSeq(new) /\ Len(new) = n + 1 /\ new[n + 1] = m
        /\ \A i \in 1 .. n : new[i] = msgs[i]
    BY <1>1, AppendFacts
  <1>. HIDE DEF new
  <1>3. ASSUME NEW i \in 1 .. n + 1 PROVE IsMessage(new[i])
    <2>1. i \in 1 .. n \/ i = n + 1
      BY <1>1
    <2>. QED BY <1>2, <2>1 DEF Conversation
  <1>. QED BY <1>2, <1>3 DEF Conversation, new

LEMMA FlushGathers ==
  ASSUME NEW state, IsGathered(state)
  PROVE  IsGathered(flushPending(state))
  <1>. DEFINE out == Append(state.out, state.pending)
  <1>1. flushPending(state) \in {state, [out |-> out, pending |-> NoPending]}
    BY DEF flushPending
  <1>2. Conversation(out)
    BY Appended DEF IsGathered
  <1>3. IsMessage(NoPending)
    BY MessageIs DEF NoPending
  <1>. HIDE DEF out
  <1>. QED BY <1>1, <1>2, <1>3 DEF IsGathered

LEMMA OpenAIMessageIs ==
  ASSUME NEW m
  PROVE  IsMessage(ConvertOpenAIMessage(m))
  <1>. DEFINE plain == Message(m.role, ExtractTextContent(m.content))
              results == extractToolResultsFromOpenAI(m.content)
              images == ExtractImagesFromContent(m.content)
  <1>1. IsMessage(plain)
    BY MessageIs
  <1>2. ConvertOpenAIMessage(m) \in {plain, [plain EXCEPT !.calls = m.calls],
                                     [plain EXCEPT !.results = results, !.images = images]}
    <2>. HIDE DEF results, images
    <2>. QED BY DEF ConvertOpenAIMessage, results, images
  <1>. HIDE DEF plain, results, images
  <1>. QED BY <1>1, <1>2 DEF IsMessage, MessageFields

LEMMA StepGathers ==
  ASSUME NEW state, IsGathered(state), NEW m
  PROVE  IsGathered(Step(state, m))
  <1>1. CASE m.role = "system"
    BY <1>1 DEF Step
  <1>2. CASE m.role = "tool"
    <2>. DEFINE p == state.pending
                results == Append(p.results, [id |-> m.id,
                             text |-> OrEmptyResult(ExtractTextContent(m.content))])
                images == p.images \o ExtractImagesFromContent(m.content)
                new == [p EXCEPT !.results = results, !.images = images]
    <2>1. Step(state, m) = [state EXCEPT !.pending = new]
      BY <1>2 DEF Step, Pending, IsGathered, IsMessage, MessageFields
    <2>. HIDE DEF results, images
    <2>2. IsMessage(new)
      BY DEF IsGathered, IsMessage, MessageFields
    <2>. HIDE DEF new
    <2>. QED BY <2>1, <2>2 DEF IsGathered
  <1>3. CASE m.role \notin {"system", "tool"}
    <2>. DEFINE flushed == flushPending(state)
                out == Append(flushed.out, ConvertOpenAIMessage(m))
    <2>1. IsGathered(flushed)
      BY FlushGathers
    <2>2. Step(state, m) = [flushed EXCEPT !.out = out]
      BY <1>3 DEF Step
    <2>. HIDE DEF flushed
    <2>3. Conversation(out)
      BY <2>1, Appended, OpenAIMessageIs DEF IsGathered
    <2>. HIDE DEF out
    <2>. QED BY <2>1, <2>2, <2>3 DEF IsGathered
  <1>. QED BY <1>1, <1>2, <1>3

StepStages(h, msgs, n) ==
  /\ h[0] = [out |-> <<>>, pending |-> NoPending]
  /\ \A i \in 1 .. n : h[i] = Step(h[i - 1], msgs[i])

LEMMA SteppedInStages ==
  ASSUME NEW msgs, NEW n \in Nat, DOMAIN msgs = 1 .. n
  PROVE  \E h : /\ StepStages(h, msgs, n)
                /\ ConvertOpenAIMessagesToUnified(msgs) = flushPending(h[n]).out
  <1>. DEFINE none == [out |-> <<>>, pending |-> NoPending]
  <1>1. \E h : /\ StepFold!Stages(h, none, msgs, n)
               /\ StepFold!FoldLeft(Step, none, msgs) = h[n]
    BY StepFold!StagesOfFold
  <1>2. StepFold!FoldLeft(Step, none, msgs) = FoldLeft(Step, none, msgs)
    BY DEF FoldLeft, MapThenFoldSet, Max,
           StepFold!FoldLeft, StepFold!MapThenFoldSet, StepFold!Max
  <1>. QED BY <1>1, <1>2 DEF StepFold!Stages, StepStages, ConvertOpenAIMessagesToUnified

LEMMA OpenAIConversation ==
  ASSUME NEW msgs, IsSeq(msgs)
  PROVE  Conversation(ConvertOpenAIMessagesToUnified(msgs))
  <1>. DEFINE n == Len(msgs)
  <1>1. n \in Nat /\ DOMAIN msgs = 1 .. n
    BY SeqFacts
  <1>2. PICK h : /\ StepStages(h, msgs, n)
                 /\ ConvertOpenAIMessagesToUnified(msgs) = flushPending(h[n]).out
    BY <1>1, SteppedInStages
  <1>. DEFINE S == {k \in Nat : k <= n => IsGathered(h[k])}
  <1>3. 0 \in S
    <2>1. Conversation(<<>>)
      BY NothingMerged
    <2>2. IsMessage(NoPending)
      BY MessageIs DEF NoPending
    <2>3. IsGathered([out |-> <<>>, pending |-> NoPending])
      BY <2>1, <2>2 DEF IsGathered
    <2>. QED BY <1>2, <2>3 DEF StepStages
  <1>4. ASSUME NEW k \in Nat, k \in S PROVE k + 1 \in S
    <2>. SUFFICES ASSUME k + 1 <= n PROVE IsGathered(h[k + 1])
      OBVIOUS
    <2>1. IsGathered(h[k]) /\ k + 1 \in 1 .. n /\ (k + 1) - 1 = k
      BY <1>1, <1>4
    <2>2. h[k + 1] = Step(h[k], msgs[k + 1])
      BY <1>2, <2>1 DEF StepStages
    <2>. QED BY <2>1, <2>2, StepGathers
  <1>5. n \in S
    <2>. HIDE DEF S
    <2>. QED BY <1>1, <1>3, <1>4, Induction
  <1>6. IsGathered(flushPending(h[n]))
    BY <1>1, <1>5, FlushGathers
  <1>. QED BY <1>2, <1>6 DEF IsGathered

-----------------------------------------------------------------------------
(* The body of any conversation.                                           *)

\* The size of a payload is that of its fields.
LEMMA SizeOfFields ==
  ASSUME NEW p, NEW q, \A f \in PayloadFields : p[f] = q[f]
  PROVE  checkPayloadSize(p) = checkPayloadSize(q)
  <1>1. /\ p.history = q.history /\ p.content = q.content /\ p.images = q.images
        /\ p.tools = q.tools /\ p.results = q.results
    BY DEF PayloadFields
  <1>. QED BY <1>1 DEF checkPayloadSize

LEMMA BodyFieldsAre ==
  ASSUME NEW u, NEW max
  PROVE  LET payload == BuildKiroPayload(u, max)
             sent == KiroBody(u, max)
         IN  payload = [f \in PayloadFields |-> payload[f]] =>
               /\ PayloadFields \subseteq DOMAIN sent
               /\ \A f \in PayloadFields : sent[f] = payload[f]
  <1>. DEFINE payload == BuildKiroPayload(u, max)
              fields == NativeReasoningFields(u)
              sent == KiroBody(u, max)
  <1>1. sent = [f \in DOMAIN payload \cup {"fields"} |->
                  IF f = "fields" THEN fields ELSE payload[f]]
    BY DEF KiroBody
  <1>. HIDE DEF payload, fields, sent
  <1>2. ASSUME payload = [f \in PayloadFields |-> payload[f]]
        PROVE  /\ PayloadFields \subseteq DOMAIN sent
               /\ \A f \in PayloadFields : sent[f] = payload[f]
    <2>1. DOMAIN payload = PayloadFields /\ "fields" \notin PayloadFields
      BY <1>2 DEF PayloadFields
    <2>. QED BY <1>1, <2>1
  <1>. QED BY <1>2 DEF payload, sent

\* A place the cuts of one body stop at is one for every body of the same fields.
LEMMA SameCuts ==
  ASSUME NEW payload, NEW other,
         PayloadFields \subseteq DOMAIN payload, PayloadFields \subseteq DOMAIN other,
         \A f \in PayloadFields : other[f] = payload[f], NEW max, NEW c,
         CutHere(payload, max, c)
  PROVE  CutHere(other, max, c)
  <1>1. other.history = payload.history
    BY DEF PayloadFields
  <1>2. ASSUME NEW n
        PROVE  checkPayloadSize(Without(other, n)) = checkPayloadSize(Without(payload, n))
    <2>. DEFINE tail == SubSeq(payload.history, n + 1, Len(payload.history))
    <2>1. /\ Without(other, n) = [other EXCEPT !.history = tail]
          /\ Without(payload, n) = [payload EXCEPT !.history = tail]
      BY <1>1 DEF Without
    <2>. HIDE DEF tail
    <2>2. \A f \in PayloadFields : Without(other, n)[f] = Without(payload, n)[f]
      BY <2>1 DEF PayloadFields
    <2>. QED BY <2>2, SizeOfFields
  <1>. QED BY <1>1, <1>2 DEF CutHere

LEMMA UntrimmedIsPayload ==
  ASSUME NEW u, Conversation(u.messages), u.messages # <<>>
  PROVE  IsPayload(UntrimmedPayload(u))
  <1>1. UntrimmedPayload(u) = [f \in PayloadFields |-> UntrimmedPayload(u)[f]]
    BY DEF UntrimmedPayload, PayloadFields
  <1>. QED BY <1>1, UntrimmedHistory DEF IsPayload

\* What a body within a limit has of the one without.
BodyWithin(sent, whole, max) ==
  /\ \A f \in PayloadFields \ {"history"} : sent[f] = whole[f]
  /\ IsHistory(sent.history) /\ IsHistory(whole.history) /\ PayloadFields \subseteq DOMAIN whole
  /\ IF max = NoLimit THEN sent.history = whole.history ELSE TrimmedFrom(sent, whole, max)

LEMMA BodyOfConversation ==
  ASSUME NEW u, Conversation(u.messages), u.messages # <<>>, NEW max
  PROVE  BodyWithin(KiroBody(u, max), KiroBody(u, NoLimit), max)
  <1>. DEFINE payload == UntrimmedPayload(u)
              built == BuildKiroPayload(u, max)
              whole == KiroBody(u, NoLimit)
              sent == KiroBody(u, max)
  <1>1. IsPayload(payload)
    BY UntrimmedIsPayload
  <1>2. IsPayload(built) /\ \A f \in PayloadFields \ {"history"} : built[f] = payload[f]
    BY <1>1, TrimmedPayload DEF BuildKiroPayload
  <1>3. PayloadFields \subseteq DOMAIN whole /\ \A f \in PayloadFields : whole[f] = payload[f]
    <2>1. BuildKiroPayload(u, NoLimit) = payload
      BY DEF BuildKiroPayload
    <2>. HIDE DEF payload
    <2>. QED BY <1>1, <2>1, BodyFieldsAre DEF IsPayload
  <1>4. \A f \in PayloadFields : sent[f] = built[f]
    BY <1>2, BodyFieldsAre DEF IsPayload
  <1>5. "history" \in PayloadFields
    BY DEF PayloadFields
  <1>. HIDE DEF built, whole, sent
  <1>6. max = NoLimit => sent.history = whole.history
    <2>1. ASSUME max = NoLimit PROVE built = payload
      BY <2>1 DEF BuildKiroPayload, built
    <2>. QED BY <1>3, <1>4, <1>5, <2>1
  <1>7. ASSUME max # NoLimit PROVE TrimmedFrom(sent, whole, max)
    <2>1. TrimmedFrom(built, payload, max)
      BY <1>1, <1>7, TrimmedPayload DEF BuildKiroPayload, built
    <2>2. PayloadFields \subseteq DOMAIN payload
      BY <1>1 DEF IsPayload
    <2>. HIDE DEF payload
    <2>3. \A c : CutHere(payload, max, c) => CutHere(whole, max, c)
      BY <1>3, <2>2, SameCuts
    <2>4. sent.history = built.history /\ whole.history = payload.history
      BY <1>3, <1>4, <1>5
    <2>. QED BY <2>1, <2>3, <2>4 DEF TrimmedFrom
  <1>8. IsHistory(sent.history) /\ IsHistory(whole.history)
    BY <1>1, <1>2, <1>3, <1>4, <1>5 DEF IsPayload
  <1>9. \A f \in PayloadFields \ {"history"} : sent[f] = whole[f]
    BY <1>2, <1>3, <1>4
  <1>. HIDE DEF payload
  <1>. QED BY <1>3, <1>6, <1>7, <1>8, <1>9 DEF BodyWithin, whole, sent

\* Either dialect.
LEMMA BodyOfRequest ==
  ASSUME NEW req, IsSeq(req.messages), ~Panics(req), NEW max
  PROVE  BodyWithin(ToKiro(req, max), ToKiro(req, NoLimit), max)
  <1>1. CASE req.dialect = "anthropic"
    <2>. DEFINE converted == ConvertAnthropicMessages(req.messages)
                u == [messages |-> attachNativeReasoning(req.messages, converted, req.model),
                      system   |-> req.system,
                      tools    |-> req.tools,
                      model    |-> req.model,
                      thinking |-> ExtractThinkingConfigFromAnthropic(req),
                      asked    |-> [thinking |-> req.thinking, display |-> req.display,
                                    effort |-> req.effort]]
    <2>1. \A m : ToKiro(req, m) = KiroBody(u, m)
      BY <1>1 DEF ToKiro, AnthropicToKiro
    <2>2. converted # <<>> /\ IsSeq(converted)
      BY <1>1, AnthropicConversation DEF Panics, UnifiedMessages
    <2>3. Conversation(u.messages) /\ u.messages # <<>>
      <3>1. /\ Conversation(u.messages) /\ Len(u.messages) = Len(req.messages)
            /\ Len(converted) = Len(req.messages)
        BY AnthropicConversation
      <3>2. Len(converted) # 0
        BY <2>2, SeqFacts
      <3>. HIDE DEF u
      <3>3. IsSeq(u.messages)
        BY <3>1 DEF Conversation
      <3>. QED BY <3>1, <3>2, <3>3, SeqFacts
    <2>. HIDE DEF u
    <2>. QED BY <2>1, <2>3, BodyOfConversation
  <1>2. CASE req.dialect # "anthropic"
    <2>. DEFINE u == [messages |-> ConvertOpenAIMessagesToUnified(req.messages),
                      system   |-> SystemPrompt(req.messages),
                      tools    |-> ConvertOpenAIToolsToUnified(req.tools),
                      model    |-> req.model,
                      thinking |-> ExtractThinkingConfigFromOpenAI(req),
                      asked    |-> nativeReasoningRequest(req)]
    <2>1. \A m : ToKiro(req, m) = KiroBody(u, m)
      BY <1>2 DEF ToKiro, OpenAIToKiro
    <2>2. Conversation(u.messages) /\ u.messages # <<>>
      BY <1>2, OpenAIConversation DEF Panics, UnifiedMessages
    <2>. HIDE DEF u
    <2>. QED BY <2>1, <2>2, BodyOfConversation
  <1>. QED BY <1>1, <1>2

\* The notices keep a list of messages a list.
LEMMA InjectedMessages ==
  ASSUME NEW req, IsSeq(req.messages), "messages" \in DOMAIN req, NEW found
  PROVE  IsSeq(injectTruncationRecovery(req, found).messages)
  <1>. DEFINE n == Len(req.messages)
              Kept(i) == <<injectToolResultRecovery(req.dialect, req.messages[i], i, found)>>
              Told(i) == injectContentRecovery(req.messages[i], i, found)
              seqs == [i \in DOMAIN req.messages |-> Kept(i) \o Told(i)]
  <1>1. n \in Nat /\ DOMAIN req.messages = 1 .. n
    BY SeqFacts
  <1>2. injectTruncationRecovery(req, found).messages = FlattenSeq(seqs)
    BY DEF injectTruncationRecovery
  <1>3. ASSUME NEW i \in 1 .. n PROVE IsSeq(Kept(i) \o Told(i))
    <2>1. ASSUME NEW x PROVE IsSeq(<<x>>)
      <3>1. <<x>> = [j \in 1 .. 1 |-> <<x>>[j]]
        OBVIOUS
      <3>. QED BY <3>1, ASequence
    <2>2. Told(i) = <<>> \/ \E x : Told(i) = <<x>>
      BY DEF injectContentRecovery
    <2>3. IsSeq(<<>>)
      BY DEF IsSeq
    <2>4. IsSeq(Told(i)) /\ IsSeq(Kept(i))
      BY <2>1, <2>2, <2>3
    <2>. HIDE DEF Kept, Told
    <2>. QED BY <2>4, ConcatFacts
  <1>. HIDE DEF Kept, Told, n
  <1>4. seqs = [i \in 1 .. n |-> seqs[i]] /\ \A i \in 1 .. n : IsSeq(seqs[i])
    BY <1>1, <1>3
  <1>. HIDE DEF seqs
  <1>5. IsSeq(seqs) /\ Len(seqs) = n
    BY <1>1, <1>4, ASequence
  <1>. QED BY <1>2, <1>4, <1>5, FlattenedIsSeq

-----------------------------------------------------------------------------
(* What is remembered of a request is a record of these fields.            *)
Fields == {"pc", "looked", "found", "attempt", "chunks", "saved", "reply", "kiro", "end"}

IsRecord(s) == s = [f \in Fields |-> s[f]]

Counts(s) == s.attempt \in Nat /\ s.chunks \in Nat

RequestShape ==
  /\ request = [r \in Requests |-> request[r]]
  /\ \A r \in Requests : IsRecord(request[r]) /\ Counts(request[r])

LogShape ==
  /\ buffers \in [Logs -> Pieces]
  /\ files \in [Logs \cup {"error"} -> [by : Requests \cup {Nobody}, pieces : Pieces]]
  /\ flush \in [Requests -> [pc : {"no", "recreate", "copy", "clear", "error"} \cup Logs,
                             copy : [Logs -> Pieces]]]

(* The invariant, for mode "errors": two requests in flight have met; once   *)
(* a request has cleared the buffers, all there is in them is its own or of  *)
(* requests it has met; and so are the copies and the files made of them.    *)
Known(r) == {r} \cup met[r]

OwnersOf(pieces) == {pieces[i][1] : i \in DOMAIN pieces}

InFlightHaveMet == \A r \in InFlight : InFlight \subseteq Known(r)

HasPrepared(r) == request[r].pc \notin {"idle", "prepare", "done"}

BuffersAreRecent ==
  \A r \in Requests : HasPrepared(r) =>
    \A log \in Logs : OwnersOf(buffers[log]) \subseteq Known(r)

CopiesAreRecent ==
  \A r \in Requests :
    /\ ~Flushing(r) => flush[r] = NotFlushing
    /\ Flushing(r) => At(r, "flush")
    /\ \A log \in Logs : OwnersOf(flush[r].copy[log]) \subseteq Known(r)

FilesAreRecent ==
  \A file \in Logs \cup {"error"} : files[file].by # Nobody =>
    /\ ~At(files[file].by, "idle")
    /\ OwnersOf(files[file].pieces) \subseteq Known(files[file].by)

Recent == InFlightHaveMet /\ BuffersAreRecent /\ CopiesAreRecent /\ FilesAreRecent

IInv == RequestShape /\ LogShape /\ (mode = "errors" => Recent)

-----------------------------------------------------------------------------
(* One request moves, the others stay where they are.                      *)
Moves(r, pc) ==
  /\ RequestShape'
  /\ request'[r].pc = pc
  /\ \A q \in Requests \ {r} : request'[q] = request[q]

LEMMA RecordStep ==
  ASSUME RequestShape, NEW r \in Requests, NEW s, NEW pc,
         request' = [request EXCEPT ![r] = s],
         IsRecord(s), Counts(s), s.pc = pc
  PROVE  Moves(r, pc)
  <1>1. request' = [q \in Requests |-> request'[q]] /\ request'[r] = s
    BY DEF RequestShape
  <1>2. \A q \in Requests \ {r} : request'[q] = request[q]
    BY DEF RequestShape
  <1>. QED BY <1>1, <1>2 DEF RequestShape, Moves

LEMMA GotoMoves ==
  ASSUME RequestShape, NEW r \in Requests, NEW pc, Goto(r, pc)
  PROVE  Moves(r, pc)
  <1>. DEFINE s == [request[r] EXCEPT !.pc = pc]
  <1>1. IsRecord(s) /\ Counts(s) /\ s.pc = pc
    BY DEF RequestShape, IsRecord, Counts, Fields
  <1>2. request' = [request EXCEPT ![r] = s]
    BY DEF Goto
  <1>. HIDE DEF s
  <1>. QED BY <1>1, <1>2, RecordStep

LEMMA EndsMoves ==
  ASSUME RequestShape, NEW r \in Requests, NEW how, Ends(r, how)
  PROVE  Moves(r, "done")
  <1>. DEFINE s == [request[r] EXCEPT !.pc = "done", !.end = how]
  <1>1. IsRecord(s) /\ Counts(s) /\ s.pc = "done"
    BY DEF RequestShape, IsRecord, Counts, Fields
  <1>2. request' = [request EXCEPT ![r] = s]
    BY DEF Ends
  <1>. HIDE DEF s
  <1>. QED BY <1>1, <1>2, RecordStep

-----------------------------------------------------------------------------
(* What the log operations do, as far as it matters here.                  *)
Logged(r) ==
  /\ LogShape'
  /\ mode' = mode /\ flush' = flush
  /\ mode = "errors" =>
       /\ files' = files
       /\ \A log \in Logs : OwnersOf(buffers'[log]) \subseteq OwnersOf(buffers[log]) \cup {r}

LEMMA NothingLogged ==
  ASSUME LogShape, NEW r, UNCHANGED logVars
  PROVE  Logged(r)
  BY DEF Logged, LogShape, logVars

LEMMA OnePiece ==
  ASSUME NEW r \in Requests, NEW n \in Nat
  PROVE  <<<<r, n>>>> \in Pieces /\ OwnersOf(<<<<r, n>>>>) = {r}
  BY DEF Pieces, OwnersOf

LEMMA OneMorePiece ==
  ASSUME NEW r \in Requests, NEW n \in Nat, NEW s \in Pieces
  PROVE  /\ Append(s, <<r, n>>) \in Pieces
         /\ OwnersOf(Append(s, <<r, n>>)) \subseteq OwnersOf(s) \cup {r}
  BY DEF Pieces, OwnersOf

\* Either a buffer or a file gets the pieces, or neither.
LEMMA LogStep ==
  ASSUME LogShape, NEW r \in Requests, NEW log \in Logs, NEW b \in Pieces, NEW f \in Pieces,
         OwnersOf(b) \subseteq OwnersOf(buffers[log]) \cup {r},
         \/ mode = "all" /\ Write(log, r, f) /\ UNCHANGED buffers
         \/ mode = "errors" /\ buffers' = [buffers EXCEPT ![log] = b] /\ UNCHANGED files
         \/ mode = "off" /\ UNCHANGED <<buffers, files>>,
         UNCHANGED <<mode, flush>>
  PROVE  Logged(r)
  <1>1. buffers' \in [Logs -> Pieces]
    BY DEF LogShape
  <1>2. files' \in [Logs \cup {"error"} -> [by : Requests \cup {Nobody}, pieces : Pieces]]
    <2>1. CASE Write(log, r, f)
      <3>1. [by |-> r, pieces |-> f] \in [by : Requests \cup {Nobody}, pieces : Pieces]
        OBVIOUS
      <3>. QED BY <2>1, <3>1 DEF LogShape, Write
    <2>2. CASE UNCHANGED files
      BY <2>2 DEF LogShape
    <2>. QED BY <2>1, <2>2
  <1>3. mode = "errors" =>
          \A l \in Logs : OwnersOf(buffers'[l]) \subseteq OwnersOf(buffers[l]) \cup {r}
    BY DEF LogShape
  <1>4. LogShape'
    BY <1>1, <1>2 DEF LogShape
  <1>. QED BY <1>3, <1>4 DEF Logged

LEMMA BodyLogged ==
  ASSUME LogShape, NEW r \in Requests, NEW log \in Logs, NEW n \in Nat, logBody(log, r, n)
  PROVE  Logged(r)
  BY OnePiece, LogStep DEF logBody

LEMMA ChunkLogged ==
  ASSUME LogShape, NEW r \in Requests, NEW log \in Logs, NEW n \in Nat, logChunk(log, r, n)
  PROVE  Logged(r)
  <1>1. /\ buffers[log] \in Pieces /\ files[log].pieces \in Pieces
        /\ log \in Logs \cup {"error"}
    BY DEF LogShape
  <1>. DEFINE b == Append(buffers[log], <<r, n>>)
              f == Append(files[log].pieces, <<r, n>>)
  <1>2. b \in Pieces /\ f \in Pieces /\ OwnersOf(b) \subseteq OwnersOf(buffers[log]) \cup {r}
    BY <1>1, OneMorePiece
  <1>3. /\ \/ mode = "all" /\ Write(log, r, f) /\ UNCHANGED buffers
           \/ mode = "errors" /\ buffers' = [buffers EXCEPT ![log] = b] /\ UNCHANGED files
           \/ mode = "off" /\ UNCHANGED <<buffers, files>>
        /\ UNCHANGED <<mode, flush>>
    BY DEF logChunk
  <1>. HIDE DEF b, f
  <1>. QED BY <1>2, <1>3, LogStep

-----------------------------------------------------------------------------
(* The steps.                                                              *)

InFlightPlace(pc) == pc \notin {"idle", "done"}

LEMMA InFlightAfter ==
  ASSUME NEW r \in Requests, NEW pc, Moves(r, pc)
  PROVE  /\ InFlight' \subseteq InFlight \cup {r}
         /\ InFlightPlace(request[r].pc) => InFlight' \subseteq InFlight
  BY DEF InFlight, InFlightPlace, Moves

\* A request that has cleared the buffers goes on, and logs something or nothing.
LEMMA LoggedStep ==
  ASSUME IInv, NEW r \in Requests, NEW pc, Moves(r, pc), Logged(r),
         HasPrepared(r), pc \notin {"idle", "prepare"},
         request[r].pc # "flush" \/ ~Flushing(r),
         met' = met
  PROVE  IInv'
  <1>1. RequestShape' /\ LogShape'
    BY DEF Moves, Logged
  <1>2. SUFFICES ASSUME mode = "errors", Recent PROVE Recent'
    BY <1>1 DEF IInv, Logged
  <1>3. r \in InFlight /\ InFlight' \subseteq InFlight
    BY InFlightAfter DEF InFlight, HasPrepared, InFlightPlace
  <1>4. InFlightHaveMet'
    <2>. SUFFICES ASSUME NEW q \in InFlight' PROVE InFlight' \subseteq Known(q)'
      BY DEF InFlightHaveMet
    <2>. QED BY <1>2, <1>3 DEF Recent, InFlightHaveMet, Known
  <1>5. BuffersAreRecent'
    <2>. SUFFICES ASSUME NEW q \in Requests, HasPrepared(q)', NEW log \in Logs
                  PROVE  OwnersOf(buffers'[log]) \subseteq Known(q)'
      BY DEF BuffersAreRecent
    <2>1. HasPrepared(q) /\ q \in InFlight
      BY DEF Moves, HasPrepared, InFlight
    <2>2. r \in Known(q)
      BY <1>2, <1>3, <2>1 DEF Recent, InFlightHaveMet
    <2>3. OwnersOf(buffers[log]) \subseteq Known(q)
      BY <1>2, <2>1 DEF Recent, BuffersAreRecent
    <2>4. OwnersOf(buffers'[log]) \subseteq OwnersOf(buffers[log]) \cup {r}
      BY <1>2 DEF Logged
    <2>5. Known(q)' = Known(q)
      BY DEF Known
    <2>. QED BY <2>2, <2>3, <2>4, <2>5
  <1>6. CopiesAreRecent'
    <2>. SUFFICES ASSUME NEW q \in Requests
                  PROVE  /\ ~Flushing(q)' => flush'[q] = NotFlushing
                         /\ Flushing(q)' => At(q, "flush")'
                         /\ \A log \in Logs : OwnersOf(flush'[q].copy[log]) \subseteq Known(q)'
      BY DEF CopiesAreRecent
    <2>1. flush' = flush /\ Known(q)' = Known(q) /\ (Flushing(q)' <=> Flushing(q))
      BY DEF Logged, Known, Flushing
    <2>2. Flushing(r) => request[r].pc = "flush"
      BY <1>2 DEF Recent, CopiesAreRecent, At
    <2>3. Flushing(q) => q # r
      BY <2>2
    <2>4. Flushing(q)' => At(q, "flush")'
      BY <1>2, <2>1, <2>3 DEF Recent, CopiesAreRecent, At, Moves
    <2>. QED BY <1>2, <2>1, <2>4 DEF Recent, CopiesAreRecent
  <1>7. FilesAreRecent'
    <2>. SUFFICES ASSUME NEW file \in Logs \cup {"error"},
                         NEW q, q = files[file].by, q # Nobody
                  PROVE  ~At(q, "idle")' /\ OwnersOf(files[file].pieces) \subseteq Known(q)'
      BY <1>2 DEF FilesAreRecent, Logged, At, Known
    <2>1. q \in Requests /\ ~At(q, "idle") /\ OwnersOf(files[file].pieces) \subseteq Known(q)
      BY <1>2 DEF IInv, LogShape, Recent, FilesAreRecent
    <2>2. ~At(q, "idle")'
      BY <2>1 DEF At, Moves
    <2>. QED BY <2>1, <2>2 DEF Known
  <1>. QED BY <1>4, <1>5, <1>6, <1>7 DEF Recent

\* A newcomer has met those in flight, and they it.
LEMMA ArriveStep ==
  ASSUME IInv, NEW r \in Requests, Arrive(r)
  PROVE  IInv'
  <1>. DEFINE pc == IF mode = "off" THEN "authorize" ELSE "prepare"
  <1>1. Moves(r, pc) /\ request[r].pc = "idle"
    BY GotoMoves DEF Arrive, At, IInv
  <1>2. UNCHANGED logVars /\ LogShape'
    BY DEF Arrive, IInv, LogShape, logVars
  <1>3. SUFFICES ASSUME mode = "errors", Recent PROVE Recent'
    BY <1>1, <1>2 DEF IInv, Moves, logVars
  <1>4. request'[r].pc = "prepare"
    BY <1>1, <1>3 DEF Moves
  <1>5. /\ met'[r] = InFlight
        /\ \A q \in Requests \ {r} : met'[q] = IF q \in InFlight THEN met[q] \cup {r} ELSE met[q]
    BY DEF Arrive
  <1>6. InFlight' = InFlight \cup {r}
    BY <1>1, <1>4 DEF InFlight, Moves
  <1>7. \A q \in Requests \ {r} : Known(q) \subseteq Known(q)'
    BY <1>5 DEF Known
  <1>8. InFlightHaveMet'
    <2>. SUFFICES ASSUME NEW q \in InFlight' PROVE InFlight' \subseteq Known(q)'
      BY DEF InFlightHaveMet
    <2>1. CASE q = r
      BY <1>5, <1>6, <2>1 DEF Known
    <2>2. CASE q # r
      <3>1. q \in InFlight /\ q \in Requests
        BY <1>6, <2>2 DEF InFlight
      <3>2. InFlight \subseteq Known(q)
        BY <1>3, <3>1 DEF Recent, InFlightHaveMet
      <3>3. r \in Known(q)'
        BY <1>5, <2>2, <3>1 DEF Known
      <3>. QED BY <1>6, <1>7, <2>2, <3>1, <3>2, <3>3
    <2>. QED BY <2>1, <2>2
  <1>9. BuffersAreRecent'
    <2>. SUFFICES ASSUME NEW q \in Requests, HasPrepared(q)', NEW log \in Logs
                  PROVE  OwnersOf(buffers'[log]) \subseteq Known(q)'
      BY DEF BuffersAreRecent
    <2>1. q # r /\ HasPrepared(q)
      BY <1>1, <1>4 DEF HasPrepared, Moves
    <2>. QED BY <1>2, <1>3, <1>7, <2>1 DEF Recent, BuffersAreRecent, logVars
  <1>10. CopiesAreRecent'
    <2>. SUFFICES ASSUME NEW q \in Requests
                  PROVE  /\ ~Flushing(q)' => flush'[q] = NotFlushing
                         /\ Flushing(q)' => At(q, "flush")'
                         /\ \A log \in Logs : OwnersOf(flush'[q].copy[log]) \subseteq Known(q)'
      BY DEF CopiesAreRecent
    <2>1. flush' = flush /\ (Flushing(q)' <=> Flushing(q))
      BY <1>2 DEF logVars, Flushing
    <2>2. CASE q = r
      <3>1. ~Flushing(r) /\ flush[r] = NotFlushing
        BY <1>1, <1>3 DEF Recent, CopiesAreRecent, At
      <3>2. \A log \in Logs : NotFlushing.copy[log] = <<>>
        BY DEF NotFlushing, Empty
      <3>. QED BY <2>1, <2>2, <3>1, <3>2 DEF OwnersOf
    <2>3. CASE q # r
      <3>1. At(q, "flush")' <=> At(q, "flush")
        BY <1>1, <2>3 DEF At, Moves
      <3>. QED BY <1>3, <1>7, <2>1, <2>3, <3>1 DEF Recent, CopiesAreRecent
    <2>. QED BY <2>2, <2>3
  <1>11. FilesAreRecent'
    <2>. SUFFICES ASSUME NEW file \in Logs \cup {"error"},
                         NEW q, q = files[file].by, q # Nobody
                  PROVE  ~At(q, "idle")' /\ OwnersOf(files[file].pieces) \subseteq Known(q)'
      BY <1>2 DEF FilesAreRecent, logVars, At, Known
    <2>1. q \in Requests /\ ~At(q, "idle") /\ OwnersOf(files[file].pieces) \subseteq Known(q)
      BY <1>3 DEF IInv, LogShape, Recent, FilesAreRecent
    <2>2. q # r
      BY <1>1, <2>1 DEF At
    <2>3. ~At(q, "idle")'
      BY <1>1, <2>1, <2>2 DEF At, Moves
    <2>. QED BY <1>7, <2>1, <2>2, <2>3
  <1>. QED BY <1>8, <1>9, <1>10, <1>11 DEF Recent

\* The buffers are emptied: by the request that begins, or by one that ends well.
LEMMA ClearStep ==
  ASSUME IInv, NEW r \in Requests, NEW pc, Moves(r, pc),
         InFlightPlace(request[r].pc), ~At(r, "flush"), pc # "idle",
         buffers' = Empty \/ (mode # "errors" /\ UNCHANGED buffers),
         UNCHANGED <<mode, files, flush, met>>
  PROVE  IInv'
  <1>1. Empty \in [Logs -> Pieces] /\ \A log \in Logs : OwnersOf(Empty[log]) = {}
    BY DEF Empty, Pieces, OwnersOf
  <1>2. RequestShape' /\ LogShape'
    BY <1>1 DEF Moves, IInv, LogShape
  <1>3. SUFFICES ASSUME mode = "errors", Recent PROVE Recent'
    BY <1>2 DEF IInv
  <1>4. InFlightHaveMet'
    <2>. SUFFICES ASSUME NEW q \in InFlight' PROVE InFlight' \subseteq Known(q)'
      BY DEF InFlightHaveMet
    <2>. QED BY <1>3, InFlightAfter DEF Recent, InFlightHaveMet, Known
  <1>5. BuffersAreRecent'
    BY <1>1, <1>3 DEF BuffersAreRecent
  <1>6. CopiesAreRecent'
    <2>. SUFFICES ASSUME NEW q \in Requests
                  PROVE  /\ ~Flushing(q)' => flush'[q] = NotFlushing
                         /\ Flushing(q)' => At(q, "flush")'
                         /\ \A log \in Logs : OwnersOf(flush'[q].copy[log]) \subseteq Known(q)'
      BY DEF CopiesAreRecent
    <2>1. Flushing(q) => q # r
      BY <1>3 DEF Recent, CopiesAreRecent
    <2>2. Flushing(q)' => At(q, "flush")'
      BY <1>3, <2>1 DEF Recent, CopiesAreRecent, At, Moves, Flushing
    <2>. QED BY <1>3, <2>2 DEF Recent, CopiesAreRecent, Flushing, Known
  <1>7. FilesAreRecent'
    <2>. SUFFICES ASSUME NEW file \in Logs \cup {"error"},
                         NEW q, q = files[file].by, q # Nobody
                  PROVE  ~At(q, "idle")' /\ OwnersOf(files[file].pieces) \subseteq Known(q)'
      BY DEF FilesAreRecent, At, Known
    <2>1. q \in Requests /\ ~At(q, "idle") /\ OwnersOf(files[file].pieces) \subseteq Known(q)
      BY <1>3 DEF IInv, LogShape, Recent, FilesAreRecent
    <2>2. ~At(q, "idle")'
      BY <2>1 DEF At, Moves
    <2>. QED BY <2>1, <2>2 DEF Known
  <1>. QED BY <1>4, <1>5, <1>6, <1>7 DEF Recent

\* FlushOnError begins.
LEMMA StartFlushStep ==
  ASSUME IInv, NEW r \in Requests, Moves(r, "flush"), StartFlush(r),
         HasPrepared(r), ~At(r, "flush"), met' = met
  PROVE  IInv'
  <1>1. mode' = mode /\ buffers' = buffers /\ files' = files
    BY DEF StartFlush
  <1>2. CASE flush' = flush
    <2>1. Logged(r)
      BY <1>1, <1>2, NothingLogged DEF IInv, logVars
    <2>. QED BY <2>1, LoggedStep DEF At
  <1>3. CASE \E pc \in {"recreate", "error"} : FlushTo(r, pc)
    <2>1. PICK pc \in {"recreate", "error"} : FlushTo(r, pc)
      BY <1>3
    <2>2. /\ flush' = [flush EXCEPT ![r].pc = pc]
          /\ flush'[r].copy = flush[r].copy /\ flush'[r].pc = pc
          /\ \A q \in Requests \ {r} : flush'[q] = flush[q]
      BY <2>1 DEF FlushTo, IInv, LogShape
    <2>3. RequestShape' /\ LogShape'
      BY <1>1, <2>2 DEF Moves, IInv, LogShape
    <2>4. SUFFICES ASSUME mode = "errors", Recent PROVE Recent'
      BY <1>1, <2>3 DEF IInv
    <2>5. InFlightHaveMet'
      <3>. SUFFICES ASSUME NEW q \in InFlight' PROVE InFlight' \subseteq Known(q)'
        BY DEF InFlightHaveMet
      <3>. QED BY <2>4, InFlightAfter
           DEF Recent, InFlightHaveMet, Known, HasPrepared, InFlightPlace
    <2>6. BuffersAreRecent'
      <3>. SUFFICES ASSUME NEW q \in Requests, HasPrepared(q)', NEW log \in Logs
                    PROVE  OwnersOf(buffers[log]) \subseteq Known(q)'
        BY <1>1 DEF BuffersAreRecent
      <3>1. HasPrepared(q)
        BY DEF Moves, HasPrepared
      <3>. QED BY <2>4, <3>1 DEF Recent, BuffersAreRecent, Known
    <2>7. CopiesAreRecent'
      <3>. SUFFICES ASSUME NEW q \in Requests
                    PROVE  /\ ~Flushing(q)' => flush'[q] = NotFlushing
                           /\ Flushing(q)' => At(q, "flush")'
                           /\ \A log \in Logs : OwnersOf(flush'[q].copy[log]) \subseteq Known(q)'
        BY DEF CopiesAreRecent
      <3>1. CASE q = r
        BY <2>2, <2>4, <3>1 DEF Recent, CopiesAreRecent, Flushing, At, Moves, Known
      <3>2. CASE q # r
        BY <2>2, <2>4, <3>2 DEF Recent, CopiesAreRecent, Flushing, At, Moves, Known
      <3>. QED BY <3>1, <3>2
    <2>8. FilesAreRecent'
      <3>. SUFFICES ASSUME NEW file \in Logs \cup {"error"},
                           NEW q, q = files[file].by, q # Nobody
                    PROVE  ~At(q, "idle")' /\ OwnersOf(files[file].pieces) \subseteq Known(q)'
        BY <1>1 DEF FilesAreRecent, At, Known
      <3>1. q \in Requests /\ ~At(q, "idle") /\ OwnersOf(files[file].pieces) \subseteq Known(q)
        BY <2>4 DEF IInv, LogShape, Recent, FilesAreRecent
      <3>2. ~At(q, "idle")'
        BY <3>1 DEF At, Moves
      <3>. QED BY <3>1, <3>2 DEF Known
    <2>. QED BY <2>5, <2>6, <2>7, <2>8 DEF Recent
  <1>. QED BY <1>2, <1>3 DEF StartFlush

\* Within FlushOnError the request stays where it is; what a step leaves of the
\* other two of the log's three parts does not matter here.
FlushFrame(r) == At(r, "flush") /\ UNCHANGED <<request, met, mode>>

LEMMA NoFilesAreRecent ==
  /\ NoFiles \in [Logs \cup {"error"} -> [by : Requests \cup {Nobody}, pieces : Pieces]]
  /\ files' = NoFiles => FilesAreRecent'
  <1>1. NoFile \in [by : Requests \cup {Nobody}, pieces : Pieces] /\ NoFile.by = Nobody
    BY DEF NoFile, Pieces
  <1>2. \A file \in Logs \cup {"error"} : NoFiles[file] = NoFile
    BY DEF NoFiles
  <1>3. NoFiles \in [Logs \cup {"error"} -> [by : Requests \cup {Nobody}, pieces : Pieces]]
    BY <1>1 DEF NoFiles
  <1>. QED BY <1>1, <1>2, <1>3 DEF FilesAreRecent

\* One goroutine goes on in FlushOnError, perhaps with a new copy.
LEMMA FlushMoves ==
  ASSUME IInv, NEW r \in Requests, FlushFrame(r),
         NEW pc \in {"no", "recreate", "copy", "clear", "error"} \cup Logs,
         NEW copy \in [Logs -> Pieces],
         flush' = [flush EXCEPT ![r] = [pc |-> pc, copy |-> copy]],
         pc = "no" => copy = Empty,
         mode = "errors" /\ Recent => \A log \in Logs : OwnersOf(copy[log]) \subseteq Known(r)
  PROVE  /\ flush' \in [Requests -> [pc : {"no", "recreate", "copy", "clear", "error"} \cup Logs,
                                     copy : [Logs -> Pieces]]]
         /\ mode = "errors" /\ Recent => CopiesAreRecent'
  <1>1. /\ flush' \in [Requests -> [pc : {"no", "recreate", "copy", "clear", "error"} \cup Logs,
                                     copy : [Logs -> Pieces]]]
        /\ flush'[r] = [pc |-> pc, copy |-> copy]
        /\ \A q \in Requests \ {r} : flush'[q] = flush[q]
    BY DEF IInv, LogShape
  <1>2. ASSUME mode = "errors", Recent, NEW q \in Requests
        PROVE  /\ ~Flushing(q)' => flush'[q] = NotFlushing
               /\ Flushing(q)' => At(q, "flush")'
               /\ \A log \in Logs : OwnersOf(flush'[q].copy[log]) \subseteq Known(q)'
    <2>1. CASE q = r
      BY <1>1, <1>2, <2>1 DEF FlushFrame, Flushing, NotFlushing, At, Known
    <2>2. CASE q # r
      BY <1>1, <1>2, <2>2 DEF Recent, CopiesAreRecent, FlushFrame, Flushing, At, Known
    <2>. QED BY <2>1, <2>2
  <1>. QED BY <1>1, <1>2 DEF CopiesAreRecent

\* Each of its steps changes one file or all, the buffers, or its own copy.
LEMMA FlushFrameStep ==
  ASSUME IInv, NEW r \in Requests, FlushFrame(r), LogShape',
         mode = "errors" /\ Recent => CopiesAreRecent' /\ FilesAreRecent',
         buffers' = Empty \/ UNCHANGED buffers
  PROVE  IInv'
  <1>1. RequestShape' /\ InFlight' = InFlight /\ \A q \in Requests : Known(q)' = Known(q)
    BY DEF FlushFrame, IInv, RequestShape, InFlight, Known
  <1>2. \A log \in Logs : OwnersOf(Empty[log]) = {}
    BY DEF Empty, OwnersOf
  <1>3. ASSUME mode = "errors", Recent
        PROVE  InFlightHaveMet' /\ BuffersAreRecent'
    <2>1. InFlightHaveMet'
      BY <1>1, <1>3 DEF Recent, InFlightHaveMet, InFlight, FlushFrame, Known
    <2>2. BuffersAreRecent'
      BY <1>2, <1>3 DEF Recent, BuffersAreRecent, FlushFrame, HasPrepared, Known
    <2>. QED BY <2>1, <2>2
  <1>. QED BY <1>1, <1>3 DEF IInv, Recent, FlushFrame

\* A file of this request holds what its copy holds, or nothing.
LEMMA WriteIsRecent ==
  ASSUME IInv, NEW r \in Requests, FlushFrame(r),
         NEW file \in Logs \cup {"error"}, NEW pieces \in Pieces,
         mode = "errors" /\ Recent => OwnersOf(pieces) \subseteq Known(r),
         Write(file, r, pieces)
  PROVE  /\ files' \in [Logs \cup {"error"} -> [by : Requests \cup {Nobody}, pieces : Pieces]]
         /\ mode = "errors" /\ Recent => FilesAreRecent'
  <1>1. [by |-> r, pieces |-> pieces] \in [by : Requests \cup {Nobody}, pieces : Pieces]
    OBVIOUS
  <1>2. /\ files' \in [Logs \cup {"error"} -> [by : Requests \cup {Nobody}, pieces : Pieces]]
        /\ files'[file] = [by |-> r, pieces |-> pieces]
        /\ \A f \in (Logs \cup {"error"}) \ {file} : files'[f] = files[f]
    BY <1>1 DEF Write, IInv, LogShape
  <1>3. ASSUME mode = "errors", Recent, NEW f \in Logs \cup {"error"},
               NEW q, q = files'[f].by, q # Nobody
        PROVE  ~At(q, "idle")' /\ OwnersOf(files'[f].pieces) \subseteq Known(q)'
    <2>1. CASE f = file
      BY <1>2, <1>3, <2>1 DEF FlushFrame, At, Known
    <2>2. CASE f # file
      BY <1>2, <1>3, <2>2 DEF Recent, FilesAreRecent, FlushFrame, At, Known
    <2>. QED BY <2>1, <2>2
  <1>. QED BY <1>2, <1>3 DEF FilesAreRecent, At, Known

LEMMA FilesUnchanged ==
  ASSUME IInv, NEW r \in Requests, FlushFrame(r), UNCHANGED files
  PROVE  /\ files' \in [Logs \cup {"error"} -> [by : Requests \cup {Nobody}, pieces : Pieces]]
         /\ mode = "errors" /\ Recent => FilesAreRecent'
  BY DEF IInv, LogShape, Recent, FilesAreRecent, FlushFrame, At, Known

LEMMA FlushStepStep ==
  ASSUME IInv, NEW r \in Requests, FlushFrame(r), FlushStep(r)
  PROVE  IInv'
  <1>. DEFINE pc   == flush[r].pc
              copy == flush[r].copy
  <1>1. /\ copy \in [Logs -> Pieces] /\ buffers \in [Logs -> Pieces]
        /\ pc \in {"no", "recreate", "copy", "clear", "error"} \cup Logs
        /\ Empty \in [Logs -> Pieces] /\ <<>> \in Pieces
    BY DEF IInv, LogShape, Empty, Pieces
  <1>2. mode = "errors" /\ Recent =>
          \A log \in Logs : OwnersOf(copy[log]) \subseteq Known(r)
    BY DEF Recent, CopiesAreRecent
  <1>3. ASSUME NEW next \in {"no", "recreate", "copy", "clear", "error"} \cup Logs,
               FlushTo(r, next)
        PROVE  flush' = [flush EXCEPT ![r] = [pc |-> next, copy |-> copy]]
    <2>1. flush[r] = [pc |-> pc, copy |-> copy]
      BY DEF IInv, LogShape
    <2>2. [flush[r] EXCEPT !.pc = next] = [pc |-> next, copy |-> copy]
      BY <2>1
    <2>3. flush' = [flush EXCEPT ![r] = [flush[r] EXCEPT !.pc = next]]
      BY <1>3 DEF FlushTo
    <2>. QED BY <2>2, <2>3
  <1>. HIDE DEF pc, copy
  <1>4. CASE FlushDir(r)
    <2>1. FlushTo(r, "copy") /\ files' = NoFiles /\ buffers' = buffers
      BY <1>4 DEF FlushDir, recreateDir
    <2>2. flush' = [flush EXCEPT ![r] = [pc |-> "copy", copy |-> copy]]
      BY <1>3, <2>1
    <2>3. PICK next \in {"no", "recreate", "copy", "clear", "error"} \cup Logs :
            next # "no" /\ flush' = [flush EXCEPT ![r] = [pc |-> next, copy |-> copy]]
      BY <2>2
    <2>4. /\ flush' \in [Requests -> [pc : {"no", "recreate", "copy", "clear", "error"} \cup Logs,
                                       copy : [Logs -> Pieces]]]
          /\ mode = "errors" /\ Recent => CopiesAreRecent'
      BY <1>1, <1>2, <2>3, FlushMoves
    <2>. QED BY <1>1, <2>1, <2>4, NoFilesAreRecent, FlushFrameStep DEF LogShape
  <1>5. CASE FlushCopy(r)
    <2>1. /\ flush' = [flush EXCEPT ![r] = [pc |-> "request", copy |-> buffers]]
          /\ UNCHANGED <<buffers, files>> /\ "request" \in Logs
      BY <1>5 DEF FlushCopy, Logs
    <2>2. mode = "errors" /\ Recent =>
            \A log \in Logs : OwnersOf(buffers[log]) \subseteq Known(r)
      BY DEF Recent, BuffersAreRecent, HasPrepared, FlushFrame, At
    <2>3. PICK next \in {"no", "recreate", "copy", "clear", "error"} \cup Logs :
            next # "no" /\ flush' = [flush EXCEPT ![r] = [pc |-> next, copy |-> buffers]]
      BY <2>1
    <2>4. /\ flush' \in [Requests -> [pc : {"no", "recreate", "copy", "clear", "error"} \cup Logs,
                                       copy : [Logs -> Pieces]]]
          /\ mode = "errors" /\ Recent => CopiesAreRecent'
      BY <1>1, <2>2, <2>3, FlushMoves
    <2>5. LogShape'
      BY <1>1, <2>1, <2>4, FilesUnchanged DEF LogShape
    <2>. QED BY <2>1, <2>4, <2>5, FilesUnchanged, FlushFrameStep
  <1>6. CASE FlushFile(r)
    <2>1. /\ pc \in Logs /\ FlushTo(r, After[pc]) /\ UNCHANGED buffers
          /\ Write(pc, r, copy[pc]) \/ UNCHANGED files
      BY <1>6 DEF FlushFile, pc, copy
    <2>2. After[pc] \in {"clear", "error"} \cup Logs
      BY <2>1 DEF After, Logs
    <2>3. flush' = [flush EXCEPT ![r] = [pc |-> After[pc], copy |-> copy]] /\ After[pc] # "no"
      BY <1>3, <2>1, <2>2 DEF Logs
    <2>4. /\ files' \in [Logs \cup {"error"} -> [by : Requests \cup {Nobody}, pieces : Pieces]]
          /\ mode = "errors" /\ Recent => FilesAreRecent'
      BY <1>1, <1>2, <2>1, WriteIsRecent, FilesUnchanged
    <2>. QED BY <1>1, <1>2, <2>1, <2>2, <2>3, <2>4, FlushMoves, FlushFrameStep DEF LogShape
  <1>7. CASE FlushError(r)
    <2>1. Write("error", r, <<>>) /\ UNCHANGED buffers
      BY <1>7 DEF FlushError
    <2>2. OwnersOf(<<>>) \subseteq Known(r)
      BY DEF OwnersOf
    <2>3. /\ files' \in [Logs \cup {"error"} -> [by : Requests \cup {Nobody}, pieces : Pieces]]
          /\ mode = "errors" /\ Recent => FilesAreRecent'
      BY <1>1, <2>1, <2>2, WriteIsRecent
    <2>4. CASE mode = "all"
      <3>1. flush' = [flush EXCEPT ![r] = [pc |-> "no", copy |-> Empty]]
        BY <1>7, <2>4 DEF FlushError, NotFlushing
      <3>. QED BY <1>1, <2>1, <2>3, <2>4, <3>1, FlushMoves, FlushFrameStep DEF LogShape
    <2>5. CASE mode # "all"
      <3>1. FlushTo(r, "clear")
        BY <1>7, <2>5 DEF FlushError, FlushTo
      <3>2. flush' = [flush EXCEPT ![r] = [pc |-> "clear", copy |-> copy]]
        BY <1>3, <3>1
      <3>3. PICK next \in {"no", "recreate", "copy", "clear", "error"} \cup Logs :
              next # "no" /\ flush' = [flush EXCEPT ![r] = [pc |-> next, copy |-> copy]]
        BY <3>2
      <3>. QED BY <1>1, <1>2, <2>1, <2>3, <3>3, FlushMoves, FlushFrameStep DEF LogShape
    <2>. QED BY <2>4, <2>5
  <1>8. CASE FlushClear(r)
    <2>1. /\ flush' = [flush EXCEPT ![r] = [pc |-> "no", copy |-> Empty]]
          /\ buffers' = Empty /\ UNCHANGED files
      BY <1>8 DEF FlushClear, clearBuffers, NotFlushing
    <2>2. \A log \in Logs : OwnersOf(Empty[log]) \subseteq Known(r)
      BY DEF Empty, OwnersOf
    <2>3. /\ flush' \in [Requests -> [pc : {"no", "recreate", "copy", "clear", "error"} \cup Logs,
                                       copy : [Logs -> Pieces]]]
          /\ mode = "errors" /\ Recent => CopiesAreRecent'
      BY <1>1, <2>1, <2>2, FlushMoves
    <2>4. LogShape'
      BY <1>1, <2>1, <2>3, FilesUnchanged DEF LogShape
    <2>. QED BY <2>1, <2>3, <2>4, FilesUnchanged, FlushFrameStep
  <1>. QED BY <1>4, <1>5, <1>6, <1>7, <1>8 DEF FlushStep

-----------------------------------------------------------------------------
\* PrepareNewRequest in mode "all".
LEMMA DirectoryStep ==
  ASSUME IInv, NEW r \in Requests, Directory(r)
  PROVE  IInv'
  <1>1. Moves(r, "logBody") /\ HasPrepared(r) /\ request[r].pc # "flush"
    BY GotoMoves DEF Directory, At, IInv, HasPrepared
  <1>2. files' = NoFiles /\ UNCHANGED <<mode, buffers, flush, met>>
    BY DEF Directory, PrepareDir, recreateDir, world
  <1>3. RequestShape' /\ LogShape'
    BY <1>1, <1>2, NoFilesAreRecent DEF Moves, IInv, LogShape
  <1>4. SUFFICES ASSUME mode = "errors", Recent PROVE Recent'
    BY <1>2, <1>3 DEF IInv
  <1>5. InFlightHaveMet'
    <2>1. r \in InFlight /\ InFlight' \subseteq InFlight
      BY <1>1, InFlightAfter DEF InFlight, HasPrepared, InFlightPlace
    <2>. SUFFICES ASSUME NEW q \in InFlight' PROVE InFlight' \subseteq Known(q)'
      BY DEF InFlightHaveMet
    <2>. QED BY <1>2, <1>4, <2>1 DEF Recent, InFlightHaveMet, Known
  <1>6. BuffersAreRecent'
    <2>. SUFFICES ASSUME NEW q \in Requests, HasPrepared(q)', NEW log \in Logs
                  PROVE  OwnersOf(buffers[log]) \subseteq Known(q)'
      BY <1>2 DEF BuffersAreRecent
    <2>1. HasPrepared(q)
      BY <1>1 DEF Moves, HasPrepared
    <2>. QED BY <1>2, <1>4, <2>1 DEF Recent, BuffersAreRecent, Known
  <1>7. CopiesAreRecent'
    <2>. SUFFICES ASSUME NEW q \in Requests
                  PROVE  /\ ~Flushing(q)' => flush'[q] = NotFlushing
                         /\ Flushing(q)' => At(q, "flush")'
                         /\ \A log \in Logs : OwnersOf(flush'[q].copy[log]) \subseteq Known(q)'
      BY DEF CopiesAreRecent
    <2>1. Flushing(q) => q # r
      BY <1>1, <1>4 DEF Recent, CopiesAreRecent, At
    <2>2. Flushing(q)' => At(q, "flush")'
      BY <1>1, <1>2, <1>4, <2>1 DEF Recent, CopiesAreRecent, At, Moves, Flushing
    <2>. QED BY <1>2, <1>4, <2>2 DEF Recent, CopiesAreRecent, Flushing, Known
  <1>8. FilesAreRecent'
    BY <1>2, NoFilesAreRecent
  <1>. QED BY <1>5, <1>6, <1>7, <1>8 DEF Recent

\* The steps that change more of the record of a request than its place.
LEMMA RecordMoves ==
  ASSUME RequestShape, NEW r \in Requests
  PROVE  /\ Look(r) => Moves(r, "inject")
         /\ Convert(r) => Moves(r, "sent")
         /\ ModifiedChunk(r) => Moves(r, "stream")
         /\ Complete(r) => Moves(r, "save")
         /\ SaveTool(r) => Moves(r, "save")
  <1>1. IsRecord(request[r]) /\ Counts(request[r])
    BY DEF RequestShape
  <1>2. ASSUME NEW n, NEW found,
               request' = [request EXCEPT ![r].looked = n, ![r].found = found],
               At(r, "inject")
        PROVE  Moves(r, "inject")
    <2>. DEFINE s == [request[r] EXCEPT !.looked = n, !.found = found]
    <2>1. IsRecord(s)
      BY <1>1 DEF IsRecord, Fields
    <2>2. Counts(s) /\ s.pc = "inject"
      BY <1>1, <1>2 DEF IsRecord, Fields, Counts, At
    <2>3. request' = [request EXCEPT ![r] = s]
      BY <1>2
    <2>. HIDE DEF s
    <2>. QED BY <2>1, <2>2, <2>3, RecordStep
  <1>3. ASSUME NEW n \in Nat, NEW kiro,
               request' = [request EXCEPT ![r].pc = "sent", ![r].attempt = n,
                                          ![r].kiro = kiro]
        PROVE  Moves(r, "sent")
    <2>. DEFINE s == [request[r] EXCEPT !.pc = "sent", !.attempt = n, !.kiro = kiro]
    <2>1. IsRecord(s)
      BY <1>1 DEF IsRecord, Fields
    <2>2. Counts(s) /\ s.pc = "sent"
      BY <1>1 DEF IsRecord, Fields, Counts
    <2>3. request' = [request EXCEPT ![r] = s]
      BY <1>3
    <2>. HIDE DEF s
    <2>. QED BY <2>1, <2>2, <2>3, RecordStep
  <1>4. ASSUME NEW n \in Nat,
               request' = [request EXCEPT ![r].pc = "stream", ![r].chunks = n]
        PROVE  Moves(r, "stream")
    <2>. DEFINE s == [request[r] EXCEPT !.pc = "stream", !.chunks = n]
    <2>1. IsRecord(s)
      BY <1>1 DEF IsRecord, Fields
    <2>2. Counts(s) /\ s.pc = "stream"
      BY <1>1 DEF IsRecord, Fields, Counts
    <2>3. request' = [request EXCEPT ![r] = s]
      BY <1>4
    <2>. HIDE DEF s
    <2>. QED BY <2>1, <2>2, <2>3, RecordStep
  <1>5. ASSUME NEW reply,
               request' = [request EXCEPT ![r].pc = "save", ![r].reply = reply]
        PROVE  Moves(r, "save")
    <2>. DEFINE s == [request[r] EXCEPT !.pc = "save", !.reply = reply]
    <2>1. IsRecord(s)
      BY <1>1 DEF IsRecord, Fields
    <2>2. Counts(s) /\ s.pc = "save"
      BY <1>1 DEF IsRecord, Fields, Counts
    <2>3. request' = [request EXCEPT ![r] = s]
      BY <1>5
    <2>. HIDE DEF s
    <2>. QED BY <2>1, <2>2, <2>3, RecordStep
  <1>6. ASSUME NEW n, request' = [request EXCEPT ![r].saved = n], At(r, "save")
        PROVE  Moves(r, "save")
    <2>. DEFINE s == [request[r] EXCEPT !.saved = n]
    <2>1. IsRecord(s)
      BY <1>1 DEF IsRecord, Fields
    <2>2. Counts(s) /\ s.pc = "save"
      BY <1>1, <1>6 DEF IsRecord, Fields, Counts, At
    <2>3. request' = [request EXCEPT ![r] = s]
      BY <1>6
    <2>. HIDE DEF s
    <2>. QED BY <2>1, <2>2, <2>3, RecordStep
  <1>7. Look(r) => Moves(r, "inject")
    BY <1>2 DEF Look
  <1>8. Convert(r) => Moves(r, "sent")
    <2>. SUFFICES ASSUME Convert(r) PROVE Moves(r, "sent")
      OBVIOUS
    <2>1. request[r].attempt + 1 \in Nat
      BY <1>1 DEF Counts
    <2>. QED BY <1>3, <2>1 DEF Convert
  <1>9. ModifiedChunk(r) => Moves(r, "stream")
    <2>. SUFFICES ASSUME ModifiedChunk(r) PROVE Moves(r, "stream")
      OBVIOUS
    <2>1. request[r].chunks + 1 \in Nat
      BY <1>1 DEF Counts
    <2>2. request' = [request EXCEPT ![r].pc = "stream", ![r].chunks = request[r].chunks + 1]
      BY DEF ModifiedChunk, RequestShape
    <2>. QED BY <1>4, <2>1, <2>2
  <1>10. Complete(r) => Moves(r, "save")
    <2>. SUFFICES ASSUME Complete(r) PROVE Moves(r, "save")
      OBVIOUS
    <2>1. PICK reply \in body[r].replies :
            request' = [request EXCEPT ![r].pc = "save",
                         ![r].reply = IF TruncationRecoveryEnabled THEN reply ELSE @]
      BY DEF Complete
    <2>2. \E x : request' = [request EXCEPT ![r].pc = "save", ![r].reply = x]
      BY <2>1
    <2>. QED BY <1>5, <2>2
  <1>11. SaveTool(r) => Moves(r, "save")
    <2>. SUFFICES ASSUME SaveTool(r) PROVE Moves(r, "save")
      OBVIOUS
    <2>1. request' = [request EXCEPT ![r].saved = request[r].saved + 1]
      BY DEF SaveTool
    <2>. QED BY <1>6, <2>1 DEF SaveTool
  <1>. QED BY <1>7, <1>8, <1>9, <1>10, <1>11
-----------------------------------------------------------------------------
LEMMA InitIInv == Init => IInv
  <1>. SUFFICES ASSUME Init PROVE IInv
    OBVIOUS
  <1>1. /\ LogInit /\ request = [r \in Requests |-> Waiting]
        /\ met = [r \in Requests |-> {}]
    BY DEF Init
  <1>2. IsRecord(Waiting) /\ Waiting.pc = "idle"
    BY DEF IsRecord, Fields, Waiting
  <1>3. Counts(Waiting)
    BY DEF Counts, Waiting
  <1>4. RequestShape
    BY <1>1, <1>2, <1>3 DEF RequestShape
  <1>5. Empty \in [Logs -> Pieces] /\ \A log \in Logs : OwnersOf(Empty[log]) = {}
    BY DEF Empty, Pieces, OwnersOf
  <1>6. NotFlushing \in [pc : {"no", "recreate", "copy", "clear", "error"} \cup Logs,
                         copy : [Logs -> Pieces]]
    BY <1>5 DEF NotFlushing
  <1>7. \A file \in Logs \cup {"error"} : NoFiles[file] = NoFile
    BY DEF NoFiles
  <1>8. LogShape
    BY <1>1, <1>5, <1>6, NoFilesAreRecent DEF LogInit, LogShape
  <1>9. \A r \in Requests : request[r].pc = "idle"
    BY <1>1, <1>2
  <1>10. InFlightHaveMet /\ BuffersAreRecent
    BY <1>9 DEF InFlightHaveMet, InFlight, BuffersAreRecent, HasPrepared
  <1>11. CopiesAreRecent
    <2>1. NotFlushing.copy = Empty /\ NotFlushing.pc = "no"
      BY DEF NotFlushing
    <2>2. \A r \in Requests : flush[r] = NotFlushing
      BY <1>1 DEF LogInit
    <2>. QED BY <1>5, <2>1, <2>2 DEF CopiesAreRecent, Flushing
  <1>12. FilesAreRecent
    BY <1>1, <1>7 DEF LogInit, FilesAreRecent, NoFile
  <1>. QED BY <1>4, <1>8, <1>10, <1>11, <1>12 DEF IInv, Recent

\* A request that has got so far has cleared the buffers, if there are any.
LEMMA NextIInv == IInv /\ [Next]_vars => IInv'
  <1>1. ASSUME IInv, UNCHANGED vars PROVE IInv'
    BY <1>1 DEF vars, caches, IInv, RequestShape, LogShape, Recent, InFlightHaveMet,
        InFlight, Known, BuffersAreRecent, HasPrepared, CopiesAreRecent, Flushing,
        At, FilesAreRecent
  <1>. SUFFICES ASSUME IInv, NEW r \in Requests, Arrive(r) \/ Proceed(r)
                PROVE  IInv'
    BY <1>1 DEF Next
  <1>2. RequestShape /\ LogShape
    BY DEF IInv
  <1>3. CASE Arrive(r)
    BY <1>3, ArriveStep
  <1>4. CASE Prepare(r)
    <2>. DEFINE pc == IF mode = "all" THEN "directory" ELSE "logBody"
    <2>1. Goto(r, pc) /\ pc # "idle"
      BY <1>4 DEF Prepare
    <2>. HIDE DEF pc
    <2>2. Moves(r, pc)
      BY <1>2, <2>1, GotoMoves
    <2>3. buffers' = Empty /\ UNCHANGED <<mode, files, flush, met>>
      BY <1>4 DEF Prepare, PrepareBuffers, clearBuffers, world
    <2>4. InFlightPlace(request[r].pc) /\ ~At(r, "flush")
      BY <1>4 DEF Prepare, At, InFlightPlace
    <2>. QED BY <2>1, <2>2, <2>3, <2>4, ClearStep
  <1>5. CASE Directory(r)
    BY <1>5, DirectoryStep
  <1>6. CASE Discard(r)
    <2>1. Moves(r, "done")
      BY <1>2, <1>6, EndsMoves DEF Discard
    <2>2. /\ buffers' = Empty \/ (mode # "errors" /\ UNCHANGED buffers)
          /\ UNCHANGED <<mode, files, flush, met>>
      BY <1>6 DEF Discard, DiscardBuffers, clearBuffers, world
    <2>3. InFlightPlace(request[r].pc) /\ ~At(r, "flush")
      BY <1>6 DEF Discard, At, InFlightPlace
    <2>. QED BY <2>1, <2>2, <2>3, ClearStep
  <1>7. CASE Fatal(r) \/ Broken(r)
    <2>1. Moves(r, "flush")
      BY <1>2, <1>7, GotoMoves DEF Fatal, Broken
    <2>2. StartFlush(r) /\ HasPrepared(r) /\ ~At(r, "flush") /\ met' = met
      BY <1>7 DEF Fatal, Broken, At, HasPrepared, world
    <2>. QED BY <2>1, <2>2, StartFlushStep
  <1>8. CASE Flush(r)
    <2>1. FlushFrame(r) /\ FlushStep(r)
      BY <1>8 DEF Flush, FlushFrame, world, FlushStep, FlushDir, FlushCopy, FlushFile,
          FlushError, FlushClear
    <2>. QED BY <2>1, FlushStepStep
  <1>9. CASE Flushed(r)
    <2>1. Moves(r, "done") /\ Logged(r)
      BY <1>2, <1>9, EndsMoves, NothingLogged DEF Flushed
    <2>2. HasPrepared(r) /\ ~Flushing(r) /\ met' = met
      BY <1>9 DEF Flushed, At, HasPrepared, world
    <2>. QED BY <2>1, <2>2, LoggedStep
  <1>10. ASSUME NEW pc, Moves(r, pc), Logged(r), HasPrepared(r), ~At(r, "flush"),
                pc \notin {"idle", "prepare"}, met' = met
         PROVE  IInv'
    BY <1>10, LoggedStep DEF At
  \* The steps that log something.
  <1>11. ASSUME \E log \in Logs, n \in Nat : logBody(log, r, n) \/ logChunk(log, r, n)
         PROVE  Logged(r)
    BY <1>2, <1>11, BodyLogged, ChunkLogged
  <1>12. CASE LogRequestBody(r)
    <2>1. Moves(r, "authorize")
      BY <1>2, <1>12, GotoMoves DEF LogRequestBody
    <2>2. Logged(r)
      BY <1>11, <1>12 DEF LogRequestBody, Logs
    <2>. QED BY <1>10, <1>12, <2>1, <2>2 DEF LogRequestBody, At, HasPrepared, world
  <1>13. CASE SearchAsked(r)
    <2>1. Moves(r, "searching")
      BY <1>2, <1>13, GotoMoves DEF SearchAsked
    <2>2. Logged(r)
      BY <1>11, <1>13 DEF SearchAsked, Logs
    <2>. QED BY <1>10, <1>13, <2>1, <2>2 DEF SearchAsked, At, HasPrepared, world
  <1>14. CASE SearchAnswered(r)
    <2>1. Moves(r, "done")
      BY <1>2, <1>14, EndsMoves DEF SearchAnswered
    <2>2. Logged(r)
      BY <1>2, <1>11, <1>14, NothingLogged DEF SearchAnswered, Logs
    <2>. QED BY <1>10, <1>14, <2>1, <2>2 DEF SearchAnswered, At, HasPrepared, world
  <1>15. CASE Convert(r)
    <2>1. Moves(r, "sent")
      BY <1>2, <1>15, RecordMoves
    <2>2. request[r].attempt + 1 \in Nat
      BY <1>2 DEF RequestShape, Counts
    <2>3. Logged(r)
      BY <1>11, <1>15, <2>2 DEF Convert, Logs
    <2>. QED BY <1>10, <1>15, <2>1, <2>3 DEF Convert, At, HasPrepared, world
  <1>16. CASE RawChunk(r)
    <2>1. Moves(r, "write")
      BY <1>2, <1>16, GotoMoves DEF RawChunk
    <2>2. request[r].chunks + 1 \in Nat
      BY <1>2 DEF RequestShape, Counts
    <2>3. Logged(r)
      BY <1>11, <1>16, <2>2 DEF RawChunk, Logs
    <2>. QED BY <1>10, <1>16, <2>1, <2>3 DEF RawChunk, At, HasPrepared, world
  <1>17. CASE ModifiedChunk(r)
    <2>1. Moves(r, "stream")
      BY <1>2, <1>17, RecordMoves
    <2>2. request[r].chunks + 1 \in Nat
      BY <1>2 DEF RequestShape, Counts
    <2>3. Logged(r)
      BY <1>11, <1>17, <2>2 DEF ModifiedChunk, Logs
    <2>. QED BY <1>10, <1>17, <2>1, <2>3 DEF ModifiedChunk, At, HasPrepared, world
  \* The steps that log nothing.
  <1>18. CASE Authorize(r)
    <2>1. \E pc : Moves(r, pc) /\ pc \notin {"idle", "prepare"}
      BY <1>2, <1>18, GotoMoves, EndsMoves DEF Authorize
    <2>2. Logged(r) /\ HasPrepared(r) /\ ~At(r, "flush") /\ met' = met
      BY <1>2, <1>18, NothingLogged DEF Authorize, At, HasPrepared, world
    <2>. QED BY <1>10, <2>1, <2>2
  <1>19. CASE Look(r) \/ Complete(r) \/ SaveTool(r)
    <2>1. \E pc : Moves(r, pc) /\ pc \notin {"idle", "prepare"}
      BY <1>2, <1>19, RecordMoves
    <2>2. UNCHANGED logVars /\ HasPrepared(r) /\ ~At(r, "flush") /\ met' = met
      BY <1>19 DEF Look, Complete, SaveTool, At, HasPrepared, world
    <2>. QED BY <1>2, <1>10, <2>1, <2>2, NothingLogged
  <1>20. CASE Looked(r)
    <2>1. \E pc : Goto(r, pc) /\ pc \notin {"idle", "prepare"}
      BY <1>20 DEF Looked
    <2>2. UNCHANGED logVars /\ HasPrepared(r) /\ ~At(r, "flush") /\ met' = met
      BY <1>20 DEF Looked, At, HasPrepared, world
    <2>. QED BY <1>2, <1>10, <2>1, <2>2, GotoMoves, NothingLogged
  <1>21. CASE Retry(r) \/ Answered(r) \/ SaveContent(r)
    <2>1. \E pc : Goto(r, pc) /\ pc \notin {"idle", "prepare"}
      BY <1>21 DEF Retry, Answered, SaveContent
    <2>2. UNCHANGED logVars /\ HasPrepared(r) /\ ~At(r, "flush") /\ met' = met
      BY <1>21 DEF Retry, Answered, SaveContent, At, HasPrepared, world
    <2>. QED BY <1>2, <1>10, <2>1, <2>2, GotoMoves, NothingLogged
  <1>22. CASE SearchRefused(r) \/ Panic(r) \/ Exhausted(r)
    <2>1. \E pc : Moves(r, pc) /\ pc \notin {"idle", "prepare"}
      BY <1>2, <1>22, EndsMoves DEF SearchRefused, Panic, Exhausted
    <2>2. UNCHANGED logVars /\ HasPrepared(r) /\ ~At(r, "flush") /\ met' = met
      BY <1>22 DEF SearchRefused, Panic, Exhausted, At, HasPrepared, world
    <2>. QED BY <1>2, <1>10, <2>1, <2>2, NothingLogged
  <1>. QED BY <1>3, <1>4, <1>5, <1>6, <1>7, <1>8, <1>9, <1>12, <1>13, <1>14, <1>15,
              <1>16, <1>17, <1>18, <1>19, <1>20, <1>21, <1>22 DEF Proceed

-----------------------------------------------------------------------------
(* The invariant holds in every reachable state.                           *)
THEOREM InvariantHolds == Spec => []IInv
  <1>1. Init => IInv
    BY InitIInv
  <1>2. IInv /\ [Next]_vars => IInv'
    BY NextIInv
  <1>. QED BY <1>1, <1>2, PTL DEF Spec

(* However many requests share the one debug logger, the files an error      *)
(* leaves in mode "errors" hold nothing of a request that was over before    *)
(* the one that failed began (PrepareNewRequest and FlushOnError in          *)
(* debuglogger.go, called by the middleware and the handlers).               *)
THEOREM DumpsOfContemporaries == Spec => []DumpsOnlyContemporaries
  <1>1. IInv => DumpsOnlyContemporaries
    <2>. SUFFICES ASSUME IInv, mode = "errors", NEW file \in Logs, files[file].by # Nobody
                  PROVE  Owners(file) \subseteq {files[file].by} \cup met[files[file].by]
      BY DEF DumpsOnlyContemporaries
    <2>1. Owners(file) = OwnersOf(files[file].pieces)
      BY DEF Owners, OwnersOf
    <2>. QED BY <2>1 DEF IInv, Recent, FilesAreRecent, Known
  <1>. QED BY <1>1, InvariantHolds, PTL
-----------------------------------------------------------------------------
(* Where a request is, and what is remembered of it.  The bodies are those   *)
(* of a scenario, and what is on its way to Kiro is what the handler made of *)
(* the body and of the notices found for it.                                 *)
Bodies == DOMAIN body \subseteq Requests /\ \A r \in DOMAIN body : IsBody(body[r])

Progress(r) ==
  LET s == request[r]
  IN  /\ s.pc \in Places /\ s.end \in Ways /\ (s.end = "none" <=> s.pc # "done")
      /\ s.looked \in Nat /\ s.saved \in Nat /\ s.found \subseteq 1 .. s.looked
      /\ s.pc # "idle" => r \in DOMAIN body
      /\ s.attempt \in Nat /\ (s.attempt > 0 => s.attempt <= body[r].accounts)
      /\ s.chunks \in 0 .. MaxChunks /\ (s.pc = "write" => s.chunks < MaxChunks)
      /\ s.pc \notin {"save", "discard", "done"} => s.saved = 0
      /\ Flushing(r) => s.pc = "flush"
      /\ s.pc = "sent" => ~Panics(Prepared(r)) /\ s.kiro = ToKiro(Prepared(r), limit)

Course ==
  /\ Bodies /\ mode \in {"off", "errors", "all"} /\ met \in [Requests -> SUBSET Requests]
  /\ \A r \in Requests : Progress(r)

\* What a step of r leaves alone: the other requests, and the fields it does not
\* change.
Changes(r, fields) ==
  /\ \A q \in Requests \ {r} : request'[q] = request[q]
  /\ \A f \in Fields \ fields : request'[r][f] = request[r][f]

LEMMA GotoChanges ==
  ASSUME RequestShape, NEW r \in Requests, NEW pc, Goto(r, pc)
  PROVE  Changes(r, {"pc"}) /\ request'[r].pc = pc
  <1>1. request' = [request EXCEPT ![r] = [request[r] EXCEPT !.pc = pc]]
    BY DEF Goto
  <1>2. request'[r] = [request[r] EXCEPT !.pc = pc]
    BY <1>1 DEF RequestShape
  <1>. QED BY <1>1, <1>2 DEF RequestShape, IsRecord, Fields, Changes

LEMMA EndsChanges ==
  ASSUME RequestShape, NEW r \in Requests, NEW how, Ends(r, how)
  PROVE  Changes(r, {"pc", "end"}) /\ request'[r].pc = "done" /\ request'[r].end = how
  <1>1. request' = [request EXCEPT ![r] = [request[r] EXCEPT !.pc = "done", !.end = how]]
    BY DEF Ends
  <1>2. request'[r] = [request[r] EXCEPT !.pc = "done", !.end = how]
    BY <1>1 DEF RequestShape
  <1>. QED BY <1>1, <1>2 DEF RequestShape, IsRecord, Fields, Changes

LEMMA LookChanges ==
  ASSUME RequestShape, NEW r \in Requests, Look(r)
  PROVE  LET n == request[r].looked + 1
         IN  /\ Changes(r, {"looked", "found"}) /\ request'[r].looked = n
             /\ request'[r].found = IF Recorded(Lookups(body[r])[n])
                                    THEN request[r].found \cup {n} ELSE request[r].found
  <1>. DEFINE n == request[r].looked + 1
              found == IF Recorded(Lookups(body[r])[n])
                       THEN request[r].found \cup {n} ELSE request[r].found
  <1>1. request' = [request EXCEPT ![r] = [request[r] EXCEPT !.looked = n, !.found = found]]
    BY DEF Look
  <1>. HIDE DEF n, found
  <1>2. request'[r] = [request[r] EXCEPT !.looked = n, !.found = found]
    BY <1>1 DEF RequestShape
  <1>3. Changes(r, {"looked", "found"}) /\ request'[r].looked = n /\ request'[r].found = found
    BY <1>1, <1>2 DEF RequestShape, IsRecord, Fields, Changes
  <1>. QED BY <1>3 DEF n, found

LEMMA ConvertChanges ==
  ASSUME RequestShape, NEW r \in Requests, Convert(r)
  PROVE  /\ Changes(r, {"pc", "attempt", "kiro"})
         /\ request'[r].pc = "sent" /\ request'[r].attempt = request[r].attempt + 1
         /\ request'[r].kiro = ToKiro(Prepared(r), limit)
  <1>. DEFINE n == request[r].attempt + 1
              kiro == ToKiro(Prepared(r), limit)
  <1>1. request' = [request EXCEPT ![r] =
                      [request[r] EXCEPT !.pc = "sent", !.attempt = n, !.kiro = kiro]]
    BY DEF Convert
  <1>. HIDE DEF n, kiro
  <1>2. request'[r] = [request[r] EXCEPT !.pc = "sent", !.attempt = n, !.kiro = kiro]
    BY <1>1 DEF RequestShape
  <1>3. /\ Changes(r, {"pc", "attempt", "kiro"})
        /\ request'[r].pc = "sent" /\ request'[r].attempt = n /\ request'[r].kiro = kiro
    BY <1>1, <1>2 DEF RequestShape, IsRecord, Fields, Changes
  <1>. QED BY <1>3 DEF n, kiro

LEMMA ModifiedChunkChanges ==
  ASSUME RequestShape, NEW r \in Requests, ModifiedChunk(r)
  PROVE  /\ Changes(r, {"pc", "chunks"})
         /\ request'[r].pc = "stream" /\ request'[r].chunks = request[r].chunks + 1
  <1>. DEFINE n == request[r].chunks + 1
  <1>1. request' = [request EXCEPT ![r] = [request[r] EXCEPT !.pc = "stream", !.chunks = n]]
    BY DEF ModifiedChunk, RequestShape
  <1>. HIDE DEF n
  <1>2. request'[r] = [request[r] EXCEPT !.pc = "stream", !.chunks = n]
    BY <1>1 DEF RequestShape
  <1>3. Changes(r, {"pc", "chunks"}) /\ request'[r].pc = "stream" /\ request'[r].chunks = n
    BY <1>1, <1>2 DEF RequestShape, IsRecord, Fields, Changes
  <1>. QED BY <1>3 DEF n

LEMMA CompleteChanges ==
  ASSUME RequestShape, NEW r \in Requests, Complete(r)
  PROVE  Changes(r, {"pc", "reply"}) /\ request'[r].pc = "save"
  <1>1. PICK reply : request' = [request EXCEPT ![r] =
                                   [request[r] EXCEPT !.pc = "save", !.reply = reply]]
    <2>1. PICK reply \in body[r].replies :
            request' = [request EXCEPT ![r].pc = "save",
                         ![r].reply = IF TruncationRecoveryEnabled THEN reply ELSE @]
      BY DEF Complete
    <2>2. request' = [request EXCEPT ![r] =
                        [request[r] EXCEPT !.pc = "save",
                          !.reply = IF TruncationRecoveryEnabled THEN reply ELSE @]]
      BY <2>1
    <2>. QED BY <2>2
  <1>2. request'[r] = [request[r] EXCEPT !.pc = "save", !.reply = reply]
    BY <1>1 DEF RequestShape
  <1>. QED BY <1>1, <1>2 DEF RequestShape, IsRecord, Fields, Changes

LEMMA SaveToolChanges ==
  ASSUME RequestShape, NEW r \in Requests, SaveTool(r)
  PROVE  Changes(r, {"saved"}) /\ request'[r].saved = request[r].saved + 1
  <1>. DEFINE n == request[r].saved + 1
  <1>1. request' = [request EXCEPT ![r] = [request[r] EXCEPT !.saved = n]]
    BY DEF SaveTool, RequestShape
  <1>. HIDE DEF n
  <1>2. request'[r] = [request[r] EXCEPT !.saved = n]
    BY <1>1 DEF RequestShape
  <1>3. Changes(r, {"saved"}) /\ request'[r].saved = n
    BY <1>1, <1>2 DEF RequestShape, IsRecord, Fields, Changes
  <1>. QED BY <1>3 DEF n

-----------------------------------------------------------------------------
\* A step of one request leaves this alone.
Frame(r) ==
  /\ UNCHANGED <<body, limit, start, mode>>
  /\ \A q \in Requests \ {r} : flush'[q] = flush[q] /\ request'[q] = request[q]

LEMMA LogFrame ==
  ASSUME RequestShape, LogShape, NEW r \in Requests, Arrive(r) \/ Proceed(r)
  PROVE  Frame(r)
  <1>1. UNCHANGED <<body, limit, start>>
    BY SMTT(60) DEF Arrive, Proceed, world, Prepare, Directory, LogRequestBody, Authorize, Look, Looked,
        SearchRefused, SearchAsked, SearchAnswered, Convert, Panic, Exhausted, Retry, Fatal,
        Answered, RawChunk, ModifiedChunk, Broken, Flush, Flushed, Complete, SaveTool,
        SaveContent, Discard
  <1>0. \A q \in Requests \ {r} : request'[q] = request[q]
    BY DEF RequestShape, Arrive, Proceed, Goto, Ends, Prepare, Directory, LogRequestBody,
        Authorize, Look, Looked, SearchRefused, SearchAsked, SearchAnswered, Convert, Panic,
        Exhausted, Retry, Fatal, Answered, RawChunk, ModifiedChunk, Broken, Flush, Flushed,
        Complete, SaveTool, SaveContent, Discard
  <1>2. CASE UNCHANGED <<mode, flush>>
    BY <1>0, <1>1, <1>2 DEF Frame
  <1>3. ASSUME \E pc : FlushTo(r, pc) PROVE \A q \in Requests \ {r} : flush'[q] = flush[q]
    BY <1>3 DEF FlushTo, LogShape
  <1>4. CASE Fatal(r) \/ Broken(r)
    BY <1>0, <1>1, <1>3, <1>4 DEF Fatal, Broken, StartFlush, Frame
  <1>5. CASE Flush(r)
    <2>1. mode' = mode
      BY <1>5 DEF Flush, FlushStep, FlushDir, FlushCopy, FlushFile, FlushError, FlushClear
    <2>2. \/ \E pc : FlushTo(r, pc)
          \/ \E s : flush' = [flush EXCEPT ![r] = s]
      BY <1>5 DEF Flush, FlushStep, FlushDir, FlushCopy, FlushFile, FlushError, FlushClear
    <2>3. \A q \in Requests \ {r} : flush'[q] = flush[q]
      BY <1>3, <2>2 DEF LogShape
    <2>. QED BY <1>0, <1>1, <2>1, <2>3 DEF Frame
  <1>6. CASE LogRequestBody(r) \/ Convert(r)
    BY <1>2, <1>6 DEF LogRequestBody, Convert, logBody
  <1>7. CASE SearchAsked(r) \/ SearchAnswered(r) \/ RawChunk(r) \/ ModifiedChunk(r)
    BY <1>2, <1>7 DEF SearchAsked, SearchAnswered, RawChunk, ModifiedChunk, logChunk, logVars
  <1>8. CASE Prepare(r) \/ Directory(r) \/ Discard(r)
    BY <1>2, <1>8 DEF Prepare, Directory, Discard, PrepareBuffers, PrepareDir, DiscardBuffers
  <1>9. CASE \/ Arrive(r) \/ Authorize(r) \/ Look(r) \/ Looked(r) \/ SearchRefused(r) \/ Panic(r)
             \/ Exhausted(r) \/ Retry(r) \/ Answered(r) \/ Flushed(r) \/ Complete(r)
             \/ SaveTool(r) \/ SaveContent(r)
    BY <1>2, <1>9 DEF Arrive, Authorize, Look, Looked, SearchRefused, Panic, Exhausted, Retry,
        Answered, Flushed, Complete, SaveTool, SaveContent, logVars
  <1>. QED BY <1>4, <1>5, <1>6, <1>7, <1>8, <1>9 DEF Proceed

\* Only an arrival changes who has met whom.
LEMMA ProceedsWithoutMeeting ==
  ASSUME NEW r \in Requests, Proceed(r)
  PROVE  met' = met
  BY DEF Proceed, world, Prepare, Directory, LogRequestBody, Authorize, Look, Looked,
      SearchRefused, SearchAsked, SearchAnswered, Convert, Panic, Exhausted, Retry, Fatal,
      Answered, RawChunk, ModifiedChunk, Broken, Flush, Flushed, Complete, SaveTool,
      SaveContent, Discard

LEMMA OthersProgress ==
  ASSUME NEW r, Frame(r), NEW q \in Requests, q # r, request'[q] = request[q], Progress(q)
  PROVE  Progress(q)'
  <1>1. Prepared(q)' = Prepared(q)
    BY DEF Prepared, WithNotices, FoundAt, Frame
  <1>. QED BY <1>1 DEF Progress, Frame, Flushing

\* A request that goes from one place to another and changes nothing else.
LEMMA PlaceProgress ==
  ASSUME NEW r \in Requests, Frame(r), Progress(r), NEW pc \in Places, NEW fields,
         Changes(r, fields), fields \subseteq {"pc", "end", "reply"}, request'[r].pc = pc,
         IF pc = "done" THEN request'[r].end \in Ways \ {"none"}
                        ELSE request'[r].end = request[r].end,
         request[r].pc \notin {"idle", "done"} \/ (r \in DOMAIN body /\ request[r].pc = "idle"),
         request[r].pc \in {"save", "discard"} => pc \in {"discard", "done"},
         pc = "write" => request[r].chunks < MaxChunks, pc # "sent",
         Flushing(r)' => pc = "flush"
  PROVE  Progress(r)'
  <1>1. /\ request'[r].looked = request[r].looked /\ request'[r].saved = request[r].saved
        /\ request'[r].found = request[r].found /\ request'[r].attempt = request[r].attempt
        /\ request'[r].chunks = request[r].chunks
    BY DEF Changes, Fields
  <1>2. request[r].end = "none" /\ request'[r].end \in Ways
    BY DEF Progress, Ways
  <1>3. request'[r].end = "none" <=> pc # "done"
    BY <1>2
  <1>. QED BY <1>1, <1>2, <1>3 DEF Progress, Frame

\* Every step of a request keeps its own account right.
LEMMA OwnProgress ==
  ASSUME RequestShape, LogShape, Bodies, NEW r \in Requests, Progress(r), Frame(r),
         Arrive(r) \/ Proceed(r)
  PROVE  Progress(r)'
  <1>. DEFINE s == request[r]
  <1>1. ASSUME NEW pc \in Places \ {"done", "sent", "write"}, Goto(r, pc),
               s.pc \notin {"idle", "done"} \/ (r \in DOMAIN body /\ s.pc = "idle"),
               s.pc \in {"save", "discard"} => pc = "discard",
               Flushing(r)' => pc = "flush"
        PROVE  Progress(r)'
    <2>1. Changes(r, {"pc"}) /\ request'[r].pc = pc
      BY <1>1, GotoChanges
    <2>2. request'[r].end = request[r].end
      BY <2>1 DEF Changes, Fields
    <2>3. PICK fields : fields = {"pc"}
      OBVIOUS
    <2>. QED BY <1>1, <2>1, <2>2, <2>3, PlaceProgress
  <1>2. ASSUME NEW how \in Ways \ {"none"}, Ends(r, how), s.pc \notin {"idle", "done", "save"},
               ~Flushing(r)'
        PROVE  Progress(r)'
    <2>1. Changes(r, {"pc", "end"}) /\ request'[r].pc = "done" /\ request'[r].end = how
      BY <1>2, EndsChanges
    <2>2. PICK fields : fields = {"pc", "end"}
      OBVIOUS
    <2>3. PICK pc \in Places : pc = "done"
      BY DEF Places
    <2>. QED BY <1>2, <2>1, <2>2, <2>3, PlaceProgress
  \* A request flushes nothing where it is not flushing.
  <1>3. ASSUME flush' = flush, s.pc # "flush" PROVE ~Flushing(r)'
    BY <1>3 DEF Progress, Flushing
  <1>4. CASE Arrive(r)
    BY <1>1, <1>3, <1>4 DEF Arrive, At, Places, logVars
  <1>5. CASE Prepare(r) \/ Directory(r)
    BY <1>1, <1>3, <1>5 DEF Prepare, Directory, PrepareBuffers, PrepareDir, At, Places
  <1>6. CASE LogRequestBody(r)
    BY <1>1, <1>3, <1>6 DEF LogRequestBody, logBody, At, Places
  <1>7. CASE Authorize(r)
    BY <1>1, <1>2, <1>3, <1>7 DEF Authorize, At, Places, Ways, logVars
  <1>8. CASE Look(r)
    <2>1. /\ Changes(r, {"looked", "found"}) /\ request'[r].looked = s.looked + 1
          /\ request'[r].found \subseteq s.found \cup {s.looked + 1}
      BY <1>8, LookChanges
    <2>2. s.pc = "inject" /\ ~Flushing(r)'
      BY <1>3, <1>8 DEF Look, At, logVars
    <2>3. request'[r].found \subseteq 1 .. request'[r].looked /\ request'[r].looked \in Nat
      BY <2>1 DEF Progress
    <2>4. /\ request'[r].pc = s.pc /\ request'[r].end = s.end /\ request'[r].saved = s.saved
          /\ request'[r].attempt = s.attempt /\ request'[r].chunks = s.chunks
      BY <2>1 DEF Changes, Fields
    <2>. QED BY <2>2, <2>3, <2>4 DEF Progress, Frame
  <1>9. CASE Looked(r)
    BY <1>1, <1>3, <1>9 DEF Looked, At, Places, logVars
  <1>10. CASE SearchRefused(r) \/ Panic(r) \/ Exhausted(r)
    BY <1>2, <1>3, <1>10 DEF SearchRefused, Panic, Exhausted, At, Ways, logVars
  <1>11. CASE SearchAsked(r)
    BY <1>1, <1>3, <1>11 DEF SearchAsked, logChunk, At, Places
  <1>12. CASE SearchAnswered(r)
    BY <1>2, <1>3, <1>12 DEF SearchAnswered, logChunk, At, Ways, logVars
  <1>13. CASE Convert(r)
    <2>1. /\ Changes(r, {"pc", "attempt", "kiro"})
          /\ request'[r].pc = "sent" /\ request'[r].attempt = s.attempt + 1
          /\ request'[r].kiro = ToKiro(Prepared(r), limit)
      BY <1>13, ConvertChanges
    <2>2. /\ request'[r].end = s.end /\ request'[r].saved = s.saved
          /\ request'[r].looked = s.looked /\ request'[r].found = s.found
          /\ request'[r].chunks = s.chunks
      BY <2>1 DEF Changes, Fields
    <2>3. s.pc = "attempt" /\ s.attempt < body[r].accounts /\ ~Panics(Prepared(r))
      BY <1>13 DEF Convert, At
    <2>4. r \in DOMAIN body /\ body[r].accounts \in Nat
      BY <2>3 DEF Progress, Bodies, IsBody
    <2>5. request'[r].attempt \in Nat /\ request'[r].attempt <= body[r].accounts
      BY <2>1, <2>3, <2>4 DEF Progress
    <2>6. Prepared(r)' = Prepared(r) /\ limit' = limit /\ body' = body
      BY <2>2 DEF Prepared, WithNotices, FoundAt, Frame
    <2>7. ~Flushing(r)'
      BY <1>3, <1>13, <2>3 DEF Convert, logBody
    <2>. QED BY <2>1, <2>2, <2>3, <2>4, <2>5, <2>6, <2>7 DEF Progress, Places
  <1>14. CASE Retry(r) \/ Answered(r)
    BY <1>1, <1>3, <1>14 DEF Retry, Answered, At, Places, logVars
  <1>15. CASE Fatal(r) \/ Broken(r)
    BY <1>1, <1>15 DEF Fatal, Broken, At, Places
  <1>16. CASE RawChunk(r)
    <2>1. Changes(r, {"pc"}) /\ request'[r].pc = "write" /\ s.pc = "stream" /\ s.chunks < MaxChunks
      BY <1>16, GotoChanges DEF RawChunk, At
    <2>2. request'[r].end = s.end
      BY <2>1 DEF Changes, Fields
    <2>3. ~Flushing(r)'
      BY <1>3, <1>16, <2>1 DEF RawChunk, logChunk
    <2>4. PICK fields : fields = {"pc"}
      OBVIOUS
    <2>5. PICK pc \in Places : pc = "write"
      BY DEF Places
    <2>. QED BY <2>1, <2>2, <2>3, <2>4, <2>5, PlaceProgress
  <1>17. CASE ModifiedChunk(r)
    <2>1. /\ Changes(r, {"pc", "chunks"}) /\ request'[r].pc = "stream"
          /\ request'[r].chunks = s.chunks + 1 /\ s.pc = "write"
      BY <1>17, ModifiedChunkChanges DEF ModifiedChunk, At
    <2>2. /\ request'[r].end = s.end /\ request'[r].saved = s.saved
          /\ request'[r].looked = s.looked /\ request'[r].found = s.found
          /\ request'[r].attempt = s.attempt
      BY <2>1 DEF Changes, Fields
    <2>3. request'[r].chunks \in 0 .. MaxChunks
      BY <2>1, RequestsAssumption DEF Progress
    <2>4. ~Flushing(r)'
      BY <1>3, <1>17, <2>1 DEF ModifiedChunk, logChunk
    <2>. QED BY <2>1, <2>2, <2>3, <2>4 DEF Progress, Frame, Places
  <1>18. CASE Flush(r)
    <2>1. request' = request /\ s.pc = "flush"
      BY <1>18 DEF Flush, At
    <2>. QED BY <2>1 DEF Progress, Frame
  <1>19. CASE Flushed(r)
    BY <1>2, <1>19 DEF Flushed, At, Ways, logVars, Flushing
  <1>20. CASE Complete(r)
    <2>1. Changes(r, {"pc", "reply"}) /\ request'[r].pc = "save" /\ s.pc = "stream"
      BY <1>20, CompleteChanges DEF Complete, At
    <2>2. request'[r].end = s.end
      BY <2>1 DEF Changes, Fields
    <2>3. ~Flushing(r)'
      BY <1>3, <1>20, <2>1 DEF Complete, logVars
    <2>4. PICK fields : fields = {"pc", "reply"}
      OBVIOUS
    <2>5. PICK pc \in Places : pc = "save"
      BY DEF Places
    <2>. QED BY <2>1, <2>2, <2>3, <2>4, <2>5, PlaceProgress
  <1>21. CASE SaveTool(r)
    <2>1. Changes(r, {"saved"}) /\ request'[r].saved = s.saved + 1 /\ s.pc = "save"
      BY <1>21, SaveToolChanges DEF SaveTool, At
    <2>2. /\ request'[r].end = s.end /\ request'[r].pc = s.pc
          /\ request'[r].looked = s.looked /\ request'[r].found = s.found
          /\ request'[r].attempt = s.attempt /\ request'[r].chunks = s.chunks
      BY <2>1 DEF Changes, Fields
    <2>3. ~Flushing(r)'
      BY <1>3, <1>21, <2>1 DEF SaveTool, logVars
    <2>. QED BY <2>1, <2>2, <2>3 DEF Progress, Frame
  <1>22. CASE SaveContent(r)
    BY <1>1, <1>3, <1>22 DEF SaveContent, At, Places, logVars
  <1>23. CASE Discard(r)
    BY <1>2, <1>3, <1>23 DEF Discard, DiscardBuffers, At, Ways
  <1>. QED BY <1>4, <1>5, <1>6, <1>7, <1>8, <1>9, <1>10, <1>11, <1>12, <1>13, <1>14, <1>15,
              <1>16, <1>17, <1>18, <1>19, <1>20, <1>21, <1>22, <1>23 DEF Proceed

LEMMA InitCourse == Init => Course
  <1>. SUFFICES ASSUME Init PROVE Course
    OBVIOUS
  <1>1. PICK s \in Scenarios : body = s.body /\ mode = s.mode
    BY DEF Init
  <1>2. Bodies /\ mode \in {"off", "errors", "all"}
    BY <1>1, ScenariosAssumption DEF Bodies
  <1>3. met \in [Requests -> SUBSET Requests]
    BY DEF Init
  <1>4. ASSUME NEW r \in Requests PROVE Progress(r)
    <2>1. request[r] = Waiting /\ flush[r] = NotFlushing
      BY DEF Init, LogInit
    <2>2. ~Flushing(r)
      BY <2>1 DEF Flushing, NotFlushing
    <2>3. 0 \in 0 .. MaxChunks
      BY RequestsAssumption
    <2>. QED BY <2>1, <2>2, <2>3 DEF Waiting, Progress, Places, Ways
  <1>. QED BY <1>2, <1>3, <1>4 DEF Course

LEMMA NextCourse == IInv /\ Course /\ [Next]_vars => Course'
  <1>1. ASSUME Course, UNCHANGED vars PROVE Course'
    <2>1. UNCHANGED <<body, limit, mode, met, request, flush>>
      BY <1>1 DEF vars
    <2>2. \A r \in Requests : Prepared(r)' = Prepared(r)
      BY <2>1 DEF Prepared, WithNotices, FoundAt
    <2>3. \A r \in Requests : Progress(r)'
      BY <1>1, <2>1, <2>2 DEF Course, Progress, Flushing
    <2>. QED BY <1>1, <2>1, <2>3 DEF Course, Bodies
  <1>. SUFFICES ASSUME IInv, Course, NEW r \in Requests, Arrive(r) \/ Proceed(r)
                PROVE  Course'
    BY <1>1 DEF Next
  <1>2. Frame(r)
    BY LogFrame DEF IInv
  <1>3. \A q \in Requests \ {r} : request'[q] = request[q]
    BY <1>2 DEF Frame
  <1>4. ASSUME NEW q \in Requests PROVE Progress(q)'
    BY <1>2, <1>3, OwnProgress, OthersProgress DEF IInv, Course
  <1>5. met' \in [Requests -> SUBSET Requests]
    <2>1. CASE Arrive(r)
      BY <2>1 DEF Arrive, Course, InFlight
    <2>2. CASE Proceed(r)
      <3>1. met' = met
        BY <2>2, ProceedsWithoutMeeting
      <3>. QED BY <3>1 DEF Course
    <2>. QED BY <2>1, <2>2
  <1>. QED BY <1>2, <1>4, <1>5 DEF Course, Frame, Bodies

LEMMA CourseHolds == Spec => []Course
  BY InitCourse, NextCourse, InvariantHolds, PTL DEF Spec

\* A request moves from place to place as the handler does, no attempt goes
\* beyond the accounts there are, and none is flushing but where it waits for
\* the flush.
THEOREM TypesOfRequests == Spec => []TypeOK
  <1>1. IInv /\ Course => TypeOK
    BY DEF IInv, LogShape, LogTypeOK, Course, Progress, Bodies, TypeOK
  <1>. QED BY <1>1, CourseHolds, InvariantHolds, PTL

-----------------------------------------------------------------------------
(* The account of the records of truncated calls: each that was recorded has *)
(* been taken by one lookup, or is still in the cache, or was recorded again *)
(* while it was there.                                                       *)
Unit(b) == IF b THEN 1 ELSE 0

Balanced(id) ==
  /\ IsFiniteSet(Takings(id)) /\ IsFiniteSet(Recordings(id))
  /\ Cardinality(Takings(id)) + Unit(id \in toolCache)
       <= Cardinality(Recordings(id)) + Unit(id \in start.tools)

Taken(q, n, id) ==
  LET l == Lookups(body[q])[n] IN l.cache = "tool" /\ l.block.id = id

LEMMA TakingsAre ==
  ASSUME NEW id
  PROVE  \A p : p \in Takings(id) <=>
           \E q \in Requests : \E n \in request[q].found : p = <<q, n>> /\ Taken(q, n, id)
  BY DEF Takings, Taken

LEMMA RecordingsAre ==
  ASSUME NEW id
  PROVE  \A p : p \in Recordings(id) <=>
           \E q \in Requests : \E k \in 1 .. request[q].saved :
             p = <<q, k>> /\ request[q].reply.tools[k] = id
  BY DEF Recordings

LEMMA SameTakings ==
  ASSUME NEW id, body' = body, \A q \in Requests : request'[q].found = request[q].found
  PROVE  Takings(id)' = Takings(id)
  BY DEF Takings

\* A reply may come as long as nothing of it is saved.
LEMMA SameRecordings ==
  ASSUME NEW id, \A q \in Requests :
           /\ request'[q].saved = request[q].saved
           /\ request'[q].reply = request[q].reply \/ request[q].saved = 0
  PROVE  Recordings(id)' = Recordings(id)
  <1>1. \A p : p \in Recordings(id)' <=>
          \E q \in Requests : \E k \in 1 .. request'[q].saved :
            p = <<q, k>> /\ request'[q].reply.tools[k] = id
    BY DEF Recordings
  <1>2. ASSUME NEW q \in Requests, NEW k \in 1 .. request[q].saved
        PROVE  request'[q].reply = request[q].reply
    OBVIOUS
  <1>. QED BY <1>1, <1>2, RecordingsAre

\* A lookup takes the record out with the one step that finds it.
LEMMA LookBalances ==
  ASSUME RequestShape, Course, NEW r \in Requests, Look(r), NEW id, Balanced(id)
  PROVE  Balanced(id)'
  <1>. DEFINE n == request[r].looked + 1
              l == Lookups(body[r])[n]
              hit == Recorded(l) /\ Taken(r, n, id)
  <1>1. /\ \A q \in Requests \ {r} : request'[q] = request[q]
        /\ request'[r].saved = request[r].saved /\ request'[r].reply = request[r].reply
        /\ request'[r].found = IF Recorded(l) THEN request[r].found \cup {n} ELSE request[r].found
    BY LookChanges DEF Changes, Fields
  <1>2. Recordings(id)' = Recordings(id) /\ start' = start /\ body' = body
    BY <1>1, SameRecordings DEF Look, world
  <1>3. n \notin request[r].found
    BY DEF Course, Progress
  <1>4. Takings(id)' = IF hit THEN Takings(id) \cup {<<r, n>>} ELSE Takings(id)
    <2>1. \A p : p \in Takings(id)' <=>
            \E q \in Requests : \E m \in request'[q].found : p = <<q, m>> /\ Taken(q, m, id)
      BY <1>2 DEF Takings, Taken
    <2>2. \A p : p \in Takings(id)' <=> p \in Takings(id) \/ (hit /\ p = <<r, n>>)
      <3>. HIDE DEF n, l
      <3>1. hit <=> Recorded(l) /\ Taken(r, n, id)
        OBVIOUS
      <3>. HIDE DEF hit
      <3>. QED BY <1>1, <2>1, <3>1, TakingsAre
    <2>. HIDE DEF hit
    <2>. QED BY <2>2
  <1>5. <<r, n>> \notin Takings(id)
    BY <1>3, TakingsAre
  <1>6. hit => id \in toolCache /\ id \notin toolCache'
    BY SMTT(60) DEF Look, Taken, Recorded, Take, GetTool
  <1>7. ~hit => (id \in toolCache' <=> id \in toolCache)
    <2>. SUFFICES ASSUME ~hit PROVE id \in toolCache' <=> id \in toolCache
      OBVIOUS
    <2>1. Take(l)
      BY DEF Look
    <2>. QED BY <2>1 DEF Taken, Recorded, Take, GetTool, GetContent
  <1>8. /\ Cardinality(Takings(id)) \in Nat /\ Cardinality(Recordings(id)) \in Nat
    BY FS_CardinalityType DEF Balanced
  <1>. HIDE DEF hit, n
  <1>9. CASE hit
    <2>1. /\ IsFiniteSet(Takings(id)')
          /\ Cardinality(Takings(id)') = Cardinality(Takings(id)) + 1
      BY <1>4, <1>5, <1>9, FS_AddElement DEF Balanced
    <2>. QED BY <1>2, <1>6, <1>8, <1>9, <2>1 DEF Balanced, Unit
  <1>10. CASE ~hit
    <2>1. Takings(id)' = Takings(id)
      BY <1>4, <1>10
    <2>. QED BY <1>2, <1>7, <1>10, <2>1 DEF Balanced, Unit
  <1>. QED BY <1>9, <1>10

\* What is saved was recorded.
LEMMA SaveToolBalances ==
  ASSUME RequestShape, Course, NEW r \in Requests, SaveTool(r), NEW id, Balanced(id)
  PROVE  Balanced(id)'
  <1>. DEFINE k == request[r].saved + 1
              it == request[r].reply.tools[k]
  <1>1. /\ \A q \in Requests \ {r} : request'[q] = request[q]
        /\ request'[r].saved = k /\ request'[r].reply = request[r].reply
        /\ request'[r].found = request[r].found
    BY SaveToolChanges DEF Changes, Fields
  <1>2. Takings(id)' = Takings(id) /\ start' = start
    BY <1>1, SameTakings DEF SaveTool, world
  <1>3. request[r].saved \in Nat
    BY DEF Course, Progress
  <1>4. Recordings(id)' = IF it = id THEN Recordings(id) \cup {<<r, k>>} ELSE Recordings(id)
    <2>1. \A p : p \in Recordings(id)' <=>
            \E q \in Requests : \E j \in 1 .. request'[q].saved :
              p = <<q, j>> /\ request'[q].reply.tools[j] = id
      BY DEF Recordings
    <2>2. 1 .. k = (1 .. request[r].saved) \cup {k}
      BY <1>3
    <2>3. \A p : p \in Recordings(id)' <=> p \in Recordings(id) \/ (it = id /\ p = <<r, k>>)
      <3>1. it = request[r].reply.tools[k]
        OBVIOUS
      <3>. HIDE DEF k, it
      <3>. QED BY <1>1, <2>1, <2>2, <3>1, RecordingsAre
    <2>. HIDE DEF it, k
    <2>. QED BY <2>3
  <1>5. <<r, k>> \notin Recordings(id)
    BY <1>3, RecordingsAre
  <1>6. toolCache' = toolCache \cup {it}
    BY DEF SaveTool, SetTool
  <1>7. Cardinality(Takings(id)) \in Nat /\ Cardinality(Recordings(id)) \in Nat
    BY FS_CardinalityType DEF Balanced
  <1>. HIDE DEF it, k
  <1>8. CASE it = id
    <2>1. /\ IsFiniteSet(Recordings(id)')
          /\ Cardinality(Recordings(id)') = Cardinality(Recordings(id)) + 1
      BY <1>4, <1>5, <1>8, FS_AddElement DEF Balanced
    <2>. QED BY <1>2, <1>6, <1>7, <1>8, <2>1 DEF Balanced, Unit
  <1>9. CASE it # id
    <2>1. Recordings(id)' = Recordings(id)
      BY <1>4, <1>9
    <2>2. id \in toolCache' <=> id \in toolCache
      BY <1>6, <1>9
    <2>. QED BY <1>2, <2>1, <2>2 DEF Balanced, Unit
  <1>. QED BY <1>8, <1>9

\* No other step finds or saves anything.
LEMMA OtherBalances ==
  ASSUME RequestShape, LogShape, Course, NEW r \in Requests, Arrive(r) \/ Proceed(r),
         ~Look(r), ~SaveTool(r), NEW id, Balanced(id)
  PROVE  Balanced(id)'
  <1>1. UNCHANGED <<body, start, toolCache>>
    BY DEF Arrive, Proceed, world, caches, Prepare, Directory, LogRequestBody, Authorize, Looked,
        SearchRefused, SearchAsked, SearchAnswered, Convert, Panic, Exhausted, Retry, Fatal,
        Answered, RawChunk, ModifiedChunk, Broken, Flush, Flushed, Complete,
        SaveContent, SetContent, Discard
  <1>2. PICK fields \in SUBSET {"pc", "end", "attempt", "kiro", "chunks", "reply"} :
          Changes(r, fields) /\ ("reply" \in fields => Complete(r))
    <2>1. CASE Convert(r)
      BY <2>1, ConvertChanges
    <2>2. CASE ModifiedChunk(r)
      BY <2>2, ModifiedChunkChanges
    <2>3. CASE Complete(r)
      BY <2>3, CompleteChanges
    <2>4. CASE Flush(r)
      <3>1. Changes(r, {})
        BY <2>4 DEF Flush, Changes
      <3>. QED BY <3>1
    <2>5. CASE \E pc : Goto(r, pc)
      BY <2>5, GotoChanges
    <2>6. CASE \E how : Ends(r, how)
      BY <2>6, EndsChanges
    <2>. QED BY <2>1, <2>2, <2>3, <2>4, <2>5, <2>6 DEF Arrive, Proceed, Prepare, Directory,
           LogRequestBody, Authorize, Looked, SearchRefused, SearchAsked, SearchAnswered, Panic,
           Exhausted, Retry, Fatal, Answered, RawChunk, Broken, Flushed, SaveContent, Discard
  <1>3. /\ \A q \in Requests : request'[q].found = request[q].found
        /\ \A q \in Requests : request'[q].saved = request[q].saved
    BY <1>2 DEF Changes, Fields
  <1>4. request'[r].reply = request[r].reply \/ request[r].saved = 0
    <2>1. CASE Complete(r)
      BY <2>1 DEF Complete, At, Course, Progress
    <2>2. CASE ~Complete(r)
      BY <1>2, <2>2 DEF Changes, Fields
    <2>. QED BY <2>1, <2>2
  <1>5. \A q \in Requests \ {r} : request'[q] = request[q]
    BY <1>2 DEF Changes
  <1>6. Takings(id)' = Takings(id)
    BY <1>1, <1>3, SameTakings
  <1>7. Recordings(id)' = Recordings(id)
    BY <1>3, <1>4, <1>5, SameRecordings
  <1>. QED BY <1>1, <1>6, <1>7 DEF Balanced

LEMMA NextBalances ==
  IInv /\ Course /\ (\A id : Balanced(id)) /\ [Next]_vars => (\A id : Balanced(id))'
  <1>1. ASSUME UNCHANGED vars, NEW id, Balanced(id) PROVE Balanced(id)'
    BY <1>1, SameTakings, SameRecordings DEF vars, caches, Balanced
  <1>2. ASSUME IInv, Course, NEW r \in Requests, Arrive(r) \/ Proceed(r), NEW id, Balanced(id)
        PROVE  Balanced(id)'
    BY <1>2, LookBalances, SaveToolBalances, OtherBalances DEF IInv
  <1>. QED BY <1>1, <1>2 DEF Next

\* However many requests look for it at once, the notice of a truncated call is
\* given no more often than the call was recorded (truncationstate's GetTool
\* reads and deletes in one critical section).
THEOREM NoNoticeTwice == Spec => []OneNoticePerRecord
  <1>1. Init => \A id : Balanced(id)
    <2>. SUFFICES ASSUME Init, NEW id PROVE Balanced(id)
      OBVIOUS
    <2>1. \A q \in Requests : request[q].found = {} /\ request[q].saved = 0
      BY DEF Init, Waiting
    <2>2. Takings(id) = {} /\ Recordings(id) = {}
      BY <2>1, TakingsAre, RecordingsAre
    <2>3. start.tools = toolCache
      BY DEF Init
    <2>. QED BY <2>2, <2>3, FS_EmptySet DEF Balanced, Unit
  <1>2. (\A id : Balanced(id)) => OneNoticePerRecord
    <2>. SUFFICES ASSUME NEW id, Balanced(id)
                  PROVE  Cardinality(Takings(id))
                           <= Cardinality(Recordings(id)) + (IF id \in start.tools THEN 1 ELSE 0)
      BY DEF OneNoticePerRecord
    <2>1. Cardinality(Takings(id)) \in Nat /\ Cardinality(Recordings(id)) \in Nat
      BY FS_CardinalityType DEF Balanced
    <2>. QED BY <2>1 DEF Balanced, Unit
  <1>. QED BY <1>1, <1>2, NextBalances, InvariantHolds, CourseHolds, PTL DEF Spec

-----------------------------------------------------------------------------
(* The dump of a request that is alone.  What a place tells of the counts of *)
(* any request:                                                              *)
Beginning == {"idle", "prepare", "directory", "logBody"}

Counted(r) ==
  LET s == request[r]
  IN  /\ s.pc \in Beginning => s.attempt = 0 /\ s.chunks = 0
      /\ s.pc = "directory" => mode = "all"
      /\ s.pc \in {"sent", "stream", "write", "flush"} \/ s.end = "failed" => s.attempt > 0

(* What has been collected of r, with as many raw chunks; as long as r meets *)
(* nobody, that is all there is in the buffers, then in its copy of them, and *)
(* then in the files, one after the other, until another request fails.      *)
Collected(b, r, raw) ==
  /\ b["request"] = <<<<r, 0>>>>
  /\ b["kiro"] = IF request[r].attempt = 0 THEN <<>> ELSE <<<<r, request[r].attempt>>>>
  /\ b["modified"] = Chunks(r, request[r].chunks)
  /\ b["raw"] = Chunks(r, raw)

Whole(b, r) == \E n \in {request[r].chunks, request[r].chunks + 1} : Collected(b, r, n)

OnDisk == [log \in Logs |-> files[log].pieces]

Dumped(r) == Whole(OnDisk, r) /\ files["error"].by = r

Unwritten == [request |-> Logs, kiro |-> Logs \ {"request"},
              raw |-> {"raw", "modified"}, modified |-> {"modified"}, error |-> {}]

Dumping(r) ==
  LET pc == flush[r].pc
      copy == flush[r].copy
  IN  /\ pc \in {"recreate", "copy"} => Whole(buffers, r)
      /\ pc = "copy" => files = NoFiles
      /\ pc \in Logs \cup {"error"} =>
           /\ Whole(copy, r)
           /\ \A log \in Logs :
                files[log].pieces = IF log \in Unwritten[pc] THEN <<>> ELSE copy[log]
      /\ pc \in {"clear", "no"} => Dumped(r)

OthersFail(r) == \E q \in Requests \ {r} : request[q].end = "failed" \/ At(q, "flush")

Alone(r) ==
  LET s == request[r]
  IN  /\ s.pc = "logBody" => buffers = Empty
      /\ s.pc \in {"authorize", "inject", "search", "attempt", "sent", "stream"} =>
           Collected(buffers, r, s.chunks)
      /\ s.pc = "write" => Collected(buffers, r, s.chunks + 1)
      /\ s.pc = "flush" => Dumping(r)
      /\ s.end = "failed" => Dumped(r) \/ OthersFail(r)

LoneDumps ==
  /\ \A r \in Requests : Counted(r)
  /\ mode = "errors" => \A r \in Requests : met[r] = {} => Alone(r)

LEMMA ChunksGrow ==
  ASSUME NEW r, NEW n \in Nat
  PROVE  Append(Chunks(r, n), <<r, n + 1>>) = Chunks(r, n + 1)
  <1>1. Chunks(r, n) \in Seq({<<r, i>> : i \in 1 .. n}) /\ Len(Chunks(r, n)) = n
    BY DEF Chunks
  <1>. QED BY <1>1 DEF Chunks

\* The counts change where the place does.
LEMMA CountedStep ==
  ASSUME IInv, Course, NEW r \in Requests, Counted(r), Arrive(r) \/ Proceed(r)
  PROVE  Counted(r)'
  <1>. DEFINE s == request[r]
              t == request'[r]
  <1>1. RequestShape /\ mode' = mode /\ s.attempt \in Nat /\ s.chunks \in Nat
        /\ (s.end = "none" <=> s.pc # "done") /\ s.pc \in Places
    BY LogFrame DEF IInv, Frame, RequestShape, Counts, Course, Progress
  <1>2. ASSUME NEW pc, Goto(r, pc)
        PROVE  t.pc = pc /\ t.attempt = s.attempt /\ t.chunks = s.chunks /\ t.end = s.end
    BY <1>1, <1>2, GotoChanges DEF Changes, Fields
  <1>3. ASSUME NEW how, Ends(r, how)
        PROVE  t.pc = "done" /\ t.attempt = s.attempt /\ t.chunks = s.chunks /\ t.end = how
    BY <1>1, <1>3, EndsChanges DEF Changes, Fields
  <1>4. CASE Arrive(r)
    <2>1. s.pc = "idle" /\ s.attempt = 0 /\ s.chunks = 0 /\ s.end = "none"
      BY <1>1, <1>4 DEF Arrive, At, Counted, Beginning
    <2>2. PICK pc : pc = IF mode = "off" THEN "authorize" ELSE "prepare"
      OBVIOUS
    <2>3. t.pc = pc /\ t.attempt = 0 /\ t.chunks = 0 /\ t.end = "none"
      BY <1>2, <1>4, <2>1, <2>2 DEF Arrive
    <2>. QED BY <2>2, <2>3 DEF Counted, Beginning
  <1>5. CASE Prepare(r) \/ Directory(r)
    <2>1. s.pc \in {"prepare", "directory"} /\ s.attempt = 0 /\ s.chunks = 0 /\ s.end = "none"
      BY <1>1, <1>5 DEF Prepare, Directory, At, Counted, Beginning
    <2>2. PICK pc : pc \in {"directory", "logBody"} /\ Goto(r, pc)
                    /\ (pc = "directory" => mode = "all")
      BY <1>5 DEF Prepare, Directory
    <2>3. t.pc = pc /\ t.attempt = 0 /\ t.chunks = 0 /\ t.end = "none"
      BY <1>2, <2>1, <2>2
    <2>. QED BY <1>1, <2>2, <2>3 DEF Counted, Beginning
  \* Places that ask nothing of the counts, and ends that do not.
  <1>a. ASSUME NEW pc, Goto(r, pc), s.pc # "done", pc \notin Beginning \cup {"done"},
               pc \in {"sent", "stream", "write", "flush"} => s.attempt > 0
        PROVE  Counted(r)'
    BY <1>1, <1>2, <1>a DEF Counted, Beginning
  <1>b. ASSUME NEW how, Ends(r, how), how = "failed" => s.attempt > 0
        PROVE  Counted(r)'
    BY <1>1, <1>3, <1>b DEF Counted, Beginning
  <1>6. CASE LogRequestBody(r) \/ Authorize(r) \/ Looked(r) \/ SearchAsked(r) \/ SaveContent(r)
    BY <1>a, <1>b, <1>6 DEF LogRequestBody, Authorize, Looked, SearchAsked, SaveContent, At, Beginning
  <1>7. CASE SearchRefused(r) \/ SearchAnswered(r) \/ Panic(r) \/ Exhausted(r) \/ Discard(r)
    BY <1>b, <1>7 DEF SearchRefused, SearchAnswered, Panic, Exhausted, Discard
  <1>8. CASE Look(r)
    <2>1. t.pc = s.pc /\ t.attempt = s.attempt /\ t.chunks = s.chunks /\ t.end = s.end
      BY <1>1, <1>8, LookChanges DEF Changes, Fields
    <2>. QED BY <1>1, <2>1 DEF Counted
  <1>9. CASE Convert(r)
    <2>1. t.pc = "sent" /\ t.attempt = s.attempt + 1 /\ s.pc = "attempt"
      BY <1>1, <1>9, ConvertChanges DEF Convert, At
    <2>2. t.end = s.end
      BY <1>1, <1>9, ConvertChanges DEF Changes, Fields
    <2>3. t.attempt > 0
      BY <1>1, <2>1
    <2>. QED BY <2>1, <2>3 DEF Counted, Beginning
  <1>10. CASE Retry(r) \/ Fatal(r) \/ Answered(r) \/ RawChunk(r) \/ Broken(r)
    BY <1>a, <1>10 DEF Retry, Fatal, Answered, RawChunk, Broken, At, Counted, Beginning
  <1>11. CASE ModifiedChunk(r)
    <2>1. t.pc = "stream" /\ t.attempt = s.attempt /\ t.end = s.end
      BY <1>1, <1>11, ModifiedChunkChanges DEF Changes, Fields
    <2>2. s.pc = "write"
      BY <1>11 DEF ModifiedChunk, At
    <2>. QED BY <1>1, <2>1, <2>2 DEF Counted, Beginning
  <1>12. CASE Flush(r)
    BY <1>1, <1>12 DEF Flush, Counted
  <1>13. CASE Flushed(r)
    BY <1>b, <1>13 DEF Flushed, At, Counted
  <1>14. CASE Complete(r)
    <2>1. t.pc = "save" /\ t.end = s.end
      BY <1>1, <1>14, CompleteChanges DEF Changes, Fields
    <2>2. s.pc = "stream"
      BY <1>14 DEF Complete, At
    <2>. QED BY <1>1, <2>1, <2>2 DEF Counted, Beginning
  <1>15. CASE SaveTool(r)
    <2>1. t.pc = s.pc /\ t.attempt = s.attempt /\ t.chunks = s.chunks /\ t.end = s.end
      BY SMTT(60), <1>1, <1>15, SaveToolChanges DEF Changes, Fields
    <2>. QED BY <1>1, <2>1 DEF Counted
  <1>. QED BY <1>4, <1>5, <1>6, <1>7, <1>8, <1>9, <1>10, <1>11, <1>12, <1>13, <1>14, <1>15
           DEF Proceed

\* Only a flush writes files in mode "errors", and only a request in flight moves on.
LEMMA FilesStay ==
  ASSUME mode = "errors", NEW q \in Requests, Counted(q), Arrive(q) \/ Proceed(q),
         ~At(q, "flush")
  PROVE  files' = files
  BY DEF Counted, Arrive, Proceed, logVars, logBody, logChunk, Prepare, PrepareBuffers,
      Directory, At, LogRequestBody, Authorize, Look, Looked, SearchRefused, SearchAsked,
      SearchAnswered, Convert, Panic, Exhausted, Retry, Fatal, StartFlush, Answered, RawChunk,
      ModifiedChunk, Broken, Flush, Flushed, Complete, SaveTool, SaveContent, Discard,
      DiscardBuffers, world

LEMMA ProceedsInFlight ==
  ASSUME NEW q \in Requests, Proceed(q)
  PROVE  q \in InFlight
  BY DEF InFlight, Proceed, Prepare, Directory, At, LogRequestBody, Authorize, Look, Looked,
      SearchRefused, SearchAsked, SearchAnswered, Convert, Panic, Exhausted, Retry, Fatal,
      Answered, RawChunk, ModifiedChunk, Broken, Flush, Flushed, Complete, SaveTool, SaveContent,
      Discard

\* A request in its flush stays in it or fails, and one that is done stays done.
LEMMA FailureStays ==
  ASSUME RequestShape, NEW q \in Requests, Arrive(q) \/ Proceed(q),
         (request[q].end = "none" <=> request[q].pc # "done"),
         request[q].end = "failed" \/ At(q, "flush")
  PROVE  request'[q].end = "failed" \/ At(q, "flush")'
  <1>1. At(q, "flush")
    BY ProceedsInFlight DEF InFlight, Arrive, At
  <1>2. Flush(q) \/ Flushed(q)
    BY <1>1 DEF Proceed, Arrive, Prepare, Directory, At, LogRequestBody, Authorize, Look, Looked,
        SearchRefused, SearchAsked, SearchAnswered, Convert, Panic, Exhausted, Retry, Fatal,
        Answered, RawChunk, ModifiedChunk, Broken, Complete, SaveTool, SaveContent, Discard
  <1>3. CASE Flush(q)
    BY <1>1, <1>3 DEF Flush, At
  <1>4. CASE Flushed(q)
    BY <1>4, EndsChanges DEF Flushed
  <1>. QED BY <1>2, <1>3, <1>4

\* A step of another request: while r is in flight nobody else is, and then
\* nobody touches the files but in a flush.
LEMMA OthersLeaveAlone ==
  ASSUME IInv, Course, mode = "errors", NEW r \in Requests, NEW q \in Requests \ {r},
         Counted(q), Alone(r), met[r] = {}, met'[r] = {}, Arrive(q) \/ Proceed(q)
  PROVE  Alone(r)'
  <1>1. /\ request'[r] = request[r] /\ \A p \in Requests \ {q} : request'[p] = request[p]
        /\ \A p \in Requests : request[p].end = "none" <=> request[p].pc # "done"
        /\ RequestShape
    <2>1. RequestShape /\ LogShape
      BY DEF IInv
    <2>2. Frame(q)
      BY <2>1, LogFrame
    <2>. QED BY <2>1, <2>2 DEF Frame, Course, Progress
  <1>2. CASE r \in InFlight
    <2>1. InFlight \subseteq {r}
      BY <1>2 DEF IInv, Recent, InFlightHaveMet, Known
    <2>2. Arrive(q)
      BY <2>1, ProceedsInFlight
    <2>3. q \in met'[r]
      BY <1>2, <2>2 DEF Arrive
    <2>. QED BY <2>3
  <1>3. CASE request[r].pc = "idle"
    <2>1. request'[r].pc = "idle" /\ request'[r].end # "failed"
      BY <1>1, <1>3
    <2>. QED BY <2>1 DEF Alone
  <1>4. CASE request[r].pc = "done" /\ request[r].end # "failed"
    BY <1>1, <1>4 DEF Alone
  <1>5. CASE request[r].pc = "done" /\ request[r].end = "failed"
    <2>1. Dumped(r)' \/ OthersFail(r)'
      <3>1. CASE OthersFail(r)
        <4>1. PICK p \in Requests \ {r} : request[p].end = "failed" \/ At(p, "flush")
          BY <3>1 DEF OthersFail
        <4>2. request'[p].end = "failed" \/ At(p, "flush")'
          BY <1>1, <4>1, FailureStays DEF At
        <4>. QED BY <4>1, <4>2 DEF OthersFail
      <3>2. CASE ~OthersFail(r)
        <4>1. ~At(q, "flush")
          BY <3>2 DEF OthersFail
        <4>2. files' = files
          BY <4>1, FilesStay
        <4>3. Dumped(r)
          BY <1>5, <3>2 DEF Alone
        <4>. QED BY <1>1, <4>2, <4>3 DEF Dumped, OnDisk, Whole, Collected
      <3>. QED BY <3>1, <3>2
    <2>. QED BY <1>1, <1>5, <2>1 DEF Alone
  <1>. QED BY <1>2, <1>3, <1>4, <1>5 DEF InFlight

\* The step of the request itself.  Where nothing is asked of the log:
LEMMA NothingAsked ==
  ASSUME NEW r, request'[r].end # "failed",
         request'[r].pc \notin {"logBody", "authorize", "inject", "search", "attempt", "sent",
                                "stream", "write", "flush"}
  PROVE  Alone(r)'
  BY DEF Alone

\* Where the request goes on with the buffers as they should be:
LEMMA BuffersRight ==
  ASSUME NEW r, request'[r].end # "failed",
         request'[r].pc \in {"authorize", "inject", "search", "attempt", "sent", "stream"},
         Collected(buffers, r, request[r].chunks)'
  PROVE  Alone(r)'
  BY DEF Alone

\* The steps of a flush, each of which finds what the one before it has left.
LEMMA FlushKeepsDumping ==
  ASSUME LogShape, mode = "errors", NEW r \in Requests, Dumping(r), Flush(r),
         request[r].attempt \in Nat, request[r].chunks \in Nat
  PROVE  Dumping(r)'
  <1>. DEFINE pc == flush[r].pc
              copy == flush[r].copy
  <1>1. /\ request' = request /\ mode' = mode
        /\ flush[r] = [pc |-> pc, copy |-> copy]
        /\ copy \in [Logs -> Pieces] /\ buffers \in [Logs -> Pieces]
    BY DEF Flush, FlushStep, FlushDir, FlushCopy, FlushFile, FlushError, FlushClear, LogShape
  <1>2. \A p : FlushTo(r, p) => flush'[r] = [pc |-> p, copy |-> copy]
    BY <1>1 DEF FlushTo, LogShape
  <1>3. /\ pc \in {"recreate", "copy"} => Whole(buffers, r)
        /\ pc = "copy" => files = NoFiles
        /\ pc \in Logs \cup {"error"} => Whole(copy, r)
        /\ pc \in Logs \cup {"error"} =>
             \A log \in Logs :
               files[log].pieces = IF log \in Unwritten[pc] THEN <<>> ELSE copy[log]
        /\ pc \in {"clear", "no"} => Dumped(r)
    BY DEF Dumping
  <1>4. \A b, c : Whole(b, r) /\ (\A log \in Logs : c[log] = b[log]) => Whole(c, r)
    BY DEF Whole, Collected, Logs
  <1>5. CASE FlushDir(r)
    <2>1. flush'[r].pc = "copy" /\ files' = NoFiles /\ buffers' = buffers /\ Whole(buffers, r)
      BY <1>1, <1>3, <1>5 DEF FlushDir, recreateDir, FlushTo, LogShape
    <2>2. Whole(buffers, r)'
      BY <1>1, <2>1 DEF Whole, Collected, Chunks
    <2>. QED BY <2>1, <2>2 DEF Dumping, Logs
  <1>6. CASE FlushCopy(r)
    <2>1. /\ flush'[r] = [pc |-> "request", copy |-> buffers]
          /\ files' = NoFiles /\ Whole(buffers, r)
      BY <1>1, <1>3, <1>6 DEF FlushCopy, LogShape
    <2>2. Whole(flush[r].copy, r)'
      <3>1. flush'[r].copy = buffers
        BY <2>1
      <3>. QED BY <1>1, <2>1, <3>1 DEF Whole, Collected, Chunks
    <2>3. \A log \in Logs : files'[log].pieces = <<>>
      BY <2>1 DEF NoFiles, NoFile
    <2>. QED BY <2>1, <2>2, <2>3 DEF Dumping, Logs, Unwritten
  <1>7. CASE FlushFile(r)
    <2>1. /\ pc \in Logs /\ flush'[r] = [pc |-> After[pc], copy |-> copy]
          /\ Whole(copy, r)
          /\ \A log \in Logs :
               files[log].pieces = IF log \in Unwritten[pc] THEN <<>> ELSE copy[log]
      BY <1>2, <1>3, <1>7 DEF FlushFile
    <2>2. Whole(flush[r].copy, r)'
      <3>1. flush'[r].copy = copy
        BY <2>1
      <3>. QED BY <1>1, <2>1, <3>1 DEF Whole, Collected, Chunks
    <2>3. files'[pc].pieces = copy[pc]
      <3>1. CASE copy[pc] # <<>>
        BY <1>7, <3>1 DEF FlushFile, Write, LogShape
      <3>2. CASE copy[pc] = <<>>
        BY <1>7, <2>1, <3>2 DEF FlushFile
      <3>. QED BY <3>1, <3>2
    <2>4. \A log \in Logs \ {pc} : files'[log] = files[log]
      BY <1>7 DEF FlushFile, Write, LogShape
    <2>5. After[pc] \in Logs \cup {"error"} /\ Unwritten[After[pc]] = Unwritten[pc] \ {pc}
      BY <2>1 DEF After, Unwritten, Logs
    <2>6. \A log \in Logs :
            files'[log].pieces = IF log \in Unwritten[After[pc]] THEN <<>> ELSE copy[log]
      BY <2>1, <2>3, <2>4, <2>5
    <2>7. PICK p : p = After[pc]
      OBVIOUS
    <2>. QED BY <2>1, <2>2, <2>5, <2>6, <2>7 DEF Dumping, Logs
  <1>8. CASE FlushError(r)
    <2>1. /\ flush'[r].pc = "clear" /\ pc = "error" /\ Whole(copy, r)
          /\ \A log \in Logs : files[log].pieces = copy[log]
      BY <1>1, <1>3, <1>8 DEF FlushError, LogShape, Unwritten
    <2>2. files'["error"].by = r /\ \A log \in Logs : files'[log] = files[log]
      BY <1>8 DEF FlushError, Write, LogShape, Logs
    <2>3. \A log \in Logs : OnDisk'[log] = copy[log]
      BY <2>1, <2>2 DEF OnDisk
    <2>4. Whole(OnDisk, r)'
      BY <1>1, <2>1, <2>3 DEF Whole, Collected, Chunks, Logs
    <2>. QED BY <2>1, <2>2, <2>4 DEF Dumping, Dumped, Logs
  <1>9. CASE FlushClear(r)
    <2>1. /\ flush'[r].pc = "no" /\ files' = files /\ Dumped(r)
      BY <1>1, <1>3, <1>9 DEF FlushClear, LogShape, NotFlushing
    <2>2. Dumped(r)'
      BY <1>1, <2>1 DEF Dumped, OnDisk, Whole, Collected, Chunks
    <2>. QED BY <2>1, <2>2 DEF Dumping, Logs
  <1>. QED BY <1>5, <1>6, <1>7, <1>8, <1>9 DEF Flush, FlushStep

LEMMA OwnStepAlone ==
  ASSUME IInv, Course, mode = "errors", NEW r \in Requests, Counted(r), Alone(r),
         Arrive(r) \/ Proceed(r)
  PROVE  Alone(r)'
  <1>. DEFINE s == request[r]
              t == request'[r]
  <1>1. RequestShape /\ LogShape /\ s.attempt \in Nat /\ s.chunks \in Nat /\ s.pc \in Places
        /\ (s.end = "none" <=> s.pc # "done")
    BY DEF IInv, RequestShape, Counts, Course, Progress
  <1>2. ASSUME NEW pc, Goto(r, pc)
        PROVE  t.pc = pc /\ t.attempt = s.attempt /\ t.chunks = s.chunks /\ t.end = s.end
    BY <1>1, <1>2, GotoChanges DEF Changes, Fields
  <1>3. ASSUME NEW how, Ends(r, how), how # "failed" PROVE Alone(r)'
    BY <1>1, <1>3, EndsChanges, NothingAsked
  \* What the buffers hold stays with the counts.
  <1>4. ASSUME Collected(buffers, r, s.chunks), buffers' = buffers,
               t.attempt = s.attempt, t.chunks = s.chunks
        PROVE  Collected(buffers, r, request[r].chunks)'
    BY <1>4 DEF Collected, Chunks
  <1>5. CASE Arrive(r)
    <2>1. Goto(r, "prepare") /\ s.end # "failed"
      BY <1>1, <1>5 DEF Arrive, At
    <2>. QED BY <1>2, <2>1, NothingAsked
  <1>6. CASE Prepare(r)
    <2>1. Goto(r, "logBody") /\ s.end # "failed" /\ buffers' = Empty
      BY <1>1, <1>6 DEF Prepare, At, PrepareBuffers, clearBuffers
    <2>2. t.pc = "logBody" /\ t.end # "failed"
      BY <1>2, <2>1
    <2>. QED BY <2>1, <2>2 DEF Alone
  <1>7. CASE Directory(r)
    BY <1>7 DEF Directory, At, Counted
  <1>8. CASE LogRequestBody(r)
    <2>1. /\ Goto(r, "authorize") /\ s.end # "failed" /\ s.attempt = 0 /\ s.chunks = 0
          /\ buffers' = [Empty EXCEPT !["request"] = <<<<r, 0>>>>]
      BY <1>1, <1>8 DEF LogRequestBody, At, Alone, Counted, Beginning, logBody
    <2>2. t.pc = "authorize" /\ t.end # "failed" /\ t.attempt = 0 /\ t.chunks = 0
      BY <1>2, <2>1
    <2>3. buffers'["request"] = <<<<r, 0>>>>
          /\ \A log \in Logs \ {"request"} : buffers'[log] = <<>>
      BY <2>1 DEF Empty, Logs
    <2>4. Chunks(r, 0) = <<>>
      BY DEF Chunks
    <2>5. Collected(buffers, r, request[r].chunks)'
      BY <2>2, <2>3, <2>4 DEF Collected, Logs, Chunks
    <2>. QED BY <2>2, <2>5, BuffersRight
  <1>9. CASE Authorize(r) \/ Looked(r) \/ Retry(r) \/ Answered(r)
    <2>1. CASE \E how : Ends(r, how) /\ how # "failed"
      BY <1>3, <2>1
    <2>2. CASE \E pc \in {"inject", "search", "attempt", "stream"} : Goto(r, pc)
      <3>1. /\ s.pc \in {"authorize", "inject", "sent"} /\ buffers' = buffers /\ s.end # "failed"
        BY <1>1, <1>9 DEF Authorize, Looked, Retry, Answered, At, logVars
      <3>2. Collected(buffers, r, s.chunks)
        BY <3>1 DEF Alone
      <3>3. PICK pc \in {"inject", "search", "attempt", "stream"} : Goto(r, pc)
        BY <2>2
      <3>4. t.pc = pc /\ t.attempt = s.attempt /\ t.chunks = s.chunks /\ t.end = s.end
        BY <1>2, <3>3
      <3>5. Collected(buffers, r, request[r].chunks)'
        BY <1>4, <3>1, <3>2, <3>4
      <3>. QED BY <3>1, <3>3, <3>4, <3>5, BuffersRight
    <2>. QED BY <1>9, <2>1, <2>2 DEF Authorize, Looked, Retry, Answered
  <1>10. CASE Look(r)
    <2>1. t.pc = s.pc /\ t.attempt = s.attempt /\ t.chunks = s.chunks /\ t.end = s.end
      BY <1>1, <1>10, LookChanges DEF Changes, Fields
    <2>2. s.pc = "inject" /\ buffers' = buffers /\ s.end # "failed"
      BY <1>1, <1>10 DEF Look, At, logVars
    <2>3. Collected(buffers, r, s.chunks)
      BY <2>2 DEF Alone
    <2>4. Collected(buffers, r, request[r].chunks)'
      BY <1>4, <2>1, <2>2, <2>3
    <2>. QED BY <2>1, <2>2, <2>4, BuffersRight
  <1>11. CASE SearchRefused(r) \/ SearchAnswered(r) \/ Panic(r) \/ Exhausted(r) \/ Discard(r)
    BY <1>3, <1>11 DEF SearchRefused, SearchAnswered, Panic, Exhausted, Discard
  <1>12. CASE SearchAsked(r) \/ SaveContent(r)
    <2>1. PICK pc \in {"searching", "discard"} : Goto(r, pc)
      BY <1>12 DEF SearchAsked, SaveContent
    <2>2. s.end # "failed"
      BY <1>1, <1>12 DEF SearchAsked, SaveContent, At
    <2>. QED BY <1>2, <2>1, <2>2, NothingAsked
  <1>13. CASE Convert(r)
    <2>1. /\ t.pc = "sent" /\ t.attempt = s.attempt + 1 /\ t.chunks = s.chunks
          /\ t.end = s.end
      BY <1>1, <1>13, ConvertChanges DEF Changes, Fields
    <2>2. /\ s.pc = "attempt" /\ s.end # "failed"
          /\ buffers' = [buffers EXCEPT !["kiro"] = <<<<r, s.attempt + 1>>>>]
      BY <1>1, <1>13 DEF Convert, At, logBody
    <2>3. Collected(buffers, r, s.chunks)
      BY <2>2 DEF Alone
    <2>4. /\ buffers'["kiro"] = <<<<r, t.attempt>>>> /\ t.attempt # 0
          /\ \A log \in Logs \ {"kiro"} : buffers'[log] = buffers[log]
      BY <1>1, <2>1, <2>2 DEF LogShape, Logs
    <2>5. Collected(buffers, r, request[r].chunks)'
      BY <2>1, <2>3, <2>4 DEF Collected, Logs, Chunks
    <2>. QED BY <2>1, <2>2, <2>5, BuffersRight
  <1>14. CASE RawChunk(r)
    <2>1. /\ s.pc = "stream" /\ s.end # "failed" /\ Goto(r, "write")
          /\ buffers' = [buffers EXCEPT !["raw"] = Append(@, <<r, s.chunks + 1>>)]
      BY <1>1, <1>14 DEF RawChunk, At, logChunk
    <2>2. t.pc = "write" /\ t.attempt = s.attempt /\ t.chunks = s.chunks /\ t.end # "failed"
      BY <1>2, <2>1
    <2>3. Collected(buffers, r, s.chunks)
      BY <2>1 DEF Alone
    <2>4. /\ buffers'["raw"] = Append(buffers["raw"], <<r, s.chunks + 1>>)
          /\ \A log \in Logs \ {"raw"} : buffers'[log] = buffers[log]
      BY <1>1, <2>1 DEF LogShape, Logs
    <2>5. buffers'["raw"] = Chunks(r, s.chunks + 1)
      BY <1>1, <2>3, <2>4, ChunksGrow DEF Collected
    <2>6. Collected(buffers, r, request[r].chunks + 1)'
      BY <2>2, <2>3, <2>4, <2>5 DEF Collected, Logs, Chunks
    <2>. QED BY <2>2, <2>6 DEF Alone
  <1>15. CASE ModifiedChunk(r)
    <2>1. /\ t.pc = "stream" /\ t.chunks = s.chunks + 1 /\ t.attempt = s.attempt /\ t.end = s.end
      BY <1>1, <1>15, ModifiedChunkChanges DEF Changes, Fields
    <2>2. /\ s.pc = "write" /\ s.end # "failed"
          /\ buffers' = [buffers EXCEPT !["modified"] = Append(@, <<r, s.chunks + 1>>)]
      BY <1>1, <1>15 DEF ModifiedChunk, At, logChunk
    <2>3. Collected(buffers, r, s.chunks + 1)
      BY <2>2 DEF Alone
    <2>4. /\ buffers'["modified"] = Append(buffers["modified"], <<r, s.chunks + 1>>)
          /\ \A log \in Logs \ {"modified"} : buffers'[log] = buffers[log]
      BY <1>1, <2>2 DEF LogShape, Logs
    <2>5. buffers'["modified"] = Chunks(r, s.chunks + 1)
      BY <1>1, <2>3, <2>4, ChunksGrow DEF Collected
    <2>6. Collected(buffers, r, request[r].chunks)'
      BY <2>1, <2>3, <2>4, <2>5 DEF Collected, Logs, Chunks
    <2>. QED BY <2>1, <2>2, <2>6, BuffersRight
  <1>16. CASE Fatal(r) \/ Broken(r)
    <2>1. s.pc \in {"sent", "stream", "write"} /\ s.end # "failed" /\ Goto(r, "flush")
      BY <1>1, <1>16 DEF Fatal, Broken, At
    <2>2. StartFlush(r) /\ buffers' = buffers
      BY <1>16 DEF Fatal, Broken, StartFlush
    <2>3. t.pc = "flush" /\ t.attempt = s.attempt /\ t.chunks = s.chunks /\ t.end # "failed"
      BY <1>2, <2>1
    <2>4. PICK n \in {s.chunks, s.chunks + 1} : Collected(buffers, r, n)
      BY <2>1 DEF Alone
    <2>5. HasData
      <3>1. buffers["request"] = <<<<r, 0>>>> /\ <<<<r, 0>>>> # <<>>
        BY <2>4 DEF Collected
      <3>. QED BY <3>1 DEF HasData, Logs
    <2>6. flush'[r].pc = "recreate"
      BY <1>1, <2>2, <2>5 DEF StartFlush, FlushTo, LogShape
    <2>7. Whole(buffers, r)'
      BY <2>2, <2>3, <2>4 DEF Whole, Collected, Chunks
    <2>8. Dumping(r)'
      BY <2>6, <2>7 DEF Dumping, Logs
    <2>. QED BY <2>3, <2>8 DEF Alone
  <1>17. CASE Flush(r)
    <2>1. s.pc = "flush" /\ t = s /\ s.end # "failed"
      BY <1>1, <1>17 DEF Flush, At
    <2>2. Dumping(r)
      BY <2>1 DEF Alone
    <2>3. Dumping(r)'
      BY <1>1, <1>17, <2>2, FlushKeepsDumping
    <2>. QED BY <2>1, <2>3 DEF Alone
  <1>18. CASE Flushed(r)
    <2>1. /\ t.pc = "done" /\ t.attempt = s.attempt /\ t.chunks = s.chunks
      BY <1>1, <1>18, EndsChanges DEF Flushed, Changes, Fields
    <2>2. s.pc = "flush" /\ flush[r].pc = "no" /\ files' = files
      BY <1>18 DEF Flushed, At, Flushing, logVars
    <2>3. Dumped(r)
      <3>1. Dumping(r)
        BY <2>2 DEF Alone
      <3>. QED BY <2>2, <3>1 DEF Dumping
    <2>4. Dumped(r)'
      <3>1. OnDisk' = OnDisk
        BY <2>2 DEF OnDisk
      <3>2. Whole(OnDisk, r)'
        BY <2>1, <2>3, <3>1 DEF Dumped, Whole, Collected, Chunks
      <3>. QED BY <2>2, <2>3, <3>2 DEF Dumped
    <2>. QED BY <2>1, <2>4 DEF Alone
  <1>19. CASE Complete(r)
    <2>1. s.pc = "stream"
      BY <1>19 DEF Complete, At
    <2>2. t.pc = "save" /\ t.end = s.end
      BY <1>1, <1>19, <2>1, CompleteChanges DEF Changes, Fields
    <2>. QED BY <1>1, <2>1, <2>2, NothingAsked
  <1>20. CASE SaveTool(r)
    <2>1. s.pc = "save"
      BY <1>20 DEF SaveTool, At
    <2>2. t.pc = "save" /\ t.end = s.end
      BY <1>1, <1>20, <2>1, SaveToolChanges DEF Changes, Fields
    <2>. QED BY <1>1, <2>1, <2>2, NothingAsked
  <1>. QED BY <1>5, <1>6, <1>7, <1>8, <1>9, <1>10, <1>11, <1>12, <1>13, <1>14, <1>15, <1>16,
              <1>17, <1>18, <1>19, <1>20 DEF Proceed

LEMMA NextLone == IInv /\ Course /\ LoneDumps /\ [Next]_vars => LoneDumps'
  <1>1. ASSUME LoneDumps, UNCHANGED vars PROVE LoneDumps'
    <2>1. UNCHANGED <<mode, met, request, buffers, files, flush>>
      BY <1>1 DEF vars, logVars
    <2>2. ASSUME NEW r, Alone(r) PROVE Alone(r)'
      <3>1. (OthersFail(r)' <=> OthersFail(r)) /\ (Dumped(r)' <=> Dumped(r))
        BY <2>1 DEF OthersFail, At, Dumped, OnDisk, Whole, Collected, Chunks
      <3>2. Dumping(r)' <=> Dumping(r)
        BY <2>1, <3>1 DEF Dumping, Whole, Collected, Chunks
      <3>. QED BY <2>1, <2>2, <3>1, <3>2 DEF Alone, Collected, Chunks
    <2>. QED BY <1>1, <2>1, <2>2 DEF LoneDumps, Counted
  <1>. SUFFICES ASSUME IInv, Course, LoneDumps, NEW r \in Requests, Arrive(r) \/ Proceed(r)
                PROVE  LoneDumps'
    BY <1>1 DEF Next
  <1>2. Frame(r)
    BY LogFrame DEF IInv
  <1>3. ASSUME NEW q \in Requests PROVE Counted(q)'
    <2>1. CASE q = r
      BY <2>1, CountedStep DEF LoneDumps
    <2>2. CASE q # r
      BY <1>2, <2>2 DEF LoneDumps, Counted, Frame
    <2>. QED BY <2>1, <2>2
  <1>4. ASSUME mode = "errors", NEW q \in Requests, met'[q] = {} PROVE Alone(q)'
    <2>1. CASE Arrive(r) /\ q = r
      <3>1. Goto(r, "prepare") /\ request[r].end # "failed" /\ RequestShape
        BY <1>4, <2>1 DEF Arrive, At, IInv, Course, Progress
      <3>2. request'[r].pc = "prepare" /\ request'[r].end = request[r].end
        BY <3>1, GotoChanges DEF Changes, Fields
      <3>. QED BY <2>1, <3>1, <3>2, NothingAsked
    <2>2. met[q] = {} \/ (Arrive(r) /\ q = r)
      <3>1. CASE Arrive(r) /\ q # r
        BY <1>4, <3>1 DEF Arrive
      <3>2. CASE Proceed(r)
        BY <1>4, <3>2, ProceedsWithoutMeeting
      <3>. QED BY <3>1, <3>2
    <2>3. CASE met[q] = {}
      <3>1. Alone(q) /\ Counted(q) /\ Counted(r)
        BY <1>4, <2>3 DEF LoneDumps
      <3>2. CASE q = r
        BY <1>4, <3>1, <3>2, OwnStepAlone
      <3>3. CASE q # r
        BY <1>4, <2>3, <3>1, <3>3, OthersLeaveAlone
      <3>. QED BY <3>2, <3>3
    <2>. QED BY <2>1, <2>2, <2>3
  <1>. QED BY <1>2, <1>3, <1>4 DEF LoneDumps, Frame

\* A request that fails and met no other leaves a whole dump of itself, with the
\* last body that was sent for it, until another fails.
THEOREM LoneDumpsAreWhole == Spec => []LoneDumpComplete
  <1>1. Init => LoneDumps
    <2>. SUFFICES ASSUME Init, NEW r \in Requests PROVE Counted(r) /\ Alone(r)
      BY DEF LoneDumps
    <2>1. request[r].pc = "idle" /\ request[r].end = "none"
          /\ request[r].attempt = 0 /\ request[r].chunks = 0
      BY DEF Init, Waiting
    <2>. QED BY <2>1 DEF Counted, Beginning, Alone
  <1>2. Course /\ LoneDumps => LoneDumpComplete
    <2>. SUFFICES ASSUME Course, LoneDumps, NEW r \in Requests, mode = "errors",
                         request[r].end = "failed", met[r] = {},
                         \A q \in Requests \ {r} : request[q].end # "failed" /\ ~At(q, "flush")
                  PROVE  /\ files["request"].pieces = <<<<r, 0>>>>
                         /\ files["kiro"].pieces = <<<<r, request[r].attempt>>>>
                         /\ files["error"].by = r
                         /\ files["modified"].pieces = Chunks(r, request[r].chunks)
                         /\ \E n \in {request[r].chunks, request[r].chunks + 1} :
                              files["raw"].pieces = Chunks(r, n)
      BY DEF LoneDumpComplete
    <2>1. Dumped(r) /\ request[r].attempt # 0
      BY DEF LoneDumps, Alone, OthersFail, Counted, Course, Progress
    <2>2. \A log \in Logs : OnDisk[log] = files[log].pieces
      BY DEF OnDisk
    <2>. QED BY <2>1, <2>2 DEF Dumped, Whole, Collected, Logs
  <1>. QED BY <1>1, <1>2, NextLone, InvariantHolds, CourseHolds, PTL DEF Spec


-----------------------------------------------------------------------------
(* What is sent.                                                           *)
LEMMA SentBodies ==
  ASSUME Course, NEW r \in Requests, At(r, "sent")
  PROVE  /\ Kiro(r) = ToKiro(Prepared(r), limit)
         /\ BodyWithin(Kiro(r), ToKiro(Prepared(r), NoLimit), limit)
  <1>. DEFINE told == WithNotices(r)
              tools == WithWebSearchTool(told.tools, body[r].dialect)
              req == Prepared(r)
  <1>1. /\ r \in DOMAIN body /\ ~Panics(req)
        /\ request[r].kiro = ToKiro(req, limit)
    <2>1. Progress(r) /\ request[r].pc = "sent"
      BY DEF Course, At
    <2>. QED BY <2>1 DEF Progress
  <1>2. IsBody(body[r])
    BY <1>1 DEF Course, Bodies
  <1>3. IsSeq(body[r].messages) /\ "messages" \in DOMAIN body[r]
    BY <1>2 DEF IsBody, BodyFields, IsSeq
  <1>4. IsSeq(told.messages)
    BY <1>3, InjectedMessages DEF WithNotices
  <1>5. req = [told EXCEPT !.tools = tools]
    BY DEF Prepared
  <1>. HIDE DEF told, tools, req
  <1>6. told = [f \in BodyFields |-> told[f]]
    BY <1>2 DEF told, WithNotices, injectTruncationRecovery, IsBody, BodyFields
  <1>7. IsSeq(req.messages)
    BY <1>4, <1>5, <1>6 DEF BodyFields
  <1>8. Kiro(r) = ToKiro(req, limit)
    BY <1>1 DEF Kiro
  <1>9. BodyWithin(Kiro(r), ToKiro(req, NoLimit), limit)
    BY <1>1, <1>7, <1>8, BodyOfRequest
  <1>. QED BY <1>8, <1>9 DEF req

\* Whatever a client sends, the history Kiro gets starts with the user, alternates
\* and ends with the assistant, within a limit and without.
THEOREM HistoriesAlternate == Spec => []RolesAlternate
  <1>1. Course => RolesAlternate
    <2>. SUFFICES ASSUME Course, NEW r \in Requests, At(r, "sent")
                  PROVE  LET history == Kiro(r).history
                         IN  /\ \A i \in DOMAIN history :
                                  history[i].by = IF i % 2 = 1 THEN "user" ELSE "assistant"
                             /\ Len(history) % 2 = 0
      BY DEF RolesAlternate, Sent
    <2>. DEFINE history == Kiro(r).history
    <2>1. IsHistory(history)
      BY SentBodies DEF BodyWithin
    <2>. HIDE DEF history
    <2>2. DOMAIN history = 1 .. Len(history)
      BY <2>1, SeqFacts DEF IsHistory
    <2>3. \A i \in DOMAIN history :
            history[i].by = IF i % 2 = 1 THEN "user" ELSE "assistant"
      BY <2>1, <2>2 DEF IsHistory, By
    <2>. QED BY <2>1, <2>3 DEF IsHistory, history
  <1>. QED BY <1>1, CourseHolds, PTL

\* The cuts take whole pairs from the front, stop as soon as the body is within
\* the limit, and never before unless a single pair is left; nothing but the
\* results of the history is changed besides.
THEOREM CutsAreMinimal == Spec => []TrimsNoMoreThanNeeded
  <1>1. Course => TrimsNoMoreThanNeeded
    <2>. SUFFICES ASSUME Course, NEW r \in Requests, At(r, "sent"), limit # NoLimit
                  PROVE  LET whole == ToKiro(Prepared(r), NoLimit)
                             kept  == Kiro(r).history
                             cut   == Len(whole.history) - Len(kept)
                             With(n) == [whole EXCEPT !.history = SubSeq(@, n + 1, Len(@))]
                         IN  /\ cut % 2 = 0
                             /\ \A i \in DOMAIN kept :
                                  /\ kept[i].content = whole.history[cut + i].content
                                  /\ kept[i].uses = whole.history[cut + i].uses
                             /\ Kiro(r).content = whole.content
                             /\ Kiro(r).results = whole.results
                             /\ cut > 0 => checkPayloadSize(With(cut - 2)) > limit
                             /\ checkPayloadSize(With(cut)) > limit => Len(kept) <= 2
      BY DEF TrimsNoMoreThanNeeded, Sent, Untrimmed
    <2>. DEFINE whole == ToKiro(Prepared(r), NoLimit)
                sent  == Kiro(r)
                kept  == sent.history
                cut   == Len(whole.history) - Len(kept)
                With(n) == [whole EXCEPT !.history = SubSeq(@, n + 1, Len(@))]
    <2>1. BodyWithin(sent, whole, limit)
      BY SentBodies
    <2>2. \A n : With(n) = Without(whole, n)
      BY DEF Without
    <2>. HIDE DEF whole, sent, With
    <2>3. /\ sent.content = whole.content /\ sent.results = whole.results
          /\ Len(kept) \in Nat /\ DOMAIN kept = 1 .. Len(kept) /\ Len(whole.history) \in Nat
      BY <2>1, SeqFacts DEF BodyWithin, IsHistory, PayloadFields
    <2>4. PICK c : /\ CutHere(whole, limit, c)
                   /\ Len(kept) = Len(whole.history) - c
                   /\ \A i \in 1 .. Len(kept) :
                        /\ kept[i].content = whole.history[c + i].content
                        /\ kept[i].uses = whole.history[c + i].uses
      BY <2>1 DEF BodyWithin, TrimmedFrom
    <2>5. c \in Nat /\ c = cut
      BY <2>3, <2>4 DEF CutHere
    <2>6. /\ c % 2 = 0 /\ (c > 0 => checkPayloadSize(With(c - 2)) > limit)
          /\ checkPayloadSize(With(c)) > limit => Len(kept) <= 2
      BY <2>2, <2>4 DEF CutHere
    <2>. HIDE DEF cut, kept
    <2>7. \A i \in DOMAIN kept : /\ kept[i].content = whole.history[cut + i].content
                                 /\ kept[i].uses = whole.history[cut + i].uses
      BY <2>3, <2>4, <2>5
    <2>. QED BY <2>3, <2>5, <2>6, <2>7 DEF whole, sent, kept, cut, With
  <1>. QED BY <1>1, CourseHolds, PTL
=============================================================================
