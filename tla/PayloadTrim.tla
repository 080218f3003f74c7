------------------------------ MODULE PayloadTrim ------------------------------
(***************************************************************************)
(* The guard on the size of the payload (payloadtrim.go) and the fields    *)
(* for models that reason by themselves (modelcaps.go).                    *)
(* The size of a payload is the number of pieces in it.                    *)
(***************************************************************************)
EXTENDS KiroPayload

NoLimit == 0     \* AutoTrimPayload is off

ResultsSize(results) == FoldLeft(LAMBDA n, r : n + 1 + Len(r.text), 0, results)

EntrySize(entry) ==
  Len(entry.content) + Len(entry.images) + Len(entry.uses) + ResultsSize(entry.results)

HistorySize(history) == FoldLeft(LAMBDA n, entry : n + EntrySize(entry), 0, history)

checkPayloadSize(payload) ==
  HistorySize(payload.history)
    + Len(payload.content) + Len(payload.images) + Len(payload.tools)
    + ResultsSize(payload.results)

\* Fault: what is measured is the payload before the cuts.
CutUnmeasured(payload, max) ==
  LET history == payload.history
      cut[n \in 0 .. Len(history)] ==
        LET kept == [payload EXCEPT !.history = SubSeq(history, n + 1, Len(history))]
        IN  IF Len(kept.history) > 2 /\ checkPayloadSize(payload) > max
            THEN cut[n + 2] ELSE kept
  IN  cut[0]

\* Pairs are cut from the front while the payload is too big and more than one
\* is left; the payload is measured anew after each.
Cut(payload, max) ==
  LET history == payload.history
      cut[n \in 0 .. Len(history)] ==
        LET kept == [payload EXCEPT !.history = SubSeq(history, n + 1, Len(history))]
        IN  IF Len(kept.history) > 2 /\ checkPayloadSize(kept) > max
            THEN cut[n + 2] ELSE kept
  IN  cut[0]

Aligned(out, entry) == IF out = <<>> /\ entry.by # "user" THEN out ELSE Append(out, entry)

alignToUserMessage(history) == FoldLeft(Aligned, <<>>, history)

\* The ids of the calls a result at this place of the history may answer.
ValidIDs(history, i) ==
  IF i = 1 THEN {} ELSE {use.id : use \in Range(history[i-1].uses)}

\* A result that answers no call right before it goes.  Its text goes with it:
\* it is looked for in a list of another type than the one it is in.
repairOrphanedToolResults(history) ==
  [i \in DOMAIN history |->
     [history[i] EXCEPT !.results =
        SelectSeq(@, LAMBDA r : r.id \in ValidIDs(history, i))]]

TrimPayloadToLimit(payload, max) ==
  [Cut(payload, max) EXCEPT !.history =
     repairOrphanedToolResults(alignToUserMessage(@))]

\* limit is KiroMaxPayloadBytes.
BuildKiroPayload(u, limit) ==
  IF limit = NoLimit THEN UntrimmedPayload(u)
  ELSE TrimPayloadToLimit(UntrimmedPayload(u), limit)

-----------------------------------------------------------------------------
\* Efforts the endpoint caps when the client turns thinking off.
cappedWithoutThinking == {"xhigh", "max"}

highestUncapped(levels) ==
  LET uncapped == SelectSeq(levels, LAMBDA l : l \notin cappedWithoutThinking)
  IN  IF uncapped = <<>> THEN "" ELSE Last(uncapped)

\* The effort after what the models ask for is made of it.
Effort(caps, thinking, effort) ==
  LET asked == IF caps.effortPath = "reasoning" /\ effort = "" /\ thinking = "disabled"
               THEN "none" ELSE effort
  IN  IF /\ thinking = "disabled" /\ "disabled" \in Range(caps.thinkingTypes)
         /\ asked \in cappedWithoutThinking
      THEN highestUncapped(caps.effortLevels) ELSE asked

\* additionalModelRequestFields; "" stands for a field that is not there.
RequestFields(caps, asked) ==
  LET thinking == IF asked.thinking = "enabled" THEN "adaptive" ELSE asked.thinking
      effort   == Effort(caps, thinking, asked.effort)
      known    == thinking \in Range(caps.thinkingTypes)
  IN  [effort   |-> IF effort \in Range(caps.effortLevels) THEN effort ELSE "",
       thinking |-> IF known THEN thinking ELSE "",
       display  |-> IF known /\ asked.display \in Range(caps.displays)
                    THEN asked.display ELSE ""]

NoFields == [effort |-> "", thinking |-> "", display |-> ""]

NativeReasoningFields(u) ==
  IF u.model \in NativeModels THEN RequestFields(ModelCaps, u.asked) ELSE NoFields

\* The whole body: the payload and the fields the adapters add to it.
KiroBody(u, limit) ==
  LET payload == BuildKiroPayload(u, limit)
  IN  [f \in DOMAIN payload \cup {"fields"} |->
         IF f = "fields" THEN NativeReasoningFields(u) ELSE payload[f]]
=============================================================================
