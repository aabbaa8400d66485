--------------------------- MODULE StructuredOutput ---------------------------
(* The text of a model turn that ExtractJSON decodes. A provider may mark    *)
(* its messages as commentary or as the final answer; then only the final    *)
(* message counts, and a turn without exactly one is refused.                *)
EXTENDS CallTracker

CONSTANT Phases     \* MessageMetadata.Phase of every message with an id

ASSUME PhasesAssumption ==
    \A item \in DOMAIN Phases :
        item # NoItem /\ Phases[item] \in {"", "commentary", "final_answer"}

Phase(item) == IF item = NoItem THEN "" ELSE Phases[item]

Phased(texts) == \E i \in DOMAIN texts : Phase(texts[i].item) # ""

\* Text whose part in the answer is not said, or two final messages.
Ambiguous(texts) ==
    \/ \E i \in DOMAIN texts :
         /\ Phase(texts[i].item) = ""
         /\ texts[i].words # "empty" \/ texts[i].item # NoItem
    \/ \E i, j \in DOMAIN texts :
         /\ Phase(texts[i].item) = "final_answer" /\ Phase(texts[j].item) = "final_answer"
         /\ texts[i].item # texts[j].item

\* The texts to decode, joined, and then one by one unless the provider said
\* which they are; none if the turn is refused. Thoughts are never read.
TextCandidates(parts) ==
    LET texts == OfKind(parts, "text")
        phased == Phased(texts)
        read == SelectSeq(texts, LAMBDA p :
                    p.words # "empty" /\ (phased => Phase(p.item) = "final_answer"))
        joined == Numbers(read)
    IN IF read = <<>> \/ (phased /\ Ambiguous(texts)) THEN <<>>
       ELSE IF phased \/ Len(read) = 1 THEN <<joined>>
       ELSE <<joined>> \o [i \in DOMAIN joined |-> <<joined[i]>>]
===============================================================================
