----------------------------- MODULE MCHostBoard -----------------------------
(* Two games of one step and of two, with two built-in questions each, and   *)
(* texts of one grapheme; and the reference definitions of the text rules,   *)
(* which TLC compares with the rules over all small inputs.                  *)
EXTENDS HostBoard, TLC

CONSTANTS g1, g2

MCBuiltin == [g \in Game |-> << <<"p">>, <<"q">> >>]
MCPack == [g \in Game |-> << <<"p">>, <<"a">> >>]
MCSteps == [g \in Game |-> IF g = g1 THEN 2 ELSE 1]
MCDraft == { <<"a">> }

(* A letter in two cases, a letter with many marks, a blank, and a mark that *)
(* does not show.                                                            *)
MCUnits == [c \in {"a", "A", "p", "q", "m", " ", "f"} |-> IF c = "m" THEN 3 ELSE 1]
MCWhite == {" "}
MCFormat == {"f"}
MCLowerCase == [c \in DOMAIN MCUnits |-> IF c = "A" THEN "a" ELSE c]

Letters == {"a", "A", "m", " ", "f"}
Texts(n) == UNION {[1..k -> Letters] : k \in 0..n}

(* boundedText from its description: trimmed, the longest prefix within both *)
(* caps; and cleaning a clean text changes nothing.                          *)
BoundedTextIsRight ==
  \A raw \in Texts(4), max \in 1..2 :
    LET t == boundedText(raw, max) IN
    /\ Len(t) <= max /\ Weight(t) <= max * UNITS_PER_CHAR
    /\ boundedText(t, max) = t
    /\ t # <<>> => t[1] \notin MCWhite /\ Last(t) \notin MCWhite /\ ~(ToSet(t) \subseteq MCWhite \cup MCFormat)
ASSUME BoundedTextAssumption == BoundedTextIsRight

(* clean from its description: the first MAX_PROMPTS different texts among   *)
(* the first MAX_SCAN entries.                                               *)
Entries == { <<"a">>, <<"A">>, <<" ", "a">>, <<"f">>, <<"p">>, NotText }
CleanReference(raw) ==
  LET Text(i) == IF raw[i] = NotText THEN <<>> ELSE boundedText(raw[i], MAX_LEN)
      First == {i \in DOMAIN raw : i <= MAX_SCAN /\ Text(i) # <<>>
                  /\ \A j \in 1..i - 1 : Text(j) = <<>> \/ lower(Text(j)) # lower(Text(i))}
      Kept == {i \in First : Cardinality({j \in First : j < i}) < MAX_PROMPTS}
  IN  [n \in 1..Cardinality(Kept) |->
         Text(CHOOSE i \in Kept : Cardinality({j \in Kept : j <= i}) = n)]
CleanIsRight ==
  \A k \in 0..4 : \A raw \in [1..k -> Entries] : clean(raw) = CleanReference(raw)
ASSUME CleanAssumption == CleanIsRight
=============================================================================
