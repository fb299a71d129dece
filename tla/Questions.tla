------------------------------ MODULE Questions ------------------------------
(***************************************************************************)
(* The text rules of core (text.ts, nickname.ts), what a game makes of a   *)
(* host's question set (games/promptConfig.ts), and the steps of the       *)
(* host's question editor (web PromptSetEditor.tsx).  A text is a sequence *)
(* of graphemes; of a grapheme only what the rules ask is kept: how many   *)
(* code units it has, whether it is white space or an invisible format     *)
(* character, and its lower case.                                          *)
(***************************************************************************)
EXTENDS Integers, SequencesExt

CONSTANTS Units, White, Format, LowerCase,  \* about graphemes
          Space,                            \* the blank a run of white space becomes
          NotText,                          \* an entry that is not a string
          UNITS_PER_CHAR, MAX_LEN, MAX_PROMPTS, MAX_SCAN

ASSUME QuestionsAssumption == {UNITS_PER_CHAR, MAX_LEN, MAX_PROMPTS, MAX_SCAN} \subseteq Nat

Weight(text) == FoldLeft(LAMBDA sum, g : sum + Units[g], 0, text)

trimStart(text) ==
  LET shown == {i \in DOMAIN text : text[i] \notin White}
  IN  IF shown = {} THEN <<>> ELSE SubSeq(text, Min(shown), Len(text))
trimEnd(text) ==
  LET shown == {i \in DOMAIN text : text[i] \notin White}
  IN  IF shown = {} THEN <<>> ELSE SubSeq(text, 1, Max(shown))
trim(text) == trimStart(trimEnd(text))

(* At most `max` graphemes and max * UNITS_PER_CHAR units, none split; blank *)
(* if nothing of it can be seen.                                             *)
boundedText(raw, max) ==
  LET text == trim(raw)
      Fits(n) == n <= max /\ Weight(SubSeq(text, 1, n)) <= max * UNITS_PER_CHAR
      kept == trimEnd(SubSeq(text, 1, Max({n \in 0..Len(text) : Fits(n)})))
  IN  IF ToSet(kept) \subseteq White \cup Format THEN <<>> ELSE kept

normaliseNickname(raw, max) ==
  LET Collapse(text, g) ==
        IF g \notin White THEN Append(text, g)
        ELSE IF text # <<>> /\ Last(text) = Space THEN text ELSE Append(text, Space)
  IN  boundedText(FoldLeft(Collapse, <<>>, raw), max)

lower(text) == [i \in DOMAIN text |-> LowerCase[text[i]]]

-----------------------------------------------------------------------------
(* What the game plays of an authored list: the first MAX_PROMPTS of its     *)
(* usable entries, one of each.                                              *)
clean(raw) ==
  LET Take(list, item) ==
        IF item = NotText \/ Len(list) >= MAX_PROMPTS THEN list
        ELSE LET text == boundedText(item, MAX_LEN)
             IN  IF text = <<>> \/ \E i \in DOMAIN list : lower(list[i]) = lower(text)
                 THEN list
                 ELSE Append(list, text)
  IN  FoldLeft(Take, <<>>, SubSeq(raw, 1, IF Len(raw) < MAX_SCAN THEN Len(raw) ELSE MAX_SCAN))

bank(prompts, builtin) == IF clean(prompts) = <<>> THEN builtin ELSE clean(prompts)
promptCount(prompts, builtin) == Len(bank(prompts, builtin))
choosePrompt(prompts, builtin, round) ==
  LET set == bank(prompts, builtin)
  IN  IF round \in DOMAIN set THEN set[round] ELSE builtin[1]

-----------------------------------------------------------------------------
(* The editor's list. *)
norm(text) == lower(trim(text))
has(list, text) == \E i \in DOMAIN list : norm(list[i]) = norm(text)
notInPack(items, pack) ==
  FoldLeft(LAMBDA kept, text : IF ~has(pack, text) THEN Append(kept, text) ELSE kept, <<>>, items)
additions(pack, items) ==
  FoldLeft(LAMBDA kept, text : IF trim(text) # <<>> /\ ~has(items, text) THEN Append(kept, text)
                               ELSE kept,
           <<>>, pack)
capped(list) == SubSeq(list, 1, IF Len(list) < MAX_PROMPTS THEN Len(list) ELSE MAX_PROMPTS)

togglePack(list, pack) ==
  IF \A i \in DOMAIN pack : has(list, pack[i])
  THEN notInPack(list, pack)
  ELSE capped(list \o additions(pack, list))

removeAt(list, i) == RemoveAt(list, i)

addCustom(list, draft) ==
  LET text == boundedText(draft, MAX_LEN)
  IN  IF text = <<>> \/ has(list, text) \/ Len(list) >= MAX_PROMPTS THEN list
      ELSE Append(list, text)

(* arrayMove: the row goes to where the other one was.                       *)
reorder(list, from, to) == InsertAt(RemoveAt(list, from), to, list[from])
=============================================================================
