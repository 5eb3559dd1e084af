--------------------------- MODULE MCSlotArchive ---------------------------
(* Small instances of SlotArchive. *)
EXTENDS SlotArchive, TLC

CONSTANTS k1, k2, s1, s2, m1

KeySymmetry == Permutations(Keys)

\* Every request autosaves; the system prompt may change.
PrefixPrompts == [prefix: Settings, messages: {<<m1>>}, autosave: {TRUE}]

\* A history that grows by one message at a time; going back to a shorter one is an edit.
\* The clients of the first and the last want it saved, at lengths below MinTokens and at it.
EditedPrompts ==
  [prefix: Settings, messages: {<<m1>>, <<m1, m1, m1>>}, autosave: {TRUE}]
    \cup [prefix: Settings, messages: {<<m1, m1>>}, autosave: {FALSE}]
=============================================================================
