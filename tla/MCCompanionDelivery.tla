------------------------ MODULE MCCompanionDelivery ------------------------
(* Small instances of CompanionDelivery for TLC.                           *)
EXTENDS CompanionDelivery

CONSTANT MaxTokens      \* length of the final answers with any token

\* Every text of at most MaxTokens tokens, some longer ones of runes, sentences
\* and markers, and one of three segments: enough for a hard cut, for short
\* segments that are joined and some that are not, and for a text that is left
\* whole because it would have too many segments.
ShortTexts ==
    UNION {[1 .. n -> Tokens] : n \in 0 .. MaxTokens}
    \cup [1 .. MaxTokens + 1 -> {"w", ".", "#"}]
    \cup [1 .. MaxTokens + 2 -> {"w", "."}]
    \cup {<<"w", "w", "|", "w", "w">>, <<"w", "#", "w", "w", "#", "w">>}
=============================================================================
