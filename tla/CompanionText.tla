---------------------------- MODULE CompanionText ----------------------------
(***************************************************************************)
(* How a final answer is cut into the messages of companion mode            *)
(* (output.LexCompanion, output.SplitCompanion).                            *)
(*                                                                         *)
(* A text is a sequence of tokens: a rune "w", a rune that ends a sentence  *)
(* ".", a blank line "|", a marker [[SEND]] "#", the fence of a code block  *)
(* "~".  A segment is the sequence of the positions of its tokens in the    *)
(* text, so nothing but order and presence is kept of a rune; 0 stands for  *)
(* the blank that joins a short segment to the one before it.               *)
(***************************************************************************)
EXTENDS Naturals, Sequences, SequencesExt

CONSTANTS
    MaxRunes,       \* 80: runes of a segment
    MinRunes,       \* 2: shorter segments are joined to the one before
    MaxFree         \* 3: more segments than that without a marker are not cut

Tokens == {"w", ".", "|", "#", "~"}

ASSUME TextAssumption == MaxRunes \in Nat \ {0} /\ MinRunes \in Nat /\ MaxFree \in Nat

Positions(text) == [i \in DOMAIN text |-> i]

\* LexCompanion: a marker between two fences is ordinary text.
InFence(text, i) == Len(SelectSeq(SubSeq(text, 1, i - 1), LAMBDA t : t = "~")) % 2 = 1
IsMarker(text, i) == text[i] = "#" /\ ~InFence(text, i)

\* The pieces of s, a sequence of positions, between those of cuts.
SplitAt(s, cuts) ==
    FoldLeft(LAMBDA parts, i : IF i \in cuts THEN Append(parts, <<>>)
                               ELSE [parts EXCEPT ![Len(parts)] = Append(@, i)],
             << <<>> >>, s)

\* splitSentences: a piece ends with a position of ends.
SplitAfter(s, ends) ==
    LET parts == FoldLeft(LAMBDA acc, i : LET grown == [acc EXCEPT ![Len(acc)] = Append(@, i)]
                                          IN  IF i \in ends THEN Append(grown, <<>>) ELSE grown,
                          << <<>> >>, s)
    IN  SelectSeq(parts, LAMBDA p : p # <<>>)

\* strings.TrimSpace: from the first position that is not blank to the last.
Trim(text, s) ==
    LET solid == {i \in DOMAIN s : text[s[i]] # "|"}
    IN  IF solid = {} THEN <<>> ELSE SubSeq(s, Min(solid), Max(solid))

\* hardSplit: cut after the last sentence end in the second half, else at the limit;
\* rest[n] are the pieces of what is left after the first n runes.
hardSplit(text, s) ==
    LET ends(n) == {i \in n + MaxRunes \div 2 + 1 .. n + MaxRunes : text[s[i]] = "."}
        cut(n) == IF ends(n) = {} THEN n + MaxRunes ELSE Max(ends(n))
        last(n) == Trim(text, SubSeq(s, n + 1, Len(s)))
        rest[n \in 0 .. Len(s)] ==
            IF Len(s) - n <= MaxRunes THEN IF last(n) = <<>> THEN <<>> ELSE <<last(n)>>
            ELSE <<Trim(text, SubSeq(s, n + 1, cut(n)))>> \o rest[cut(n)]
    IN  rest[0]

mergeShortSegments(segments) ==
    FoldLeft(LAMBDA acc, seg :
                 IF acc # <<>> /\ Len(seg) < MinRunes /\ Len(Last(acc)) + 1 + Len(seg) <= MaxRunes
                 THEN Append(Front(acc), Last(acc) \o <<0>> \o seg)
                 ELSE Append(acc, seg),
             <<>>, segments)

splitAndBound(text, parts) ==
    LET whole == SelectSeq([p \in DOMAIN parts |-> Trim(text, parts[p])], LAMBDA p : p # <<>>)
    IN  mergeShortSegments(FlattenSeq([p \in DOMAIN whole |-> hardSplit(text, whole[p])]))

\* SplitCompanion: markers decide; without one, paragraphs or, of a single long
\* paragraph, sentences, and the text as it is when that gives too many.
SplitCompanion(text) ==
    LET input == Trim(text, Positions(text))
        markers == {i \in DOMAIN text : IsMarker(text, i)}
        blanks == {i \in DOMAIN text : text[i] = "|"}
        stops == {i \in DOMAIN text : text[i] = "."}
        paragraphs == SplitAt(input, blanks)
        parts == IF Len(paragraphs) = 1 /\ Len(input) > MaxRunes
                 THEN SplitAfter(input, stops) ELSE paragraphs
        segments == splitAndBound(text, parts)
    IN  IF input = <<>> THEN <<>>
        ELSE IF markers # {} THEN splitAndBound(text, SplitAt(input, markers))
        ELSE IF Len(segments) > MaxFree THEN <<input>> ELSE segments

\* The runes a reader must get, in order.
Readable(text) ==
    SelectSeq(Positions(text), LAMBDA i : text[i] # "|" /\ ~IsMarker(text, i))
ReadableOf(text, segment) == SelectSeq(segment, LAMBDA i : i # 0 /\ text[i] # "|")

\* Whoever reads the segments in their order has read the text.
KeepsText(text, segments) ==
    FlattenSeq([k \in DOMAIN segments |-> ReadableOf(text, segments[k])]) = Readable(text)
=============================================================================
