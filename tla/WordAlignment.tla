---------------------------- MODULE WordAlignment ----------------------------
(***************************************************************************)
(* lingualdub.components.alignment: the time stamps that the forced        *)
(* aligners give to the words of a segment.  The dummy aligner, and the    *)
(* neural one where it falls back, divide the segment by the length of the *)
(* words; the neural aligner anchors them on the characters its CTC model  *)
(* emits.  A word is a sequence of letters, a frame of the model shows a   *)
(* letter or a blank.  Times are whole numbers, and where the code rounds  *)
(* to the microsecond a division rounds down.                              *)
(***************************************************************************)
EXTENDS Integers, Sequences, SequencesExt

CONSTANTS Letters,            \* what words are made of
          Blank               \* the blank of CTC

ASSUME BlankIsNoLetter == Blank \notin Letters

Smaller(a, b) == IF a < b THEN a ELSE b
Larger(a, b) == IF a > b THEN a ELSE b

-----------------------------------------------------------------------------
\* Where word i ends: with the segment when it is the last one.
EndOf(words, i, cursor, start, end) ==
    LET total == Larger(Len(FlattenSeq(words)), 1)
    IN IF i = Len(words) THEN end
       ELSE Smaller(cursor + ((end - start) * Len(words[i])) \div total, end)

\* "cursor": where word i is over and the next one begins
Cursors(words, start, end) ==
    LET cursor[i \in 0..Len(words)] ==
            IF i = 0 THEN start ELSE EndOf(words, i, cursor[i - 1], start, end)
    IN cursor

\* _distribute_word_timestamps()
Distributed(words, start, end) ==
    [i \in DOMAIN words |-> [start |-> Cursors(words, start, end)[i - 1],
                             end |-> Cursors(words, start, end)[i]]]

-----------------------------------------------------------------------------
\* _ctc_char_frames(): repeated labels collapse into the first of them, blanks go.
Emissions(frames) ==
    {f \in DOMAIN frames : /\ frames[f] # Blank
                           /\ f = 1 \/ frames[f - 1] # frames[f]}

\* The frame that a letter takes: the one just consumed (0: none yet) when that
\* shows the same letter, or else the next emission of it, or none there is.
Taken(frames, letter, consumed) ==
    LET later == {f \in Emissions(frames) : f > consumed /\ frames[f] = letter}
    IN IF consumed \in DOMAIN frames /\ frames[consumed] = letter THEN consumed
       ELSE IF later = {} THEN Len(frames) + 1
       ELSE CHOOSE f \in later : \A g \in later : f <= g

\* The frames that the letters of one word take
Walked(frames, word, from) ==
    LET at[k \in 0..Len(word)] ==
            IF k = 0 THEN from ELSE Taken(frames, word[k], at[k - 1])
    IN at

\* The frame consumed last when word i is over
Consumed(words, frames) ==
    LET past[i \in 0..Len(words)] ==
            IF i = 0 THEN 0 ELSE Walked(frames, words[i], past[i - 1])[Len(words[i])]
    IN past

\* _align_words_to_frames(): the frame of the first letter of every word, or <<>>
\* when the streams do not agree.
Spans(words, frames) ==
    LET past == Consumed(words, frames)
    IN IF past[Len(words)] > Len(frames) THEN <<>>
       ELSE [i \in DOMAIN words |-> Walked(frames, words[i], past[i - 1])[1] - 1]

\* Mutant: a start is not held within the segment.
AnchorAnywhere(frame, start, end) == start + frame * (end - start)

\* run(), "frame_seconds": the length of the segment in seconds, and not that of
\* a frame; a word that does not start in the first frame starts at the end.
Anchor(frame, start, end) == start + Smaller(frame * (end - start), end - start)

\* NeuralForcedAlignmentComponent.run(): every word ends where the next begins.
Anchored(words, frames, start, end) ==
    LET spans == Spans(words, frames)
        At(i) == Anchor(spans[i], start, end)
    IN IF words = <<>> \/ spans = <<>> THEN Distributed(words, start, end)
       ELSE [i \in DOMAIN words |->
                [start |-> At(i), end |-> IF i = Len(words) THEN end ELSE At(i + 1)]]
=============================================================================
