----------------------------- MODULE Recognition -----------------------------
(***************************************************************************)
(* The components that make and change a transcript: speech recognition,   *)
(* language identification and translation.  Each operator is run() of a   *)
(* component: the set of what it may come to on an input, given the files. *)
(* The models and the cloud service are external: they may raise, and they *)
(* answer with any transcript or translation in whose words the properties *)
(* could tell a difference.                                                *)
(***************************************************************************)
EXTENDS Results

Canned == <<Word(0, Source)>>      \* default_text of the offline recognizers

\* The audio of the input: resource.path, or the first artifact.
AudioOf(input) == IF input.kind = "resource" THEN {Recording}
                  ELSE {input.artifacts[i].file : i \in 1..Len(input.artifacts) \cap {1}}

\* A model answers with one text, or with chunks; empty chunks are dropped.
Chunkings(text) == {<<text>>, [i \in DOMAIN text |-> <<text[i]>>]}
Plain(texts) == [i \in DOMAIN texts |-> Segment(texts[i])]
Timed(texts) == [i \in DOMAIN texts |-> [Segment(texts[i]) EXCEPT !.words = texts[i]]]

Heard(input, files) == UNION {Chunkings(files[f].words) : f \in AudioOf(input)}

\* A model is loaded when it is first used, and run() raises when that, or
\* the model, fails.
Loading(outcomes) == {Raises} \cup outcomes

\* Neither looks at consent nor hands on anything of its input.
Whisper(input, files) ==
    Loading({Returns(Result(Plain(texts))) : texts \in Heard(input, files)})

Propagating(input, segs) == Returns([Result(segs) EXCEPT !.consent = input.consent])

\* The checkpoint, or openai/whisper-small in its place.
SunbirdLocal(input, files) ==
    Loading({Propagating(input, Plain(texts)) : texts \in Heard(input, files)})

SunbirdCloud(input, files) ==
    {Raises} \cup {Propagating(input, Plain(<<files[f].words>>)) :
                      f \in {g \in AudioOf(input) : HasConsent(input)}}

FasterWhisper(input, files) ==
    IF ~HasConsent(input) THEN {Raises}
    ELSE Loading(UNION {{Propagating(input, Plain(texts)), Propagating(input, Timed(texts))} :
                           texts \in Heard(input, files)})

OrCanned(text) == IF text = <<>> THEN Canned ELSE text

\* Segments that are there already are transcribed as what they say.
Rewritten(segs, named) ==
    [i \in DOMAIN segs |->
        [segs[i] EXCEPT !.text = OrCanned(@), !.words = OrCanned(segs[i].text),
                        !.speaker = @ \/ named, !.consent = FALSE]]
Made == <<[Segment(Canned) EXCEPT !.words = Canned, !.speaker = TRUE]>>

DummyASR(input) ==
    IF input.segs # <<>> THEN {Propagating(input, Rewritten(input.segs, FALSE))}
    ELSE {[Returns(Result(Made)) EXCEPT
              !.result.consent = input.kind = "result" /\ input.consent]}

\* Luganda's recognizer if it is there and works, the canned text if not.
Runyankole(input, files) ==
    {Propagating(input, IF input.segs = <<>> THEN Made ELSE Rewritten(input.segs, TRUE))}
    \cup {out \in SunbirdLocal(input, files) : out.ok}

-----------------------------------------------------------------------------
\* Language identification.  The words that are `known` are told apart; all
\* others are in the default language.  The word lists know the foreign ones.
Language(word, known) == IF word \in known THEN word.in ELSE Source
Listed(text) == {w \in Range(text) : w.in = Foreign}

Mixed(text, known) ==
    \E i, j \in DOMAIN text : Language(text[i], known) # Language(text[j], known)

\* The longest spans of words in one language, flushed when it changes.
Spans(text, known) ==
    LET starts == {i \in DOMAIN text :
                      i = 1 \/ Language(text[i], known) # Language(text[i - 1], known)}
        End(i) == CHOOSE j \in i..Len(text) :
                      (i + 1)..j \cap starts = {} /\ (j = Len(text) \/ j + 1 \in starts)
    IN  Chosen([i \in DOMAIN text |-> SubSeq(text, i, End(i))], starts)

\* A part of a segment has all the words of the whole in its metadata.
Parts(seg, text, known) ==
    LET spans == Spans(text, known)
    IN  [i \in DOMAIN spans |->
            [seg EXCEPT !.text = spans[i], !.lang = Language(Head(spans[i]), known)]]

\* The text of the parts is made of the words of the metadata.
SplitByWords(seg) == Parts([seg EXCEPT !.consent = FALSE], seg.words, Listed(seg.words))

Label(seg, language) == <<[seg EXCEPT !.lang = language]>>

\* The language of most words, of the first of them if two are level.
Majority(text) ==
    LET known == Listed(text)
        Of(language) == Cardinality({i \in DOMAIN text : Language(text[i], known) = language})
    IN  IF \/ Of(Foreign) > Of(Source)
           \/ text # <<>> /\ Of(Foreign) = Of(Source) /\ text[1] \in known
        THEN Foreign ELSE Source

DummyLID(input, split) ==
    LET Identify(seg) ==
            IF split /\ Mixed(seg.text, Listed(seg.text)) /\ seg.words # <<>>
            THEN SplitByWords(seg)
            ELSE Label([seg EXCEPT !.consent = FALSE], Majority(seg.text))
    IN  IF input.kind = "resource" THEN {Raises}
        ELSE {Returns(HandOn(input, FlattenSeq([i \in DOMAIN input.segs |->
                                                   Identify(input.segs[i])])))}

\* The weights of the words are left out: in a mixed text either language may
\* win, or neither by enough, and then the label stays what it was.
HeuristicLID(input) ==
    LET Identify(seg, winner) ==
            IF Mixed(seg.text, Listed(seg.text)) /\ seg.words # <<>> THEN SplitByWords(seg)
            ELSE Label([seg EXCEPT !.consent = FALSE],
                       IF ~Mixed(seg.text, Listed(seg.text)) THEN Majority(seg.text)
                       ELSE IF winner = "neither" THEN seg.lang ELSE winner)
    IN  IF input.kind = "resource" THEN {Raises}
        ELSE {Returns(HandOn(input, FlattenSeq([i \in DOMAIN input.segs |->
                                                   Identify(input.segs[i], winner)]))) :
                 winner \in {Source, Foreign, "neither"}}

\* A model that labels some of the words and takes the rest for the default
\* language; the text is cut in proportion, not by the words of the metadata.
Guessed(seg, known, sure) ==
    IF Mixed(seg.text, known) THEN Parts(seg, seg.text, known)
    ELSE Label(seg, IF sure /\ seg.text # <<>> THEN Language(Head(seg.text), known) ELSE seg.lang)

Labelled(segs, known, sure) == FlattenSeq([i \in DOMAIN segs |-> Guessed(segs[i], known, sure)])

NeuralLID(input) ==
    LET Words == UNION {Range(input.segs[i].text) : i \in DOMAIN input.segs}
    IN  IF input.kind = "resource" THEN {Raises}
        ELSE {Returns(HandOn(input, Labelled(input.segs, known, sure))) :
                 known \in SUBSET Words, sure \in BOOLEAN}

-----------------------------------------------------------------------------
\* Translation.  The target text says the words of the source text.
Translated(text) == [i \in DOMAIN text |-> Word(text[i].of, Target)]
Texts(input) == [i \in DOMAIN input.segs |-> input.segs[i].text]

\* A model answers for each text; what it answers may be empty.
ModelAnswers(texts) ==
    LET all == [i \in DOMAIN texts |-> Translated(texts[i])]
    IN  {all} \cup {[all EXCEPT ![i] = <<>>] : i \in DOMAIN texts}

\* The service answers in lines: it may have joined some; on an empty answer
\* the texts stay what they are.
CloudAnswers(texts) ==
    {texts} \cup {SubSeq([i \in DOMAIN texts |-> Translated(texts[i])], 1, n) :
                     n \in 1..Len(texts)}

\* zip(strict=False): a segment without an answer is not in the result; the
\* words of the metadata are those of the source.
Answered(input, answer) ==
    [i \in DOMAIN answer |-> [input.segs[i] EXCEPT !.text = answer[i], !.lang = Target,
                                                   !.consent = FALSE]]
Translating(input, answers) ==
    {[Returns(HandOn(input, Answered(input, answer)))
        EXCEPT !.lost = Said(input.segs) \ Said(Plain(answer))] : answer \in answers}

\* Without segments the Result is a bare one.
Translator(input, answers) ==
    IF input.kind = "resource" THEN {Raises}
    ELSE IF input.segs = <<>> THEN {Returns(Result(<<>>))}
    ELSE {Raises} \cup Translating(input, answers)

SunbirdCloudMT(input) == Translator(input, CloudAnswers(Texts(input)))
HuggingFaceMT(input) == Translator(input, ModelAnswers(Texts(input)))

QuantizedNLLB(input) ==
    IF input.kind = "resource" THEN {Raises}
    ELSE IF input.segs = <<>> THEN {Returns(HandOn(input, <<>>))}
    ELSE Loading(Translating(input, ModelAnswers(Texts(input))))

DummyMT(input) ==
    IF input.kind = "resource" THEN {Raises}
    ELSE Translating(input, {[i \in DOMAIN input.segs |-> Translated(input.segs[i].text)]})

\* SunbirdClient.translate(), by its older address after a 404: an answer, that
\* may be empty, if it does not raise.
ServiceAnswers(text) == {Translated(text), <<>>}

\* translate_with_lexicon(): a text that begins with a phrase of the book is
\* answered with that phrase, whatever follows it; else every word that is in
\* the dictionary is replaced.
LexiconAnswers(text) ==
    {SubSeq(Translated(text), 1, n) : n \in DOMAIN text}
    \cup {[i \in DOMAIN text |-> IF i \in known THEN Translated(text)[i] ELSE text[i]] :
              known \in SUBSET DOMAIN text}

=============================================================================
