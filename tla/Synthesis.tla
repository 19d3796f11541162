------------------------------ MODULE Synthesis ------------------------------
(***************************************************************************)
(* The components that make audio of a Result: the speaker embedding, the  *)
(* predictor of durations, the six TTS components and the blender of       *)
(* code-switched audio.  Each operator is run() of a component; Degraded   *)
(* is degrade() of those that have one.                                    *)
(*                                                                         *)
(* All files are named by rule, in directories under the temporary         *)
(* directory which every process of the machine uses.                      *)
(***************************************************************************)
EXTENDS Recognition

\* The embedding is computed from the first artifact, without one from the
\* texts: a Result of a recognizer has no artifact.
Embedding(input, files) ==
    LET first == AudioOf(input)
    IN  IF first = {} THEN "text" ELSE files[CHOOSE f \in first : TRUE].voice

About == <<[Segment(Canned) EXCEPT !.consent = FALSE]>>     \* "speaker embedding for ..."

SpeakerEmbedding(input, files) ==
    IF ~HasConsent(input) THEN {Raises}
    ELSE LET base == IF input.kind = "resource"
                     THEN [Result(About) EXCEPT
                              !.consent = input.consent,
                              !.artifacts = <<Artifact(Recording, files[Recording])>>]
                     ELSE HandOn(input, input.segs)
         IN  {[Returns([base EXCEPT !.embedding = Embedding(input, files)])
                 EXCEPT !.reads = AudioOf(input)]}

\* Any ratio of lengths, hence any class of fit.
DurationModelling(input) ==
    IF input.kind = "resource" THEN {Raises}
    ELSE {Returns(HandOn(input, [i \in DOMAIN input.segs |->
                                    [input.segs[i] EXCEPT !.fit = fit[i]]])) :
             fit \in [DOMAIN input.segs -> {"compress", "split", "skip"}]}

-----------------------------------------------------------------------------
\* A warning names a segment by its index, which stands for its words.
Naming(what, input, I) == {<<what, Numbers(input.segs[i].text)>> : i \in I}
Skipped(input, I) == Naming("skipped", input, {i \in I : input.segs[i].fit = "skip"})
Spoken(input) == {i \in DOMAIN input.segs : ~Silent(input.segs[i])}
Fitting(input) == {i \in Spoken(input) : input.segs[i].fit # "skip"}

\* Mutant: a segment that failed leaves no warning.
FailureUnsaid(input, failed) == {}
FailureWarnings(input, failed) == Naming("failed", input, failed)

\* Segment by segment, each in its voice: an empty text is passed over, one
\* that does not fit is left without audio and with a warning, and so is one
\* that fails.
EachSegment(input, dir, voices, reads, failed, mute) ==
    LET sounds == [i \in DOMAIN input.segs |->
                      Artifact(File(dir, "seg", i, 0),
                               Speech(input.segs[i].text, voices[i], input.segs[i].speaker))]
    IN  [Writes([HandOn(input, input.segs)
                    EXCEPT !.warnings = @ \cup Skipped(input, Spoken(input))
                                          \cup FailureWarnings(input, failed)],
                Chosen(sounds, Fitting(input) \ (failed \cup mute)), reads)
            EXCEPT !.lost = UNION {Numbers(input.segs[i].text) : i \in mute}]

\* The service, or the engine, may raise on any of the texts.
Failing(input) == SUBSET Fitting(input)

\* Sunbird, Sherpa MMS and OmniVoice drop the segments that failed or were empty.
Dropping(input, dir, voices, reads) ==
    {[EachSegment(input, dir, voices, reads, failed, {})
        EXCEPT !.result.segs = Chosen(input.segs, Spoken(input) \ failed)] :
        failed \in Failing(input)}

WithConsent(input, outcomes) ==
    IF input.kind = "resource" \/ ~HasConsent(input) THEN {Raises} ELSE outcomes

InStock(input) == [i \in DOMAIN input.segs |-> "stock"]

\* It raises when its client has no API key.
SunbirdTTS(input) ==
    WithConsent(input, {out \in {Raises} : input.segs # <<>>}
                       \cup Dropping(input, "lingualdub_sunbird_tts", InStock(input), {}))

SherpaTTS(input) ==
    WithConsent(input, Dropping(input, "lingualdub_sherpa_mms", InStock(input), {}))

\* The voice of the reference audio of the segment; without one, that of the
\* component.
Conditioned(input, voice) ==
    [i \in DOMAIN input.segs |-> IF input.segs[i].reference # NoVoice
                                 THEN input.segs[i].reference ELSE voice]
OmniVoiceTTS(input, voice, reads) ==
    WithConsent(input,
                Dropping(input, "lingualdub_omnivoice_tts", Conditioned(input, voice), reads))

\* MMS keeps all segments, and passes over a text of which its vocabulary has
\* no token.  Without segments the Result is a bare one.
MmsTTS(input) ==
    WithConsent(input,
        IF input.segs = <<>> THEN {Returns(Result(<<>>))}
        ELSE {Raises} \cup
             UNION {{EachSegment(input, "lingualdub_mms_tts", InStock(input), {}, failed, mute) :
                        failed \in SUBSET (Fitting(input) \ mute)} :
                       mute \in SUBSET Fitting(input)})

-----------------------------------------------------------------------------
\* DummyTTSComponent and VoiceConditionedTTSComponent also cut a text that is
\* somewhat too long at its clauses; they make a file of an empty text too.
\* Mutant: every part keeps the text of the whole.
ClausesOfWhole(seg, apart) == IF apart /\ Len(seg.text) > 1
                              THEN [k \in DOMAIN seg.text |-> seg.text] ELSE <<seg.text>>
Clauses(seg, apart) == IF apart /\ Len(seg.text) > 1
                       THEN [k \in DOMAIN seg.text |-> <<seg.text[k]>>] ELSE <<seg.text>>

\* Mutant: the parts of a segment have one file.
PartFileOfSegment(dir, stem, i, k) == File(dir, stem, i, 1)
PartFile(dir, stem, i, k) == File(dir, stem, i, k)

\* Of the texts that are "copied", the audio is somebody's recording.
CutSegments(input, dir, stem, voice, apart, copied) ==
    LET Cut(i) == Clauses(input.segs[i], apart)
        SegmentsOf(i) ==
            IF input.segs[i].fit # "split" THEN <<input.segs[i]>>
            ELSE [k \in DOMAIN Cut(i) |-> [input.segs[i] EXCEPT !.text = Cut(i)[k]]]
        Sound(i, text) == Speech(IF text \in copied THEN <<>> ELSE text, voice,
                                 input.segs[i].speaker)
        SoundsOf(i) ==
            CASE input.segs[i].fit = "compress" ->
                    <<Artifact(File(dir, stem, i, 0), Sound(i, input.segs[i].text))>>
              [] input.segs[i].fit = "split" ->
                    [k \in DOMAIN Cut(i) |->
                        Artifact(PartFile(dir, stem, i, k), Sound(i, Cut(i)[k]))]
              [] OTHER -> <<>>
        All(Op(_)) == FlattenSeq([i \in DOMAIN input.segs |-> Op(i)])
    IN  Writes([HandOn(input, All(SegmentsOf))
                   EXCEPT !.warnings = @ \cup Skipped(input, DOMAIN input.segs)],
               IF input.segs # <<>> THEN All(SoundsOf)
               ELSE <<Artifact(File(dir, "output", 0, 0), Speech(<<>>, voice, FALSE))>>, {})

DummyTTS(input) ==
    WithConsent(input, {CutSegments(input, "lingualdub_tts", "tts_segment", "stock", apart, {}) :
                           apart \in BOOLEAN})

\* speaker_reference, a Resource that the component was constructed with.
Reference(voice, consent) == [voice |-> voice, consent |-> consent]
NoReference == Reference(NoVoice, TRUE)

\* The embedding is the one that it was constructed with; without one, that of
\* the reference; without one, of the Result; without one, of the label of the
\* first speaker.
Embedded(input, ref, given) == IF given # NoVoice THEN given
                               ELSE IF ref # NoReference THEN ref.voice
                               ELSE IF input.embedding # NoVoice THEN input.embedding
                               ELSE "label"

\* The neural model speaks with the voice of the reference or of the first
\* artifact, or with its own; the fallback by the embedding.
Voices(input, files, ref, given) ==
    {Embedded(input, ref, given)}
    \cup (IF ref # NoReference THEN {ref.voice}
          ELSE IF AudioOf(input) = {} THEN {"stock"}
          ELSE {files[f].voice : f \in AudioOf(input)})

\* The fallback copies the recording of the reference if it is about as long
\* as the text is to be: those texts are not in the audio.
Copied(input, ref) ==
    IF ref = NoReference THEN {{}}
    ELSE SUBSET UNION {{input.segs[i].text} \cup {<<input.segs[i].text[k]>> :
                                                     k \in DOMAIN input.segs[i].text} :
                          i \in Spoken(input)}

\* _ensure_consent_for_speaker()
WithReference(ref, outcomes) == IF ref.consent THEN outcomes ELSE {Raises}

\* All segments, spoken in one voice.
InVoice(input, ref, given, voice, apart, copied) ==
    [CutSegments(input, "lingualdub_voice_tts", "voice_tts_segment", voice, apart, copied)
        EXCEPT !.reads = IF ref = NoReference THEN AudioOf(input) ELSE {},
               !.result.embedding = Embedded(input, ref, given),
               !.lost = UNION {Numbers(text) : text \in copied}]

VoiceConditionedTTS(input, files, ref, given) ==
    WithConsent(input, WithReference(ref,
        {InVoice(input, ref, given, voice, apart, copied) :
            voice \in Voices(input, files, ref, given), apart \in BOOLEAN,
            copied \in Copied(input, ref)}))

-----------------------------------------------------------------------------
\* A cross-fade: one after the other, an empty one left out.
Joined(parts) == [parts[1] EXCEPT !.words = FlattenSeq([i \in DOMAIN parts |-> parts[i].words])]

\* AudioBlendingComponent: two audio artifacts or more become one file, put
\* before them.  A file it cannot read (the service may answer with MP3) raises.
AudioBlender(input, files) ==
    LET parts == [i \in DOMAIN input.artifacts |-> files[input.artifacts[i].file]]
        whole == Artifact(File("lingualdub_blender", "blended", Len(parts), 0), Joined(parts))
    IN  IF input.kind = "resource" THEN {Raises}
        ELSE IF Len(parts) < 2 THEN {Returns(input)}
        ELSE {Raises,
              [Writes(input, <<whole>>, {input.artifacts[i].file : i \in DOMAIN parts})
                 EXCEPT !.result.artifacts = <<whole>> \o input.artifacts]}

\* degrade() of a TTS component: a neutral tone, for which no consent is
\* asked; the warnings and the metadata of the input are not in its Result.
ToneInstead(input, dir) ==
    LET base == IF input.kind = "resource" THEN Result(<<>>) ELSE input
    IN  Writes(MarkDegraded([base EXCEPT !.warnings = {}, !.embedding = NoVoice],
                               Said(base.segs)),
               <<Artifact(File(dir, "tts_degraded", 0, 0), Tone)>>, {})

\* degrade() of the blender: what was to be blended, unblended.
Unblended(input) ==
    Returns(MarkDegraded(IF input.kind = "resource" THEN Result(<<>>) ELSE input, {}))

=============================================================================
