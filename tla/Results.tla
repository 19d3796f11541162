------------------------------- MODULE Results -------------------------------
(***************************************************************************)
(* What the speech components hand to one another: Resource, Result and    *)
(* Segment (core/), the consent they carry (utils/consent.py), the files   *)
(* their artifacts name, and what one run() of a component comes to.       *)
(*                                                                         *)
(* Of a segment the model keeps what later components act on: its text,    *)
(* the language it is labelled with, the words of its metadata, the voice  *)
(* in the recording that its metadata names as reference_audio, whether it *)
(* names a speaker, whether its own provenance has a consent_basis, and    *)
(* how its text fits its time (the class of duration_ratio; times are in   *)
(* Dubbing).  A text is a sequence of words; a word is which of the words  *)
(* that were said it stands for, and the language it is in.  A Resource is *)
(* a recording: of the kinds that need a consent_basis.                    *)
(***************************************************************************)
EXTENDS Integers, Sequences, SequencesExt, FiniteSets

CONSTANTS Source,      \* the language that is spoken, the default of all components
          Foreign,     \* the language it is mixed with
          Target       \* the language it is translated into

Word(n, language) == [of |-> n, in |-> language]
Numbers(text) == {text[i].of : i \in DOMAIN text}

NoVoice == "nobody"
Segment(text) == [text |-> text, lang |-> Source, words |-> <<>>, reference |-> NoVoice,
                  speaker |-> FALSE, consent |-> FALSE, fit |-> "compress"]
Silent(seg) == seg.text = <<>>

\* The elements of s at the places I.
Chosen(s, I) == FlattenSeq([i \in DOMAIN s |-> IF i \in I THEN <<s[i]>> ELSE <<>>])

Result(segs) == [kind |-> "result", segs |-> segs, artifacts |-> <<>>, warnings |-> {},
                 degraded |-> FALSE, consent |-> FALSE, embedding |-> NoVoice]
Resource(consent) == [Result(<<>>) EXCEPT !.kind = "resource", !.consent = consent]

Said(segs) == UNION {Numbers(segs[i].text) : i \in DOMAIN segs}

\* What every component constructs that hands on what it was given: a new
\* Result, whose status is COMPLETE.
HandOn(input, segs) == [input EXCEPT !.segs = segs, !.degraded = FALSE]

\* A warning says what happened and to which words.
MarkDegraded(result, unsaid) ==
    [result EXCEPT !.degraded = TRUE, !.warnings = @ \cup {<<"degraded", unsaid>>}]

\* An artifact is a file; "of" is what was written into it for this artifact.
Artifact(file, content) == [file |-> file, of |-> content]
Speech(text, voice, speaker) ==
    [kind |-> "speech", words |-> text, voice |-> voice, speaker |-> speaker]
Tone == [kind |-> "tone", words |-> <<>>, voice |-> NoVoice, speaker |-> FALSE]

\* A file is named by its directory, its stem and up to two indices.
File(dir, stem, i, j) == <<dir, stem, i, j>>
Recording == File("input", "recording", 0, 0)

\* The types of all that
Text == Seq([of : Nat, in : STRING])
AnySegment == [text : Text, lang : STRING, words : Text, reference : STRING, speaker : BOOLEAN,
               consent : BOOLEAN, fit : {"compress", "split", "skip"}]
AnyFile == STRING \X STRING \X Nat \X Nat
AnyContent == [kind : STRING, words : Text, voice : STRING, speaker : BOOLEAN]
AnyArtifact == [file : AnyFile, of : AnyContent]

-----------------------------------------------------------------------------
\* Mutant: a speaker is no sign of a voice.
HasVoiceSignalUnlessNamed(result) == result.artifacts # <<>> \/ result.consent

\* Every artifact of these components is audio.
HasVoiceSignal(result) == \/ result.artifacts # <<>>
                          \/ result.consent
                          \/ \E i \in DOMAIN result.segs :
                                result.segs[i].speaker \/ result.segs[i].consent

\* ensure_consent() does not raise.  (It also takes a consent_basis in the
\* metadata of a Result, which no component writes.)
HasConsent(input) ==
    IF input.kind = "resource" THEN input.consent
    ELSE HasVoiceSignal(input)
            => input.consent \/ \E i \in DOMAIN input.segs : input.segs[i].consent

-----------------------------------------------------------------------------
\* What run() comes to: the Result, the files written, the files read, and
\* the words that somebody else's answer left out.
Returns(result) == [ok |-> TRUE, result |-> result, writes |-> <<>>, reads |-> {}, lost |-> {}]
Raises == [Returns(Result(<<>>)) EXCEPT !.ok = FALSE]

Writes(result, made, reads) ==
    [Returns([result EXCEPT !.artifacts = @ \o made])
        EXCEPT !.writes = made, !.reads = reads]

=============================================================================
