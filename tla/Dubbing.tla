------------------------------- MODULE Dubbing -------------------------------
(***************************************************************************)
(* The time axis of a dubbing pipeline, as the command "dub" assembles it: *)
(* forced aligner, DurationModellingComponent, DialogueTimingComponent, a  *)
(* TTS component, AudioTimeStretchComponent where a pipeline has it,       *)
(* VideoMergerComponent, and the two evaluators of timing.                 *)
(*                                                                         *)
(* A step is run() of one component on the Result of the one before.  A    *)
(* time is a number of ticks of 25 ms.  Of a text the model keeps how long *)
(* it takes to say, the number of its clauses and whether it has the       *)
(* punctuation that separates clauses ("Hello," is one clause with it); of *)
(* an audio file, whose text it says and how long it is.  The TTS is       *)
(* DummyTTSComponent, whose choices (tts/shared.py) the voice conditioned  *)
(* one shares; files are under the 10 seconds at which it cuts them.       *)
(* Failures and degrade() are in PipelineExecutor.                         *)
(***************************************************************************)
EXTENDS WordAlignment, FiniteSets

CONSTANTS Sources,     \* inputs: sequences of segments of a transcript
          Cues,        \* sets of cues of the video
          Speeches     \* what a segment says: words, and frames of the CTC model

\* What Segment.__post_init__() accepts; _estimate_speech_duration() says 0.3
\* seconds at least.
Inputs == {s \in [start : Nat, end : Nat, clauses : Nat \ {0}, pauses : BOOLEAN,
                  estimate : Nat] : s.start <= s.end /\ s.estimate >= 12}

ASSUME DubbingConstants ==
    /\ \A s \in Sources : s \in Seq(Inputs) /\ s # <<>>
    /\ \A c \in Cues : c \subseteq Nat
    /\ \A s \in Speeches : /\ s.words \in Seq(Seq(Letters) \ {<<>>})
                           /\ s.frames \in Seq(Letters \cup {Blank})

VARIABLES stage,       \* the component that ran last
          source,      \* the transcript, to which the dubbing is compared
          speech, cues,
          video,       \* whether the Result carries the video as an artifact
          segs,        \* Result.segments
          artifacts,   \* Result.artifacts
          words,       \* per segment: the time stamps of its words
          matched,     \* per segment: the artifact that was stretched for it
          timely,      \* what the evaluators count as within their tolerance
          inSync

dubbingVars == <<stage, source, speech, cues, video, segs, artifacts, words, matched, timely, inSync>>

\* Thresholds of the components, in ticks
NearZero == 2          \* "source_duration < 0.05"
SnapTolerance == 6     \* snap_tolerance = 0.15
MinAudio == 4          \* max(target_dur, 0.1)
FitTolerance == 2      \* tolerance_sec = 0.05
EndTolerance == 8      \* TimingEvaluator: tolerance_ms = 200
SyncTolerance == 4     \* AVSyncEvaluator: tolerance_ms = 100

Distance(a, b) == IF a < b THEN b - a ELSE a - b
Duration(s) == s.end - s.start

Film == [of |-> 0, part |-> 0, length |-> 0]     \* the video, as an artifact
Nothing == [of |-> -1, part |-> 0, length |-> 0]

\* A segment of the transcript, and what is read of one without metadata
Transcribed(i) ==
    LET s == source[i]
    IN [start |-> s.start, end |-> s.end, of |-> i, clauses |-> s.clauses, pauses |-> s.pauses,
        estimate |-> s.estimate, ratio |-> <<1, 1>>, target |-> Duration(s), unfit |-> FALSE,
        strategy |-> "none", part |-> 1, offset |-> 0]

DubbingInit ==
    /\ stage = "transcribed"
    /\ source \in Sources /\ speech \in Speeches
    /\ cues \in Cues
    /\ video \in BOOLEAN
    /\ segs = [i \in DOMAIN source |-> Transcribed(i)]
    /\ artifacts = IF video THEN <<Film>> ELSE <<>>
    /\ words = <<>> /\ matched = <<>>
    /\ timely = {} /\ inSync = {}

-----------------------------------------------------------------------------
\* The forced aligner, either of the two
Align ==
    /\ stage = "transcribed" /\ stage' = "aligned"
    /\ \/ words' = [i \in DOMAIN segs |-> Distributed(speech.words, segs[i].start, segs[i].end)]
       \/ words' = [i \in DOMAIN segs |->
                       Anchored(speech.words, speech.frames, segs[i].start, segs[i].end)]
    /\ UNCHANGED <<source, speech, cues, video, segs, artifacts, matched, timely, inSync>>

\* Mutant: what is too long keeps its natural length.
NaturalLength(estimate, duration) == estimate

\* The target is the window of the segment, or less when less is enough.
Target(estimate, duration) ==
    IF duration < NearZero \/ estimate <= duration THEN estimate ELSE duration

\* A segment of (nearly) no length has the ratio 99; any other ratio is kept as
\* the pair it is made from.
Modelled(s) ==
    LET d == Duration(s)
    IN [s EXCEPT !.ratio = IF d < NearZero THEN <<99, 1>> ELSE <<s.estimate, d>>,
                 !.target = Target(s.estimate, d), !.unfit = d < NearZero]

\* DurationModellingComponent
Model ==
    /\ stage = "aligned" /\ stage' = "modelled"
    /\ segs' = [i \in DOMAIN segs |-> Modelled(segs[i])]
    /\ UNCHANGED <<source, speech, cues, video, artifacts, words, matched, timely, inSync>>

\* _snap_to_cues(): the nearest cue, of two the earlier, when it is near enough.
Snapped(t) ==
    LET near == {c \in cues : Distance(c, t) <= SnapTolerance}
    IN IF near = {} THEN t
       ELSE CHOOSE c \in near : \A d \in near :
               Distance(c, t) < Distance(d, t) \/ (Distance(c, t) = Distance(d, t) /\ c <= d)

\* Mutant: a segment whose ends meet at one cue stays there.
CrossedOnly(start, end) == start > end

\* "Invalid snap (e.g., both snapped to same cue)"
Reverts(start, end) == start >= end

\* DialogueTimingComponent; the target stays what it was.
Timed(s) ==
    LET from == Snapped(s.start)  to == Snapped(s.end)
    IN IF Reverts(from, to) THEN s ELSE [s EXCEPT !.start = from, !.end = to]

TimeDialogue ==
    /\ stage = "modelled" /\ stage' = "timed"
    /\ segs' = [i \in DOMAIN segs |-> Timed(segs[i])]
    /\ UNCHANGED <<source, speech, cues, video, artifacts, words, matched, timely, inSync>>

-----------------------------------------------------------------------------
AtMost(ratio, percent) == ratio[1] * 100 <= percent * ratio[2]

\* choose_strategy()
Strategy(s) == IF AtMost(s.ratio, 135) THEN "compress"
               ELSE IF AtMost(s.ratio, 175) \/ s.pauses THEN "split"
               ELSE "skip"

\* The boundary behind part k
PartEnd(s, k) == s.start + k * (Duration(s) \div s.clauses)

\* Part k of a dubbed segment
Part(s, k, from, to) ==
    [s EXCEPT !.start = from, !.end = to, !.strategy = Strategy(s), !.part = k]

Unfit(s) == [s EXCEPT !.unfit = TRUE]

\* The segments a segment is dubbed as, by either of the two components
Fitted(s) ==
    CASE Strategy(s) = "compress" ->
           <<Part(s, 1, s.start, s.start + Larger(s.target, MinAudio))>>
      [] Strategy(s) = "split" ->
           [k \in 1..s.clauses |-> Part(s, k, PartEnd(s, k - 1), PartEnd(s, k))]
      [] Strategy(s) = "skip" -> <<Unfit(Part(s, 1, s.start, s.end))>>

\* Mutant: the parts of a segment share one file.
OneFile(s) == IF s.part = 1 THEN <<[of |-> s.of, part |-> 1, length |-> Duration(s)]>> ELSE <<>>

\* The audio file of a dubbed segment; a file of no length gets 0.1 seconds.
FileOf(s) == <<[of |-> s.of, part |-> s.part,
                length |-> IF Duration(s) = 0 THEN MinAudio ELSE Duration(s)]>>

\* run() of a TTS component
Synthesise ==
    /\ stage \in {"modelled", "timed"} /\ stage' = "dubbed"
    /\ segs' = FlattenSeq([i \in DOMAIN segs |-> Fitted(segs[i])])
    /\ artifacts' = artifacts \o FlattenSeq([i \in DOMAIN segs' |->
                        IF segs'[i].strategy = "skip" THEN <<>> ELSE FileOf(segs'[i])])
    /\ UNCHANGED <<source, speech, cues, video, words, matched, timely, inSync>>

-----------------------------------------------------------------------------
IsAudio(a) == a \notin {Film, Nothing}

\* _stretch_audio_file(): towards the target, by 1.6 or 0.65 at most.
Stretched(length, target) ==
    CASE Distance(length, target) <= FitTolerance -> length
      [] length * 10 > target * 16 -> (length * 10) \div 16
      [] length * 100 < target * 65 -> (length * 100) \div 65
      [] OTHER -> target

\* "Match artifacts to segments by index"
Matching(i) == IF i <= Len(artifacts) /\ IsAudio(artifacts[i]) THEN artifacts[i] ELSE Nothing

Fit(a, target) == [a EXCEPT !.length = Stretched(@, target)]

\* AudioTimeStretchComponent; an artifact beside a segment is lost when it is
\* no audio file.
Stretch ==
    /\ stage = "dubbed" /\ stage' = "stretched"
    /\ artifacts # <<>> /\ segs # <<>>
    /\ matched' = [i \in DOMAIN segs |-> Matching(i)]
    /\ LET fitted == FlattenSeq([i \in DOMAIN segs |->
                         IF Matching(i) = Nothing THEN <<>>
                         ELSE <<Fit(Matching(i), segs[i].target)>>])
           all == fitted \o SubSeq(artifacts, Len(segs) + 1, Len(artifacts))
       IN artifacts' = IF all = <<>> THEN artifacts ELSE all
    /\ UNCHANGED <<source, speech, cues, video, segs, words, timely, inSync>>

\* VideoMergerComponent: "av_offset_ms hint for evaluator"
Merge ==
    /\ stage \in {"dubbed", "stretched"} /\ stage' = "merged"
    /\ segs' = [i \in DOMAIN segs |-> [segs[i] EXCEPT !.offset = Duration(segs[i]) - segs[i].target]]
    /\ artifacts' = Append(artifacts, Film)
    /\ UNCHANGED <<source, speech, cues, video, words, matched, timely, inSync>>

\* Mutant: an unfit segment is judged by its times as any other.
Lenient(group) == FALSE

\* "Skipped / unfit segments (treated as out-of-tolerance)"
Penalised(group) == \E s \in group : s.unfit

Group(i) == {s \in Range(segs) : s.of = i}
Judged(i) == Group(i) # {} /\ ~Penalised(Group(i))
LastEnd(i) == CHOOSE t \in {s.end : s \in Group(i)} : \A s \in Group(i) : s.end <= t

\* TimingEvaluator.evaluate_pair(): "the end of the last sub-segment"
InTime(i) == Judged(i) /\ Distance(LastEnd(i), source[i].end) <= EndTolerance

\* AVSyncEvaluator.evaluate_pair(): "Use max offset in group"
InSync(i) == Judged(i) /\ \A s \in Group(i) : Distance(s.offset, 0) <= SyncTolerance

\* The dubbed segments are compared with the segments of the source.
Evaluate ==
    /\ stage = "merged" /\ stage' = "scored"
    /\ timely' = {i \in DOMAIN source : InTime(i)}
    /\ inSync' = {i \in DOMAIN source : InSync(i)}
    /\ UNCHANGED <<source, speech, cues, video, segs, artifacts, words, matched>>

DubbingNext == Align \/ Model \/ TimeDialogue \/ Synthesise \/ Stretch \/ Merge \/ Evaluate

DubbingSpec == DubbingInit /\ [][DubbingNext]_dubbingVars

-----------------------------------------------------------------------------
\* The words of a segment follow one another without a gap and without
\* overlapping, inside the segment, and the last one ends with it, whichever
\* aligner placed them and whatever frames the model emits (forced.py, neural.py).
WordsTile ==
    stage = "aligned" =>
        \A i \in DOMAIN words : words[i] # <<>> =>
            /\ words[i][1].start >= segs[i].start
            /\ Last(words[i]).end = segs[i].end
            /\ \A k \in DOMAIN words[i] : words[i][k].start <= words[i][k].end
            /\ \A k \in DOMAIN words[i] \ {1} : words[i][k].start = words[i][k - 1].end

\* Snapping leaves no segment without length and keeps the order of the segments:
\* two neighbours that did not overlap overlap only when the snap of one of them
\* was taken back, and then by less than the tolerance.
TimingOrderly ==
    stage = "timed" =>
        /\ \A i \in DOMAIN segs : Duration(source[i]) > 0 => Duration(segs[i]) > 0
        /\ \A i \in 1..Len(segs) - 1 :
              LET TakenBack(k) == /\ segs[k].start = source[k].start /\ segs[k].end = source[k].end
                                  /\ Snapped(source[k].start) >= Snapped(source[k].end)
              IN source[i].end <= source[i+1].start =>
                    \/ segs[i].end <= segs[i+1].start
                    \/ /\ TakenBack(i) \/ TakenBack(i+1)
                       /\ segs[i].end - segs[i+1].start <= SnapTolerance

IsDubbed == stage \in {"dubbed", "stretched", "merged", "scored"}

\* No dubbed segment ends later after its source than the evaluator of timing
\* tolerates (200 ms), whatever was snapped (150 ms), fitted, and lengthened to
\* the shortest file (50 ms): three thresholds of three components.
NeverLate ==
    IsDubbed => \A i \in DOMAIN segs : segs[i].end <= source[segs[i].of].end + EndTolerance

\* Files are matched to segments by index: as long as no video came with the input
\* and no earlier segment was skipped, the file that is stretched for a segment
\* is the one that says its text.
StretchOwn ==
    stage = "stretched" =>
        \A i \in DOMAIN segs :
            (~video /\ \A k \in 1..i : segs[k].strategy # "skip") =>
                matched[i].of = segs[i].of /\ matched[i].part = segs[i].part

\* No segment counts as in time or in sync for which nothing is heard.
NoCreditForSilence ==
    stage = "scored" =>
        \A i \in timely \cup inSync : \E a \in Range(artifacts) : a.of = i
=============================================================================
