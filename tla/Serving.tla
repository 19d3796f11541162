------------------------------- MODULE Serving -------------------------------
(***************************************************************************)
(* Processes of one machine at work: pipelines that run the components of  *)
(* Recognition and Synthesis stage after stage (pipeline/executor.py), and *)
(* servers that answer requests for speech and for a clone of a voice      *)
(* (api/, voices/).  They share the temporary directory, where all of them *)
(* name their files by the same rules, and the voice packs on disk.        *)
(*                                                                         *)
(* A run() of a component is one step, and so is the writing of a file     *)
(* other than a pack: between two files of one run() nobody else is seen.  *)
(* What the others write at such a moment they may write before it.  An    *)
(* HTTPServer serves one request after the other.                          *)
(***************************************************************************)
EXTENDS Synthesis

CONSTANTS Procs,
          Limited,       \* the processes that are HTTP servers; an MCP server has no limit
          Plans,         \* bound: the sequences of jobs that the processes may be given
          Words0,         \* the words of the recording
          Owner,         \* whose voice the recording and the pack on disk at first are
          Packs0, Presets,       \* the voice packs on disk at first, and those of the gallery
          Lender,        \* whose recording, or embedding, a component is constructed with
          MaxRequests, Window,   \* of the rate limiter
          MaxTime        \* bound: the clock, in ticks

VARIABLES files,         \* what is in each file of the temporary directory
          packs,         \* what is in the pack of each voice
          index,         \* VoiceStore._index of each process
          task,          \* what each process is doing
          disturbed,     \* files of its task that others have written since, and what came of them
          todo,          \* the jobs it is still to be given
          history,       \* RateLimiter._history, of one client
          admitted,      \* when it was let in, all told
          now

vars == <<files, packs, index, task, disturbed, todo, history, admitted, now>>

Recognizers == {"whisper", "sunbird_asr", "sunbird_asr_cloud", "faster_whisper",
                "runyankole_asr", "dummy_asr"}

\* The directory into which a TTS component writes, degrade() as well as run().
ToneDir == [sunbird_tts |-> "lingualdub_sunbird_tts", sherpa_mms_tts |-> "lingualdub_sherpa_mms",
            omnivoice_tts |-> "lingualdub_omnivoice_tts", mms_tts |-> "lingualdub_mms_tts",
            omnivoice_reference |-> "lingualdub_omnivoice_tts",
            dummy_tts |-> "lingualdub_tts", voice_conditioned_tts |-> "lingualdub_voice_tts",
            voice_cloning |-> "lingualdub_voice_tts",
            voice_cloning_unasked |-> "lingualdub_voice_tts",
            voice_embedding |-> "lingualdub_voice_tts"]
Speaking == DOMAIN ToneDir

Stages == Recognizers \cup Speaking
          \cup {"dummy_lid", "dummy_lid_split", "heuristic_lid", "neural_lid",
                "sunbird_translation", "hf_translation", "quantized_nllb", "dummy_translation",
                "duration_modelling", "speaker_embedding", "audio_blending"}

\* A pack is whose voice it has; VoicePack takes none without a consent_basis.
\* A torn one ends anywhere; a partial one is an archive that lacks members.
NoPack == "none"
Torn == "torn"
Partial == "partial"

Pipeline(input, stages) == [kind |-> "pipeline", input |-> input, stages |-> stages]
Speak(engine, voice, text) == [kind |-> "speech", engine |-> engine, voice |-> voice, text |-> text]
Translation(text) == [kind |-> "translation", text |-> text]
Listing == [kind |-> "listing"]
Clone(voice, owner) == [kind |-> "clone", voice |-> voice, owner |-> owner]

\* What process p can be asked for.  A pipeline starts from a recording or from a
\* transcript, which may come with the recording; an MCP server clones no voice.
IsInput(r) ==
    \/ r \in {Resource(consent) : consent \in BOOLEAN}
    \/ /\ r = [Result(r.segs) EXCEPT !.artifacts = r.artifacts, !.consent = r.consent]
       /\ r.segs \in Seq(AnySegment) /\ r.consent \in BOOLEAN
       /\ r.artifacts \in {<<>>, <<Artifact(Recording, Speech(Words0, Owner, FALSE))>>}

CanAsk(p, job) ==
    \/ /\ job.kind = "pipeline" /\ job = Pipeline(job.input, job.stages)
       /\ IsInput(job.input) /\ job.stages \in Seq(Stages)
    \/ /\ job.kind = "speech" /\ job = Speak(job.engine, job.voice, job.text)
       /\ job.engine \in Speaking /\ job.voice \in STRING /\ job.text \in Text
    \/ job.kind = "translation" /\ job = Translation(job.text) /\ job.text \in Text
    \/ job = Listing
    \/ /\ p \in Limited /\ job.kind = "clone" /\ job = Clone(job.voice, job.owner)
       /\ job.voice \in DOMAIN Packs0 /\ job.owner \in STRING \ {NoPack, Torn, Partial}

ASSUME ServersAssumption ==
    Limited \subseteq Procs /\ MaxRequests \in Int /\ Window \in Nat

\* The names of people are no names that a component gives a voice.
ASSUME VoicesAssumption ==
    /\ Words0 \in Text
    /\ Packs0 \in [DOMAIN Packs0 -> STRING] /\ DOMAIN Packs0 \subseteq STRING
    /\ Presets \subseteq DOMAIN Packs0
    /\ {Owner, Lender} \subseteq STRING \ {NoVoice, "stock", "text", "label"} /\ Owner # Lender
    /\ {Source, Foreign, Target} \subseteq STRING

ASSUME PlansAssumption ==
    \A plan \in Plans :
        /\ plan \in [Procs -> Seq(UNION {Range(plan[p]) : p \in Procs})]
        /\ \A p \in Procs : \A job \in Range(plan[p]) : CanAsk(p, job)

\* A task: its job, what it does next, the Result it has, the stages to come,
\* the pack it was given, the voices it lists, the words it heard and those
\* that an answer left out.
Task(job, at) ==
    [job |-> job, at |-> at, current |-> Result(<<>>), stages |-> <<>>, pack |-> NoPack,
     reference |-> {}, listed |-> {}, heard |-> {}, lost |-> {}]
Idle == Task(Clone("", ""), "idle")

Preset(voice) == IF voice \in Presets THEN "preset" ELSE NoPack
ReferenceOf(voice) == File("lingualdub_voices", voice, 0, 0)
Sample(owner) == Speech(<<>>, owner, FALSE)

\* VoiceStore.refresh(): a pack that cannot be read is passed over.
\* Mutant: it is taken for a pack.
ReadableAnyway(pack) == pack # NoPack
Readable(pack) == pack \notin {NoPack, Torn, Partial}
Refreshed(onDisk) == {v \in DOMAIN onDisk : Readable(onDisk[v])}

Init == /\ packs = Packs0
        /\ index = [p \in Procs |-> Refreshed(Packs0)]
        /\ \E left \in SUBSET {v \in DOMAIN Packs0 : Packs0[v] = Owner} :
              files = [f \in {Recording} \cup {ReferenceOf(v) : v \in left} |->
                          IF f = Recording THEN Speech(Words0, Owner, FALSE) ELSE Sample(Owner)]
        /\ task = [p \in Procs |-> Idle]
        /\ disturbed = [p \in Procs |-> {}]
        /\ todo \in Plans
        /\ history = [p \in Limited |-> <<>>]
        /\ admitted = [p \in Limited |-> <<>>]
        /\ now = 0

-----------------------------------------------------------------------------
\* Process p writes the artifacts that are "made", after reading files.
Written(p, made, reads) ==
    LET new == {made[i].file : i \in DOMAIN made}
        Latest(f) == made[CHOOSE i \in DOMAIN made :
                             made[i].file = f /\ \A j \in i + 1..Len(made) : made[j].file # f].of
    IN  /\ files' = [f \in DOMAIN files \cup new |-> IF f \in new THEN Latest(f) ELSE files[f]]
        /\ disturbed' = [q \in Procs |->
                            IF q # p THEN disturbed[q] \cup new
                            ELSE IF reads \cap disturbed[p] = {} THEN disturbed[p] \ new
                            ELSE disturbed[p] \cup new]

Become(p, new) == task' = [task EXCEPT ![p] = new]
End(p) == Become(p, Idle)

\* RateLimiter.is_allowed(): times before the window leave the queue.
Cutoff(time) == time < now - Window
Pruned(q) == IF \E i \in DOMAIN q : ~Cutoff(q[i])
             THEN SubSeq(q, CHOOSE i \in DOMAIN q : /\ ~Cutoff(q[i])
                                                    /\ \A j \in 1..i - 1 : Cutoff(q[j]), Len(q))
             ELSE <<>>

\* Mutant: one more than the maximum.
AllowedOneMore(q) == MaxRequests <= 0 \/ Len(q) <= MaxRequests
Allowed(q) == MaxRequests <= 0 \/ Len(q) < MaxRequests

\* A request to a server is counted, whether or not it has the token.
Admitted(p) ==
    IF p \notin Limited THEN UNCHANGED <<history, admitted>>
    ELSE /\ Allowed(Pruned(history[p]))
         /\ history' = [history EXCEPT ![p] = IF MaxRequests <= 0 THEN @
                                               ELSE Append(Pruned(@), now)]
         /\ admitted' = [admitted EXCEPT ![p] = Append(@, now)]

FirstStep(job) == CASE job.kind = "pipeline" -> "stage"
                    [] job.kind = "speech" -> "resolve"
                    [] job.kind = "clone" -> "save"
                    [] job.kind = "translation" -> "translate"
                    [] job.kind = "listing" -> "list"

Begin(p) ==
    LET job == Head(todo[p]) IN
    /\ task[p] = Idle /\ todo[p] # <<>>
    /\ Admitted(p)
    /\ Become(p, IF job.kind # "pipeline" THEN Task(job, FirstStep(job))
                 ELSE [Task(job, "stage") EXCEPT !.current = job.input, !.stages = job.stages,
                                                 !.heard = Said(job.input.segs)])
    /\ todo' = [todo EXCEPT ![p] = Tail(@)]
    /\ disturbed' = [disturbed EXCEPT ![p] = {}]
    /\ UNCHANGED <<files, packs, index, now>>

\* 401, after the limiter has counted the request.
Unauthorized(p) == /\ p \in Limited /\ task[p] = Idle /\ todo[p] # <<>>
                   /\ Admitted(p)
                   /\ todo' = [todo EXCEPT ![p] = Tail(@)]
                   /\ UNCHANGED <<files, packs, index, task, disturbed, now>>

\* 429: what has left the queue is gone, nothing is put into it.
TooMany(p) == /\ p \in Limited /\ task[p] = Idle /\ todo[p] # <<>>
              /\ ~Allowed(Pruned(history[p]))
              /\ history' = [history EXCEPT ![p] = Pruned(@)]
              /\ todo' = [todo EXCEPT ![p] = Tail(@)]
              /\ UNCHANGED <<files, packs, index, task, disturbed, admitted, now>>

Tick == /\ now < MaxTime
        /\ \A p \in Procs : task[p] = Idle         \* bound
        /\ now' = now + 1
        /\ UNCHANGED <<files, packs, index, task, disturbed, todo, history, admitted>>

-----------------------------------------------------------------------------
\* Pipelines.
Run(stage, input) ==
    CASE stage = "whisper" -> Whisper(input, files)
      [] stage = "sunbird_asr" -> SunbirdLocal(input, files)
      [] stage = "sunbird_asr_cloud" -> SunbirdCloud(input, files)
      [] stage = "faster_whisper" -> FasterWhisper(input, files)
      [] stage = "runyankole_asr" -> Runyankole(input, files)
      [] stage = "dummy_asr" -> DummyASR(input)
      [] stage = "dummy_lid" -> DummyLID(input, FALSE)
      [] stage = "dummy_lid_split" -> DummyLID(input, TRUE)
      [] stage = "heuristic_lid" -> HeuristicLID(input)
      [] stage = "neural_lid" -> NeuralLID(input)
      [] stage = "sunbird_translation" -> SunbirdCloudMT(input)
      [] stage = "hf_translation" -> HuggingFaceMT(input)
      [] stage = "quantized_nllb" -> QuantizedNLLB(input)
      [] stage = "dummy_translation" -> DummyMT(input)
      [] stage = "duration_modelling" -> DurationModelling(input)
      [] stage = "speaker_embedding" -> SpeakerEmbedding(input, files)
      [] stage = "sunbird_tts" -> SunbirdTTS(input)
      [] stage = "sherpa_mms_tts" -> SherpaTTS(input)
      [] stage = "omnivoice_tts" -> OmniVoiceTTS(input, "stock", {})
      [] stage = "omnivoice_reference" -> OmniVoiceTTS(input, Lender, {})
      [] stage = "mms_tts" -> MmsTTS(input)
      [] stage = "dummy_tts" -> DummyTTS(input)
      [] stage = "voice_conditioned_tts" ->
            VoiceConditionedTTS(input, files, NoReference, NoVoice)
      [] stage = "voice_cloning" ->
            VoiceConditionedTTS(input, files, Reference(Lender, TRUE), NoVoice)
      [] stage = "voice_cloning_unasked" ->
            VoiceConditionedTTS(input, files, Reference(Lender, FALSE), NoVoice)
      [] stage = "voice_embedding" -> VoiceConditionedTTS(input, files, NoReference, Lender)
      [] stage = "audio_blending" -> AudioBlender(input, files)

\* What the executor makes of the Result of a stage.
Merged(job, current, result) ==
    [result EXCEPT !.consent = @ \/ job.input.consent,
                   !.warnings = @ \cup current.warnings,
                   !.degraded = @ \/ current.degraded]

\* on_failure of speech synthesis and of the blender is DEGRADE.
Degraded(stage, input) == IF stage \in Speaking THEN ToneInstead(input, ToneDir[stage])
                          ELSE Unblended(input)

Advance(p, out) ==
    LET t == task[p]
        result == Merged(t.job, t.current, out.result)
    IN  /\ Written(p, out.writes, out.reads)
        /\ Become(p, [t EXCEPT !.current = result, !.stages = Tail(@),
                               !.heard = IF Head(t.stages) \in Recognizers
                                         THEN Said(result.segs) ELSE @,
                               !.lost = @ \cup out.lost])

StageReturns(p) ==
    /\ task[p].at = "stage" /\ task[p].stages # <<>>
    /\ \E out \in Run(Head(task[p].stages), task[p].current) : out.ok /\ Advance(p, out)
    /\ UNCHANGED <<packs, index, todo, history, admitted, now>>

\* A recognizer, a translator or the speaker embedding ends the pipeline with
\* an error; the others go on with degrade().  Language identification and
\* duration modelling do not fail on a Result.
StageRaises(p) ==
    /\ task[p].at = "stage" /\ task[p].stages # <<>>
    /\ Raises \in Run(Head(task[p].stages), task[p].current)
    /\ LET stage == Head(task[p].stages)
           out == Degraded(stage, task[p].current)
       IN  IF stage \in Speaking \cup {"audio_blending"}
           THEN Advance(p, [out EXCEPT !.result = MarkDegraded(@, {})])
           ELSE End(p) /\ UNCHANGED <<files, disturbed>>
    /\ UNCHANGED <<packs, index, todo, history, admitted, now>>

PipelineEnds(p) == /\ task[p].at = "stage" /\ task[p].stages = <<>>
                   /\ End(p)
                   /\ UNCHANGED <<files, packs, index, disturbed, todo, history, admitted, now>>

-----------------------------------------------------------------------------
\* POST /v1/audio/speech, and the tool of the MCP server.
Request(t) == [Result(<<Segment(t.job.text)>>) EXCEPT !.consent = TRUE]

\* A pack on disk hides a preset, even one that cannot be read: 500.
Resolve(p) ==
    LET voice == task[p].job.voice
    IN  /\ task[p].at = "resolve"
        /\ IF packs[voice] \in {Torn, Partial} THEN End(p)
           ELSE LET pack == IF packs[voice] # NoPack THEN packs[voice] ELSE Preset(voice)
                IN  Become(p, [task[p] EXCEPT !.pack = pack,
                                  !.at = IF task[p].job.engine = "omnivoice_tts" /\ pack # NoPack
                                         THEN "extract" ELSE "synthesize"])
        /\ UNCHANGED <<files, packs, index, disturbed, todo, history, admitted, now>>

\* extract_reference_audio(): one file for a voice, whoever asks for it.
\* Mutant: a file that is there already is not written again.
ExtractOnce(p) ==
    LET file == ReferenceOf(task[p].job.voice)
    IN  /\ task[p].at = "extract"
        /\ Written(p, IF file \in DOMAIN files THEN <<>>
                      ELSE <<Artifact(file, Sample(task[p].pack))>>, {})
        /\ Become(p, [task[p] EXCEPT !.at = "synthesize", !.reference = {file}])
        /\ UNCHANGED <<packs, index, todo, history, admitted, now>>

Extract(p) ==
    LET file == ReferenceOf(task[p].job.voice)
    IN  /\ task[p].at = "extract"
        /\ Written(p, <<Artifact(file, Sample(task[p].pack))>>, {})
        /\ Become(p, [task[p] EXCEPT !.at = "synthesize", !.reference = {file}])
        /\ UNCHANGED <<packs, index, todo, history, admitted, now>>

\* run() without the executor: what it raises is the answer, 500.  Without an
\* artifact the answer is a tone.
Synthesize(p) ==
    LET t == task[p]
        voice == IF t.reference = {} THEN "stock"
                 ELSE files[CHOOSE f \in t.reference : TRUE].voice
        Answer(out) == /\ Written(p, out.writes, out.reads)
                       /\ Become(p, [t EXCEPT !.at = "answer", !.current = out.result])
    IN  /\ t.at = "synthesize"
        /\ \E out \in IF t.job.engine = "omnivoice_tts"
                      THEN OmniVoiceTTS(Request(t), voice, t.reference)
                      ELSE Run(t.job.engine, Request(t)) :
              IF ~out.ok THEN End(p) /\ UNCHANGED <<files, disturbed>>
              ELSE IF out.result.artifacts # <<>> THEN Answer(out)
              ELSE Answer(ToneInstead(Result(<<>>), "lingualdub_tts"))
        /\ UNCHANGED <<packs, index, todo, history, admitted, now>>

\* The bytes of the first artifact are sent, or the text, or the list.
Sent(p) == /\ task[p].at = "answer"
           /\ End(p)
           /\ UNCHANGED <<files, packs, index, disturbed, todo, history, admitted, now>>

\* VoiceStore.save(): ZipFile(dest, "w") empties the file, close() completes it.
Truncate(p) == /\ task[p].at = "save"
               /\ packs' = [packs EXCEPT ![task[p].job.voice] = Torn]
               /\ Become(p, [task[p] EXCEPT !.at = "complete"])
               /\ UNCHANGED <<files, index, disturbed, todo, history, admitted, now>>

Complete(p) == /\ task[p].at = "complete"
               /\ packs' = [packs EXCEPT ![task[p].job.voice] = task[p].job.owner]
               /\ index' = [index EXCEPT ![p] = @ \cup {task[p].job.voice}]
               /\ End(p)
               /\ UNCHANGED <<files, disturbed, todo, history, admitted, now>>

\* What is to be written cannot be (a full disk, audio_bytes that are no bytes):
\* 500, before the file is opened or when some members are in it.
SaveRaises(p) ==
    /\ task[p].at \in {"save", "complete"}
    /\ packs' = [packs EXCEPT ![task[p].job.voice] = IF task[p].at = "save" THEN @ ELSE Partial]
    /\ End(p)
    /\ UNCHANGED <<files, index, disturbed, todo, history, admitted, now>>

\* VoiceStore.list_voices(), which the MCP server does not ask.
Stored(p) == IF p \in Limited THEN index[p] ELSE {}

\* GET /v1/voices: the presets, and what the index knew when it was last
\* brought up to date.
List(p) == /\ task[p].at = "list"
           /\ Become(p, [task[p] EXCEPT !.at = "answer",
                             !.listed = Presets \cup Stored(p)])
           /\ UNCHANGED <<files, packs, index, disturbed, todo, history, admitted, now>>

\* POST /v1/translate: the service, then the quantized model unless its answer
\* is empty, then the lexicon, each when the one before it has failed.
Translations(text) ==
    ServiceAnswers(text)
    \cup {out.result.segs[1].text :
             out \in {o \in QuantizedNLLB(Result(<<Segment(text)>>)) :
                         o.ok /\ ~Silent(o.result.segs[1])}}
    \cup LexiconAnswers(text)

\* The tool of the MCP server has DummyTranslationComponent answer.
Translate(p) ==
    LET text == task[p].job.text
    IN  /\ task[p].at = "translate"
        /\ \E answer \in IF p \in Limited THEN Translations(text) ELSE {Translated(text)} :
              Become(p, [task[p] EXCEPT !.at = "answer", !.current = Result(<<Segment(answer)>>)])
        /\ UNCHANGED <<files, packs, index, disturbed, todo, history, admitted, now>>

\* The process dies, and is started again: its files and half a pack are left.
\* (A pipeline leaves as much behind when it ends.)
Crash(p) == /\ task[p] # Idle /\ task[p].job.kind # "pipeline"
            /\ End(p)
            /\ index' = [index EXCEPT ![p] = Refreshed(packs)]
            /\ history' = [q \in Limited |-> IF q = p THEN <<>> ELSE history[q]]
            /\ admitted' = [q \in Limited |-> IF q = p THEN <<>> ELSE admitted[q]]
            /\ UNCHANGED <<files, packs, disturbed, todo, now>>

Next == \/ Tick
        \/ \E p \in Procs : \/ Begin(p)
                            \/ Unauthorized(p) \/ TooMany(p)
                            \/ StageReturns(p) \/ StageRaises(p) \/ PipelineEnds(p)
                            \/ Resolve(p) \/ Extract(p) \/ Synthesize(p) \/ Sent(p)
                            \/ Truncate(p) \/ Complete(p) \/ SaveRaises(p)
                            \/ List(p) \/ Translate(p)
                            \/ Crash(p)

Spec == Init /\ [][Next]_vars

-----------------------------------------------------------------------------
IsDub(a) == a.file # Recording /\ a.file[1] # "lingualdub_blender"

\* A pipeline with one stage of speech synthesis at most, and one with several
\* that write into one directory.
SpeaksOnce(stages) ==
    \A i, j \in DOMAIN stages : stages[i] \in Speaking /\ stages[j] \in Speaking => i = j
Sharing(job, dir) ==
    /\ job.kind = "pipeline"
    /\ \E i, j \in DOMAIN job.stages : /\ i # j /\ {job.stages[i], job.stages[j]} \subseteq Speaking
                                       /\ ToneDir[job.stages[i]] = dir
                                       /\ ToneDir[job.stages[j]] = dir

\* Whatever file a task names holds what was written for that task: no part
\* of a segment and no later segment takes the file of another, and no stage
\* that of another, unless both write into the same directory, and then the
\* file holds what one of the two made.  Another process may write over it
\* (the names of the components' output files).
OwnAudio ==
    \A p \in Procs :
        LET artifacts == Range(task[p].current.artifacts)
        IN  \A a \in artifacts :
                \/ a.file \in disturbed[p] \/ files[a.file] = a.of
                \/ /\ Sharing(task[p].job, a.file[1])
                   /\ \E b \in artifacts : b.file = a.file /\ files[a.file] = b.of

\* The stages that hand on the audio that is there already.
Keeping == {"dummy_lid", "dummy_lid_split", "heuristic_lid", "neural_lid",
            "duration_modelling", "speaker_embedding", "audio_blending"}

\* A pipeline that hears before it speaks: nothing is recognized or translated
\* after speech synthesis.
SpeaksLast(stages) == \E i \in DOMAIN stages : /\ stages[i] \in Speaking
                                              /\ \A j \in i + 1..Len(stages) : stages[j] \in Keeping

\* The metadata of a segment, if it has words, has those of its text.
Faithful(segs) == \A i \in DOMAIN segs : \/ segs[i].words = <<>>
                                         \/ Numbers(segs[i].text) \subseteq Numbers(segs[i].words)

\* When a pipeline ends that hears before it speaks, and speaks once, every word
\* that was heard is in the audio, or in a segment that a warning names, or was
\* left out by the answer of a service, by the vocabulary of MMS or for a copy of
\* the reference (lost): no stage drops a segment silently (the loops over
\* segments of run()).  A transcript that it starts from agrees with its metadata.
HeardIsSpoken ==
    \A p \in Procs :
        LET t == task[p]
        IN  t.at = "stage" /\ t.stages = <<>>
              /\ SpeaksLast(t.job.stages) /\ SpeaksOnce(t.job.stages)
              /\ Faithful(t.job.input.segs) =>
                t.heard \subseteq
                    t.lost \cup (UNION {w[2] : w \in t.current.warnings})
                           \cup (UNION {Numbers(a.of.words) :
                                          a \in {b \in Range(t.current.artifacts) : IsDub(b)}})

\* Words that were said in the order of their numbers, each once; what the
\* offline recognizers have in place of words (Canned) was said by nobody.
Earlier(M, N) == \A m \in M \ {0}, n \in N \ {0} : m < n
InTurn(text) == \A i, j \in DOMAIN text : i < j => Earlier({text[i].of}, {text[j].of})

Wording(seg) == Numbers(seg.text) \cup Numbers(seg.words)
Ordered(segs) ==
    /\ \A i \in DOMAIN segs : InTurn(segs[i].text) /\ InTurn(segs[i].words)
    /\ \A i, j \in DOMAIN segs : i < j => Earlier(Wording(segs[i]), Wording(segs[j]))

\* The components that cut a text into spans of one language.
Splitting == {"dummy_lid_split", "heuristic_lid", "neural_lid"}

\* What a job starts from says its words in turn, and is spoken once and split
\* once at most: the parts of a segment have the words of the whole, and are cut
\* by these again.
Straight(job) ==
    /\ job.kind = "pipeline" =>
          /\ InTurn(Words0) /\ Ordered(job.input.segs) /\ SpeaksOnce(job.stages)
          /\ \A i, j \in DOMAIN job.stages :
                job.stages[i] \in Splitting /\ job.stages[j] \in Splitting => i = j
    /\ job.kind \in {"speech", "translation"} => InTurn(job.text)

InDubs(artifacts) == [i \in DOMAIN artifacts |->
                         IF IsDub(artifacts[i]) THEN artifacts[i].of.words ELSE <<>>]
Uttered(t) == FlattenSeq(IF t.job.kind = "translation" THEN Texts(t.current)
                         ELSE InDubs(t.current.artifacts))

\* The audio or the translation that a task makes says the words in the order
\* in which they were said, and none twice, however texts are split into
\* spans, clauses and chunks or looked up (the splitting of language
\* identification and of speech synthesis, the lexicon).
SpokenOnce == \A p \in Procs : Straight(task[p].job) => InTurn(Uttered(task[p]))

\* Whose voices a pipeline is handed with nothing that says whether they consent:
\* recordings that the metadata of a segment name, and the path, or the embedding,
\* that a component is constructed with.
Unasked(job) ==
    {job.input.segs[i].reference : i \in DOMAIN job.input.segs}
    \cup {v \in {Lender} : Range(job.stages) \cap {"omnivoice_reference", "voice_embedding"} # {}}

\* The consents on record that audio needs, except to the voices in "excused".
Consented(job, audio, excused) ==
    LET recorded == \/ job.input.consent
                    \/ \E i \in DOMAIN job.input.segs : job.input.segs[i].consent
    IN  /\ audio.speaker => recorded
        /\ audio.voice = Owner => recorded \/ Owner \in excused
        /\ audio.voice = Lender => "voice_cloning" \in Range(job.stages) \/ Lender \in excused

\* Speech that is made in the voice of a person, or of a segment that names
\* its speaker, is made of an input with a recorded consent, and speech in the
\* voice of a reference with that of the reference, however many stages are in
\* between (ensure_consent(), _ensure_consent_for_speaker(),
\* propagated_provenance(), and the merging of the executor).  It may also have
\* a voice that the pipeline was handed unasked.  A second stage of synthesis
\* speaks like a file of the first, which another process may have written
\* over: pipelines that have one are left out.
NoVoiceWithoutConsent ==
    \A p \in Procs : task[p].job.kind = "pipeline" /\ SpeaksOnce(task[p].job.stages) =>
        \A a \in Range(task[p].current.artifacts) :
            IsDub(a) => Consented(task[p].job, a.of, Unasked(task[p].job))

\* utils/consent.py: "Prevents silent processing of voice data without consent
\* across all voice-related components."
EveryVoiceConsents ==
    \A p \in Procs : task[p].job.kind = "pipeline" =>
        \A a \in Range(task[p].current.artifacts) :
            IsDub(a) => Consented(task[p].job, a.of, {})

\* The voice of an answer is that of the pack whose consent was looked up for
\* it, and not of a pack that had this name earlier, except when another
\* process extracts a pack of that name meanwhile (routes.py, extract_reference_audio()).
VoiceOfConsent ==
    \A p \in Procs : task[p].at = "answer" /\ task[p].reference # {} =>
        \A a \in Range(task[p].current.artifacts) :
            a.file \in disturbed[p] \/ files[a.file] = Tone
                \/ files[a.file].voice = task[p].pack

\* A voice that is listed as stored has a pack that can be read, if no other
\* server writes packs, unless a save() raised while it was writing it: crashes
\* in the middle of save() are found out (VoiceStore.refresh(), save()).
ListedIsReadable ==
    \A p \in Limited : Limited = {p} /\ task[p].at = "answer" =>
        \A v \in task[p].listed \ Presets : packs[v] \notin {NoPack, Torn}

\* handle_list_voices(): "List all available African voices (stored and preset)."
ListedIsAvailable ==
    \A p \in Limited : Limited = {p} /\ task[p].at = "answer" =>
        \A v \in task[p].listed \ Presets : packs[v] \notin {NoPack, Torn, Partial}

\* In no window of time, its ends included, is a client let in more often than
\* the limit says, refused and unauthorized requests in between or not
\* (RateLimiter).
RateHolds ==
    MaxRequests > 0 => \A p \in Limited : \A i \in DOMAIN admitted[p] :
        Cardinality({j \in i..Len(admitted[p]) : admitted[p][j] - admitted[p][i] <= Window})
            <= MaxRequests

=============================================================================
