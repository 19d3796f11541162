------------------------------ MODULE MCServing ------------------------------
\* Two words are said, the second in the foreign language.  One process runs
\* a pipeline or is an MCP server, the other serves two requests.
EXTENDS Serving

MCWords == <<Word(1, Source), Word(2, Foreign)>>

\* A transcript that names its speakers, with its recording.
Transcript(consent) ==
    [Result(<<[Segment(<<Word(1, Source)>>) EXCEPT !.speaker = TRUE],
              Segment(<<Word(2, Foreign)>>)>>)
        EXCEPT !.artifacts = <<Artifact(Recording, Speech(MCWords, "ann", FALSE))>>,
               !.consent = consent]

\* A transcript alone, that names a recording to be spoken like.
Lent == Result(<<[Segment(<<Word(1, Source)>>) EXCEPT !.reference = "eve"],
                 Segment(<<Word(2, Foreign)>>)>>)

Heard1 == <<"whisper", "neural_lid", "hf_translation", "mms_tts", "audio_blending">>
Heard2 == <<"dummy_asr", "dummy_lid_split", "dummy_translation", "duration_modelling",
            "dummy_tts", "audio_blending">>
Heard3 == <<"sunbird_asr_cloud", "heuristic_lid", "sunbird_translation", "sunbird_tts",
            "audio_blending">>
Heard4 == <<"faster_whisper", "heuristic_lid", "quantized_nllb", "sherpa_mms_tts">>
Heard5 == <<"runyankole_asr", "dummy_lid", "dummy_translation", "duration_modelling",
            "omnivoice_tts">>
Heard6 == <<"sunbird_asr", "neural_lid", "dummy_translation", "duration_modelling",
            "voice_conditioned_tts", "audio_blending">>
Given1 == <<"dummy_translation", "speaker_embedding", "duration_modelling",
            "voice_conditioned_tts">>
Given2 == <<"hf_translation", "omnivoice_tts", "audio_blending">>
Given3 == <<"dummy_translation", "voice_cloning">>
Given4 == <<"dummy_translation", "voice_cloning_unasked">>
Given5 == <<"dummy_translation", "omnivoice_reference">>
Given6 == <<"dummy_translation", "voice_embedding">>
Twice1 == <<"dummy_translation", "dummy_tts", "voice_conditioned_tts", "voice_cloning">>
Twice2 == <<"sherpa_mms_tts", "voice_conditioned_tts", "audio_blending">>
Alone == <<"speaker_embedding", "dummy_translation", "voice_conditioned_tts", "audio_blending">>

MCSaid == <<Word(3, Source), Word(4, Source)>>
Say(engine, voice) == Speak(engine, voice, <<Word(3, Target)>>)

MCPipelines ==
    {Pipeline(Resource(consent), stages) :
        consent \in BOOLEAN, stages \in {Heard1, Heard2, Heard3, Heard4, Heard5, Heard6, Alone}}
    \cup {Pipeline(Transcript(consent), stages) :
             consent \in BOOLEAN, stages \in {Given1, Given2, Given3, Given4, Twice1, Twice2}}
    \cup {Pipeline(Lent, stages) : stages \in {Given2, Given5, Given6}}

\* What a server shares with a pipeline are the files of speech synthesis; two
\* servers also share the files of the voices.
MCPlans ==
    {[dub |-> <<job>>, api |-> requests] :
        job \in MCPipelines,
        requests \in {<<Say("omnivoice_tts", "v2"), Say("sherpa_mms_tts", "v1")>>,
                      <<Say("sunbird_tts", "v1")>>}}
    \cup {[dub |-> jobs, api |-> requests] :
             jobs \in {<<Say("omnivoice_tts", "v1"), Listing>>, <<Translation(MCSaid)>>},
             requests \in {<<Clone("v1", "bob"), Say("omnivoice_tts", "v1")>>,
                           <<Clone("v3", "bob"), Listing>>, <<Clone("v1", "bob"), Listing>>,
                           <<Translation(MCSaid), Say("omnivoice_tts", "v1")>>}}

\* No job of the run that speaks once is left out of SpokenOnce.
ASSUME MCPlansStraight ==
    \A plan \in MCPlans : \A p \in DOMAIN plan : \A job \in Range(plan[p]) :
        Straight(job) \/ (job.kind = "pipeline" /\ ~SpeaksOnce(job.stages))

MCPacks == [v \in {"v1", "v2", "v3"} |-> IF v = "v1" THEN "ann" ELSE NoPack]
=============================================================================
