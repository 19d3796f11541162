-------------------------- MODULE PipelineExecutor --------------------------
(***************************************************************************)
(* lingualdub.pipeline.executor: PipelineExecutor._run_stages() and        *)
(* _run_per_segment_stage(), with the status rules of core.result.Result.  *)
(*                                                                         *)
(* One step runs one stage of the pipeline and what the executor makes of  *)
(* its outcome.  What a stage does is left open: it may hand on the result *)
(* it was given with its segments processed, return one built from         *)
(* scratch, of any status, split or merge segments, return something that  *)
(* is no Result, or raise.  A Result is its status, its warnings, whether  *)
(* its provenance has the consent_basis of the input, and its segments; a  *)
(* segment is its place in time, its language, the stages that processed   *)
(* it and its skipped_by.  Middleware, tracing, metrics, logs, language    *)
(* fields and the other provenance keys are left out.                      *)
(***************************************************************************)
EXTENDS Naturals, Sequences, FiniteSets, SequencesExt

CONSTANTS Stages,      \* number of stages of the pipeline
          Languages,   \* segment languages
          Segments     \* bound: segments of a transcript

ASSUME ExecutorConstants == Stages \in Nat \ {0} /\ Segments \in Nat \ {0}

VARIABLES mode,         \* failure mode of each stage, its own or the pipeline's
          supports,     \* supported_languages of each stage
          perSegment,   \* per_segment_language of the pipeline
          consented,    \* the input has a consent_basis
          stage,        \* the stage the loop is at
          current,      \* the running input of the next stage
          result,       \* the Result so far
          outcome,      \* how run() ended: still running, returned or raised
          failures      \* stages that failed, and how that was made good

pipeline == <<mode, supports, perSegment, consented>>
executorVars == <<pipeline, stage, current, result, outcome, failures>>

Complete == 0   Partial == 1   Degraded == 2   Failed == 3
Statuses == {Complete, Partial, Degraded, Failed}
Modes == {"abort", "skip", "degrade"}
NoStage == 0

Worse(s, t) == IF s > t THEN s ELSE t

Value(kind, status, warnings, consent, segs) ==
    [kind |-> kind, status |-> status, warnings |-> warnings, consent |-> consent, segs |-> segs]

Transcripts(maker) ==
    {[i \in 1..Segments |-> [start |-> i, lang |-> langs[i], by |-> maker, skippedBy |-> NoStage]]
       : langs \in [1..Segments -> Languages]}

\* run(input): a Resource, or the Result of another pipeline.
Inputs(consent) == {Value("resource", Complete, {}, consent, <<>>)}
                     \cup {Value("result", Degraded, {}, consent, segs) : segs \in Transcripts({})}

NotAResult == Value("other", Complete, {}, FALSE, <<>>)

ExecutorInit == /\ mode \in [1..Stages -> Modes]
                /\ supports \in [1..Stages -> (SUBSET Languages) \ {{}}]
                /\ perSegment \in BOOLEAN
                /\ consented \in BOOLEAN
                /\ stage = 1
                /\ current \in Inputs(consented)
                /\ result = Value("result", Complete, {}, consented, <<>>)
                /\ outcome = "running"
                /\ failures = {}

-----------------------------------------------------------------------------
\* What stage.run(input) may return.  A segment produced by a stage counts as
\* processed by it.
Process(segs) == [i \in 1..Len(segs) |-> [segs[i] EXCEPT !.by = @ \cup {stage}]]

Processed(segs) == IF segs = <<>> THEN Transcripts({stage})
                   ELSE {Process(segs), Process(<<Head(segs)>> \o segs), Process(Tail(segs))}

Returns(input) ==
    {Value("result", s, {}, FALSE, segs) : s \in Statuses, segs \in Processed(input.segs)}
      \cup {Value("result", Worse(s, input.status), input.warnings, input.consent, segs)
              : s \in Statuses, segs \in Processed(input.segs)}

-----------------------------------------------------------------------------
\* Mutant: the warnings and status of the stage's own Result are kept as is.
MergeNothing(out) == [out EXCEPT !.consent = @ \/ consented]

\* Mutant: the run's provenance is not merged into the stage's Result.
MergeWithoutProvenance(out) == [out EXCEPT !.warnings = result.warnings \cup @,
                                           !.status = Worse(result.status, @)]

\* What the executor makes of a Result: the provenance of the run is merged in,
\* the warnings accumulate, and the status is the most severe so far.
Merge(out) == [out EXCEPT !.consent = @ \/ consented,
                          !.warnings = result.warnings \cup @,
                          !.status = Worse(result.status, @)]

Mark(r, status, warning) == [r EXCEPT !.status = status, !.warnings = @ \cup {warning}]

\* Result.replace() refuses to make a status less severe.
CanMark(r, status) == r.status <= status

Advance == /\ stage' = stage + 1
           /\ outcome' = IF stage = Stages THEN "returned" ELSE "running"

Raise(error) == /\ outcome' = error
                /\ UNCHANGED <<stage, current, result>>

Accept(out) == /\ result' = Merge(out)
               /\ current' = result'
               /\ Advance
               /\ UNCHANGED failures

\* FailureMode.SKIP: the result goes on without the stage, marked PARTIAL.
Skip == /\ mode[stage] = "skip"
        /\ IF CanMark(result, Partial)
           THEN /\ result' = Mark(result, Partial, <<"partial", stage>>)
                /\ current' = result'
                /\ Advance
                /\ failures' = failures \cup {<<"partial", stage>>}
           ELSE Raise("statusError") /\ UNCHANGED failures

\* FailureMode.DEGRADE: stage.degrade(input) stands in for the stage.
DegradeReturns(input) ==
    \E out \in {Value("result", Degraded, {}, FALSE, input.segs),
                Value("result", Worse(Degraded, input.status), input.warnings,
                      input.consent, input.segs),
                NotAResult} :
        LET base == IF out.kind = "result" THEN Merge(out) ELSE result
        IN  IF CanMark(base, Degraded)
            THEN /\ result' = Mark(base, Degraded, <<"degraded", stage>>)
                 /\ current' = IF out.kind = "result" THEN base ELSE out
                 /\ Advance
                 /\ failures' = failures \cup {<<"degraded", stage>>}
            ELSE Raise("aborted") /\ UNCHANGED failures

NoDegradePath ==
    /\ result' = IF result.status >= Degraded
                 THEN Mark(result, result.status, <<"partial", stage>>)
                 ELSE Mark(result, Partial, <<"partial", stage>>)
    /\ current' = result'
    /\ Advance
    /\ failures' = failures \cup {<<"partial", stage>>}

Fail(input) ==
    \/ mode[stage] = "abort" /\ Raise("aborted") /\ UNCHANGED failures
    \/ Skip
    \/ mode[stage] = "degrade" /\ (DegradeReturns(input) \/ NoDegradePath)
    \/ mode[stage] = "degrade" /\ Raise("aborted") /\ UNCHANGED failures

-----------------------------------------------------------------------------
\* Per-segment routing.
Supports(seg) == seg.lang \in supports[stage]
Routed == /\ perSegment /\ current.kind = "result" /\ current.segs # <<>>
          /\ \E seg \in ToSet(current.segs) : ~Supports(seg)

\* The elements of s at some of its places.
Picked(s, places) == FlattenSeq([i \in 1..Len(s) |-> IF i \in places THEN <<s[i]>> ELSE <<>>])

Places == {i \in 1..Len(current.segs) : Supports(current.segs[i])}
Supported == Picked(current.segs, Places)
MarkSkipped(seg) == IF Supports(seg) THEN seg ELSE [seg EXCEPT !.skippedBy = stage]
WithSkipped == [i \in 1..Len(current.segs) |-> MarkSkipped(current.segs[i])]

Skipped == Picked(WithSkipped, 1..Len(current.segs) \ Places)

\* sorted() by start, end and text: only the halves of a split segment start
\* together here, and nothing tells which of them comes first.
Insert(segs, seg) ==
    InsertAt(segs, Max({0} \cup {i \in 1..Len(segs) : segs[i].start <= seg.start}) + 1, seg)
ByStart(segs) ==
    LET sorted[n \in 0..Len(segs)] == IF n = 0 THEN <<>> ELSE Insert(sorted[n - 1], segs[n])
    IN  sorted[Len(segs)]

\* Mutant: the segments the stage did not get are not put back.
KeepProcessed(new) == new

\* Processed and skipped segments, put together in the original order; when
\* the stage has changed their number, ordered by start time.
Recombine(new) ==
    IF Len(new) = Len(Supported)
    THEN [i \in 1..Len(current.segs) |->
             IF i \in Places THEN new[Cardinality({j \in Places : j <= i})] ELSE WithSkipped[i]]
    ELSE ByStart(new \o Skipped)

\* The stage is run on a fresh Result with the segments it supports.
SubResult == Value("result", Complete, current.warnings, current.consent, Supported)
RouteStatus == IF mode[stage] = "degrade" THEN Degraded ELSE Partial
RouteWarning == <<"routed", stage>>

RunRouted == /\ Routed /\ Supported # <<>> /\ mode[stage] # "abort"
             /\ \E out \in Returns(SubResult) :
                   LET whole == [out EXCEPT !.segs = Recombine(out.segs)]
                   IN  IF CanMark(whole, RouteStatus)
                       THEN Accept(Mark(whole, RouteStatus, RouteWarning))
                       ELSE Fail(current)

RouteNothing == /\ Routed /\ Supported = <<>> /\ mode[stage] # "abort"
                /\ IF CanMark(current, Partial)
                   THEN Accept(Mark([current EXCEPT !.segs = WithSkipped], Partial, RouteWarning))
                   ELSE Fail(current)

\* An unsupported language under ABORT.
Unroutable == Routed /\ mode[stage] = "abort" /\ Raise("aborted") /\ UNCHANGED failures

Run == ~Routed /\ \E out \in Returns(current) : Accept(out)

StageRuns == ~Routed \/ (Supported # <<>> /\ mode[stage] # "abort")

\* A PipelineExecutionError, as of a pipeline within the stage, is passed on
\* whatever the failure mode.
StageRaises == StageRuns /\ (Fail(current) \/ (Raise("aborted") /\ UNCHANGED failures))

\* Not a Result: a ComponentContractError.  Outside of the routing, the value
\* has already taken the place of current.
StageReturnsOther == StageRuns /\ Fail(IF Routed THEN current ELSE NotAResult)

ExecutorNext == /\ outcome = "running"
                /\ Run \/ RunRouted \/ RouteNothing \/ Unroutable \/ StageRaises \/ StageReturnsOther
                /\ UNCHANGED pipeline

ExecutorSpec == ExecutorInit /\ [][ExecutorNext]_executorVars

-----------------------------------------------------------------------------
Segs == Seq([start : 1..Segments, lang : Languages, by : SUBSET (1..Stages),
             skippedBy : 0..Stages])
Warnings == {"partial", "degraded", "routed"} \X (1..Stages)
Values(kinds) == [kind : kinds, status : Statuses, warnings : SUBSET Warnings,
                  consent : BOOLEAN, segs : Segs]

ExecutorTypeOK == /\ mode \in [1..Stages -> Modes]
                  /\ supports \in [1..Stages -> SUBSET Languages]
                  /\ perSegment \in BOOLEAN /\ consented \in BOOLEAN
                  /\ stage \in 1..(Stages + 1)
                  /\ current \in Values({"resource", "result", "other"})
                  /\ result \in Values({"result"})
                  /\ outcome \in {"running", "returned", "aborted", "statusError"}
                  /\ failures \subseteq Warnings

\* "Warnings accumulate": a stage that was skipped or degraded is named in the
\* warnings of the Result from then on, whatever Result later stages return.
WarningsKept == failures \subseteq result.warnings

\* The status never flatters: at least PARTIAL once a stage was left out, and
\* at least DEGRADED once one was degraded, also when every later stage
\* returns a COMPLETE Result of its own.
StatusTruthful == \A f \in failures :
    result.status >= (IF f[1] = "degraded" THEN Degraded ELSE Partial)

\* "SKIP failure mode: result is marked PARTIAL and execution continues with
\* remaining stages" (docs/milestones.md): a skipped stage ends run() with no
\* error of its own.
SkipContinues == outcome = "statusError" => mode[stage] # "skip"

\* The consent_basis of the input is in the final Result and in whatever a
\* stage is given, except for what a degrade() path put in a Result's place.
ConsentKept == consented => result.consent /\ (current.kind # "other" => current.consent)

NotFor(segs) == FlattenSeq([i \in 1..Len(segs) |->
                              IF Supports(segs[i]) THEN <<>>
                              ELSE << <<segs[i].start, segs[i].lang, segs[i].by>> >>])

\* Per-segment routing: a stage that succeeds loses, reorders or processes no
\* segment whose language it does not support.
RoutingKeepsOthers ==
    [][Routed /\ stage' = stage + 1 /\ failures' = failures
       => NotFor(current'.segs) = NotFor(current.segs)]_executorVars

=============================================================================
