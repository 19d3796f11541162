----------------------------- MODULE MCAssembly ----------------------------
(* Model-checking instance of Assembly: two keys, three versions of which    *)
(* two compare equal, a recogniser that comes in two languages under one     *)
(* name and version, and a translator that comes with and without            *)
(* requirements.                                                             *)
EXTENDS Assembly, TLC

Ranks == "1.0" :> 1 @@ "1.00" :> 1 @@ "2.0" :> 2

Trait(name, requires, provides, languages) ==
    [name |-> name, requires |-> requires, provides |-> provides, languages |-> languages]

Components == "asrLug" :> Trait("asr", {}, {"text"}, {"lug"})
           @@ "asrEng" :> Trait("asr", {}, {"text"}, {"eng"})
           @@ "mt" :> Trait("mt", {"text"}, {"translation"}, {"*"})
           @@ "mtAlone" :> Trait("mt", {}, {"translation"}, {})

Entry(k, v, impl, fault) == [key |-> k, version |-> v, impl |-> impl, fault |-> fault]

Asr(fault) == Entry("a", "1.0", "asrLug", fault)
Mt(fault) == Entry("b", "1.0", "mt", fault)
Newer == Entry("a", "2.0", "asrLug", "none")
Again == Entry("b", "1.0", "mtAlone", "none")

Found == { << <<Asr("none"), Mt(f), Newer>> >> : f \in {"none", "schema", "import"} }
    \cup { << <<Mt("none"), Again>>, <<Asr("none")>> >> }

Applications == { [key |-> "a", version |-> "1.00", impl |-> "asrEng"],
                  [key |-> "b", version |-> "1.00", impl |-> "mtAlone"] }

Config(stages) == [stages |-> stages, source |-> "lug", target |-> "none", routed |-> FALSE]
Stage(k, q) == [key |-> k, version |-> q]

Pipelines == { Config(<<Stage("a", "latest"), Stage("b", "1.0")>>),
               Config(<<Stage("b", "latest")>>) }
=============================================================================
