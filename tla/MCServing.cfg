SPECIFICATION Spec
CONSTANTS
    Source = "lug"
    Foreign = "eng"
    Target = "nyn"
    Procs = {"dub", "api"}
    Limited = {"api"}
    Plans <- MCPlans
    Words0 <- MCWords
    Owner = "ann"
    Packs0 <- MCPacks
    Presets = {"v2"}
    Lender = "eve"
    MaxRequests = 1
    Window = 1
    MaxTime = 2
INVARIANTS
    OwnAudio
    HeardIsSpoken
    SpokenOnce
    NoVoiceWithoutConsent
    VoiceOfConsent
    ListedIsReadable
    RateHolds
CHECK_DEADLOCK FALSE
