SPECIFICATION DubbingSpec
CONSTANTS
    Letters = {"a", "b", "c"}
    Blank = "-"
    Sources <- MCSources
    Cues <- MCCues
    Speeches <- MCSpeeches
INVARIANTS
    WordsTile
    TimingOrderly
    NeverLate
    StretchOwn
    NoCreditForSilence
CHECK_DEADLOCK FALSE
