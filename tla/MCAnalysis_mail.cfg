SPECIFICATION Spec
CONSTANTS
    MaxGap = 2
    MaxDuration = 4
    MinCaptures = 2
    Entries <- MCEntries
    Proposal <- MCProposal
    Tiers <- MCTiers
    Threshold = 5
    TopCount = 1
    MaxRuns = 2
    DaysSeen <- MCDaysSeen
    Replies <- MCReplies
    PerCall = 2
    PerCapture = 1
    Ceiling = 8
    SynthesisPrice = 3
    PriorLimit = 1
INVARIANTS WithinCeiling SessionsAreWhole BestOnTop RefusedStaysAway
PROPERTY WholeEntriesSurvive
CHECK_DEADLOCK FALSE
