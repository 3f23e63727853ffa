SPECIFICATION FairSpec
CONSTANTS
    MaxSignals = 2
    MaxRuns = 2
INVARIANTS TypeOK NoUseAfterClose OneMoreRead SleepJustified
PROPERTIES CancelledMeansAsked QuitEnds StopEndsLoop
