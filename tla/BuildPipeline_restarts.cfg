SPECIFICATION FairSpec
CONSTANTS
    N <- Four
    Agnostic <- First
    MaxVersion = 2
    Pins <- Both
    EditsDuringRuns = FALSE
    Flags <- Plain
    CleanStages <- Late
    FromStages <- First
    CloneLeaves <- Nothing
    MovedTag = TRUE
    Losable <- Outputs
    MaxFaults = 2
INVARIANT FinishedIsCurrent
INVARIANT JsonDescribesTarball
PROPERTY Recovers
