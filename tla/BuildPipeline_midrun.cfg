SPECIFICATION Spec
CONSTANTS
    N <- Four
    Agnostic <- First
    MaxVersion = 2
    Pins <- Both
    EditsDuringRuns = TRUE
    Flags <- Ordinary
    CleanStages <- NoStages
    FromStages <- First
    CloneLeaves <- Nothing
    MovedTag = TRUE
    Losable <- NoStages
    MaxFaults = 0
INVARIANT FinishedIsCurrent
