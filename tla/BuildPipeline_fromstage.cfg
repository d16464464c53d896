SPECIFICATION Spec
CONSTANTS
    N <- Four
    Agnostic <- First
    MaxVersion = 2
    Pins <- Both
    EditsDuringRuns = FALSE
    Flags <- Ordinary
    CleanStages <- NoStages
    FromStages <- Late
    CloneLeaves <- Nothing
    MovedTag = TRUE
    Losable <- NoStages
    MaxFaults = 0
INVARIANT FinishedIsCurrent
