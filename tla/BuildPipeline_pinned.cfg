SPECIFICATION Spec
CONSTANTS
    N <- Four
    Agnostic <- First
    MaxVersion = 2
    Pins <- Both
    EditsDuringRuns = FALSE
    Flags <- Ordinary
    CleanStages <- NoStages
    FromStages <- First
    CloneLeaves <- Nothing
    MovedTag = FALSE
    Losable <- NoStages
    MaxFaults = 0
INVARIANT SourceAsPinned
