SPECIFICATION FairSpec
CONSTANTS
    N <- Four
    Agnostic <- First
    MaxVersion = 2
    Pins <- Both
    EditsDuringRuns = FALSE
    Flags <- Plain
    CleanStages <- NoStages
    FromStages <- First
    CloneLeaves <- Half
    MovedTag = TRUE
    Losable <- NoStages
    MaxFaults = 1
PROPERTY Recovers
