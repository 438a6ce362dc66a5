SPECIFICATION FairSpec
CONSTANTS
    MaxTokens = 3
    Texts <- ShortTexts
    MaxRunes = 3
    MinRunes = 2
    MaxFree = 2
    MaxInterferences = 2
    MaxFailures = 1
CHECK_DEADLOCK FALSE
INVARIANT AnswerShownOnce
INVARIANT RowTellsTheTruth
PROPERTY StopsAreQuiet
PROPERTY BatchEnds
