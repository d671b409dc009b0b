SPECIFICATION AssistantSpec
CONSTANTS
    Openings <- MCOpenings
    Specs <- MCSpecs
    Answers <- MCAnswers
    MaxTurns = 3
INVARIANT StreamedSpecIsUsed
CHECK_DEADLOCK FALSE
