SPECIFICATION TableSpec
CONSTANTS
    Callers = {c1, c2, c3}
    Counting = {t1, t2}
    CALLS = 2
    USIZE_MAX = 2
INVARIANTS
    TableIsReadable
    OutcomeIsFinal
    AnswersKeepTheContract
    NoCallUncounted
    ResultsAreWhole
    PipesAreWhole
PROPERTIES
    EveryCallReturns
    LoopsEnd
CHECK_DEADLOCK FALSE
