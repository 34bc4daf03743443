CONSTANTS
    Cap = 1
SPECIFICATION FairSpec
INVARIANTS ConnectedIfAnswered CanceledIsReal AnswerComesFirst
PROPERTIES HangUpReaches
\* A call that is over does nothing more.
CHECK_DEADLOCK FALSE
