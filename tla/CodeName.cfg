CONSTANTS
    Class = {"letter", "digit", "underscore", "other"}
    MaxLen = 5
SPECIFICATION MCSpec
INVARIANT AnswersPattern
CHECK_DEADLOCK FALSE
