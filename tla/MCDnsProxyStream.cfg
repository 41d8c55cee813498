CONSTANT Queries = 2
SPECIFICATION Spec
CHECK_DEADLOCK FALSE
INVARIANT AnswersOneQuery
