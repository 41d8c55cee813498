CONSTANT Queries = 3
SPECIFICATION FairSpec
CHECK_DEADLOCK FALSE
INVARIANTS TypeOK NothingIsSkipped
PROPERTIES EveryQueryIsAnswered BacklogIsAbandoned SessionOverEndsTask
