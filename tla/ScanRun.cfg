SPECIFICATION Spec
CONSTANT MaxRepositories = 4
INVARIANTS SilenceIsEarned TwoIsDeserved SummaryAgrees
CHECK_DEADLOCK FALSE
