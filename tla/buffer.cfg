SPECIFICATION BufFairSpec
CONSTANT MaxBytes = 4
INVARIANT NothingLost
PROPERTY WrittenIsRead
CHECK_DEADLOCK FALSE
