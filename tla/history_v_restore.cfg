SPECIFICATION HistorySpec
CONSTANT MaxUpdates = 3
INVARIANT RestoredTextIsCurrent
CHECK_DEADLOCK FALSE
