SPECIFICATION Spec
CONSTANTS
  t1 = t1
  t2 = t2
  Thread = {t1, t2}
  MaxWorkers = 2
  overflow_policy <- MCPolicy
  max_items = 2
  Before <- MCBefore
  Sizes = {1, 2}
  Flushes = {2}
  max_size_ = 2
  max_files_ = 2
  MaxPosts = 5
  MaxFaults = 1
  Nothing = Nothing
INVARIANTS NothingIsLost NothingIsLeftBehind RotationIsSafe
PROPERTIES IsAQueue EveryCallReturns
\* The program has made its calls.
CHECK_DEADLOCK FALSE
