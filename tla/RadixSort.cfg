\* Every array of up to 3 elements of these keys. The sort ends, so that
\* nothing can happen after it is no deadlock.
CONSTANTS
  Base = 3
  Key <- MCKey
  Lengths = {0, 1, 2, 3}
SPECIFICATION SortSpec
INVARIANT SortedSoFar
PROPERTIES PassesAsStated
CHECK_DEADLOCK FALSE
