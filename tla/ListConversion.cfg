\* Every allocation a conversion makes may fail, at any turn of its loop.
CONSTANTS
  v1 = v1
  v2 = v2
  v3 = v3
  v4 = v4
  n1 = n1
  n2 = n2
  n3 = n3
  Node = {n1, n2}
  Value = {v1, v2, v3, v4}
  ContentOf <- MCContentOf
  NULL = NULL
  HEAD = HEAD
  Dfs = {TRUE}
  MaxBatch = 2
  BulkRefused = TRUE
  MaxArray = 2
  MaxLists = 2
  Heaps <- MCHeaps
SPECIFICATION ConvSpec
INVARIANTS ExportExact DeepCopy MemoryExact
PROPERTIES CopiesAll
SYMMETRY Likes
