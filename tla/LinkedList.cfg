\* Three values, two of them equal by content, that the list frees or does not;
\* calloc has a node for every value of a LinkedList_push_all.
CONSTANTS
  v1 = v1
  v2 = v2
  v3 = v3
  n1 = n1
  n2 = n2
  n3 = n3
  n4 = n4
  Node = {n1, n2, n3}
  Value = {v1, v2, v3}
  ContentOf <- MCContentOf
  NULL = NULL
  HEAD = HEAD
  Dfs = {TRUE, FALSE}
  MaxBatch = 2
  BulkRefused = FALSE
SPECIFICATION Spec
INVARIANTS ChainExact LoopsStayLive OwnershipExact
PROPERTIES CallsReturn ImplementsAbstractNodeList
