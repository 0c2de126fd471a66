\* Every document of up to five objects over two keys and the empty one.
SPECIFICATION Spec
CONSTANTS
  Part = {"a", "b", ""}
  Empty = ""
  MaxObjects = 5
  MaxDepth = 5
INVARIANTS
  IsATree
  ArraysHaveATable
  WrittenAsParsed
PROPERTY
  NothingIsReplaced
\* The parser returns or throws.
CHECK_DEADLOCK FALSE
