\* A put-back of an unedited document must leave the server copy unchanged.
CONSTANTS
  s1 = s1  s2 = s2  Null = Null  Absent = Absent  Pending = Pending
  Scalars <- MCScalars  ArrayElems <- MCArrayElems
  TopKeys <- MCTopKeys  SubKeys <- MCSubKeys
SPECIFICATION Spec
INVARIANT PutbackWithoutEditsKeepsServer
