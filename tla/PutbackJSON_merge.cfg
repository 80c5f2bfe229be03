\* putbackJSON over every triple of documents of the instance.
CONSTANTS
  s1 = s1  s2 = s2  Null = Null  Absent = Absent  Pending = Pending
  Scalars <- MCScalars  ArrayElems <- MCArrayElems
  TopKeys <- MCTopKeys  SubKeys <- MCSubKeys
SPECIFICATION Spec
INVARIANT TypeOK
INVARIANT LocalEditsApplied
INVARIANT NoPanicWhenKindsAgree
INVARIANT SameIsDeepEquality
