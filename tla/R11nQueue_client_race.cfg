\* Two workers on the shared dummy client: appends race.
CONSTANTS
  d1 = d1  d2 = d2  NoSnap = NoSnap
  DIDs <- TwoDIDs
  MaxPushes = 2
SPECIFICATION Spec
INVARIANT RecordedCallsMatchKinds
