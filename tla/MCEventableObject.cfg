\* One map and the world; the object enters the map at most once more.
CONSTANTS
  None = None
  Maps = {m1}
  e1 = e1
  e2 = e2
  Events <- MCEvents
  Flagged <- MCFlagged
  OneShot <- MCFlagged
  MsTime <- MCMsTime
  MaxMoves = 1
SPECIFICATION FairSpec
INVARIANTS TypeOK Counted NoneForgotten
PROPERTIES PickedInPlace EventuallyRuns
