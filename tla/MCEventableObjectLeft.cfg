\* As MCEventableObject.cfg, without fairness: the property is about steps.
CONSTANTS
  None = None
  Maps = {m1}
  e1 = e1
  e2 = e2
  Events <- MCEvents
  Flagged <- MCFlagged
  OneShot <- MCFlagged
  MsTime <- MCMsTime
  MaxMoves = 1
SPECIFICATION Spec
PROPERTIES RunsWhereItIs
