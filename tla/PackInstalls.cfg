CONSTANTS
  Packs = {p1, p2}
  Requests = {r1, r2}
  Global = Global
  NoPack = NoPack
  MaxVersion = 2
  Entries = {"shared", "old", "new"}
  EntriesOf <- OwnAndShared
  MaxRequests = 2
  MaxFaults = 2
SYMMETRY Symmetry
SPECIFICATION Spec
INVARIANTS RecordsSurvive ActiveIsApplied
 
CHECK_DEADLOCK FALSE
