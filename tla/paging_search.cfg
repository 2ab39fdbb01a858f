SPECIFICATION FairSpec
CONSTANTS
  Ids = {1, 2, 3, 4}
  Limit = 2
  Lists = {"search page"}
INVARIANT WalkComplete
