SPECIFICATION FairSpec
CONSTANTS
  Ids = {1, 2, 3, 4}
  Limit = 2
  Lists = {"replies", "questions", "inbox", "home", "global", "profile", "search"}
INVARIANTS TypeOK NewestFirst WalkComplete
PROPERTIES WalkEnds LateItemsMet
