SPECIFICATION FairSpec
CONSTANTS
  Fields = {"query", "boards"}
  BoardField = "boards"
  Values = {"x"}
  Categories = {"x", "y"}
  MaxBoards = 4
  BoardPageSize = 2
  SearchPageSize = 2
  ThreadCounts = {1, 9}
  HitCounts = {0, 3}
  MaxBoardPage = 6
  MaxPosts = 2
  MaxFetches = 3
INVARIANTS
  TypeOK
  ListIsOfAddress
  ShowsWhatWasRefreshed
  ResultsAreThoseAsked
  EveryThreadIsReachable
  MenuIsIndex
PROPERTIES
  LoadingEnds
CHECK_DEADLOCK FALSE
