SPECIFICATION Spec
CONSTANTS
  MaxAge = 2
  Tolerance = 1
  MaxSnapshots = 2
  MaxTime = 1
  Documents <- MCDocuments
  Recommended <- MCRecommended
  Topics <- MCTopics
  RunTopics <- MCRunTopics
INVARIANTS
  TypeOK
  SettingVerdictsTrue
  CatalogVerdictsTrue
  ReviewListComplete
  ConfirmedMeansFixed
CHECK_DEADLOCK FALSE
