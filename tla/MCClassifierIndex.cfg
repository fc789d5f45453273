\* Up to six labeled events from three vectors and three labels, classified around one query.
CONSTANTS
  Dim = 3
  Points <- MCPoints
  Queries <- MCQueries
  Labels = {1, 2, 3}
  MaxLabeled = 6
  NoResult = NoResult
SPECIFICATION Spec
INVARIANTS
  TypeOK
  NeighbourOrderMatchesZScore
  VoteIsFirstPlurality
