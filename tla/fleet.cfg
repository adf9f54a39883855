SPECIFICATION FairSpec
CONSTANTS
  d1 = d1
  d2 = d2
  d3 = d3
  list = list
  Drivers = {d1, d2, d3}
  Fleet = list
  MaxLists = 2
INVARIANTS
  TypeOK
  ListsExclusive
PROPERTIES
  HandsPromiseOn
  CallsAnswered
