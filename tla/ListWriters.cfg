SPECIFICATION WritersSpec
CONSTANTS
  p1 = p1
  p2 = p2
  Users <- ThreeUsers
  Catalogue <- FourItems
  CategoryOf <- Categories
  Preferences <- Likes
  BatchSize = 2
  TopK = 2
  Passes = {p1, p2}
  Selections <- SomeSelections
SYMMETRY AnyPass
INVARIANTS SeedIsComplete PassesRenewInOrder SeededListsFill
CHECK_DEADLOCK FALSE
