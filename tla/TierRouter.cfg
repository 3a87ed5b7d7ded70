SPECIFICATION Spec
CONSTANTS
  a = a
  b = b
  Items <- MCItems
  Lists <- MCLists
  Limits = {1, 2}
  Loads = {100, 150, 200, 300}
  Absent = Absent
  Corrupt = Corrupt
INVARIANTS TypeOK OnlyInStock ShedTiersStayShed ErrorsAreOutages FirmItemsAreServed
