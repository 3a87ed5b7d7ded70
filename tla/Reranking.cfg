SPECIFICATION RankingSpec
CONSTANTS
  Items = {"a", "b", "c"}
  Lists <- ShortLists
  Members <- SomeMembers
  Times = {1, 2}
  TritonScores = {1, 2}
  Recent = 2
INVARIANTS RankedStably FreshKeepsLead
