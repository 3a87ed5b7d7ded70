SPECIFICATION FairSpec
CONSTANTS
  Goroutines = {g1, g2, g3}
  Threshold = 2
  ResetTimeout = 2
INVARIANTS TypeOK NoLostProbe OfferIsClaimed
PROPERTIES LegalTransitions ImplementsBreakerSpec HalfOpenResolves RecoversWithTriton
