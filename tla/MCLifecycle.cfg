SPECIFICATION FairSpec
CONSTANTS
  Workers = {w1, w2}
  Preloader = Preloader
  Nobody = Nobody
  IdleTimeout = 1
INVARIANTS
  NeverPulledAway
  LoadsOnlyOnce
PROPERTIES
  ImplementsModelMemory
  IdleModelIsFreed
  WorkEnds
