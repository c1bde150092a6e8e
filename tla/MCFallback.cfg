SPECIFICATION FallbackFairSpec
CONSTANTS
  Workers = {w1, w2}
  Preloader = Preloader
  Nobody = Nobody
  IdleTimeout = 1
INVARIANT
  OnlyTheCaughtAreLost
PROPERTY
  SwitchIsFinal
