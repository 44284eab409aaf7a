SPECIFICATION IntroSpec
CONSTANTS
  h1 = h1
  h2 = h2
  h3 = h3
  N = 3
  Host <- MCHost
  Strangers = {h3}
  NetBound = 1
INVARIANT ResponseComesToPort
CHECK_DEADLOCK FALSE
