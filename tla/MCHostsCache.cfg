SPECIFICATION FairSpec
CONSTANTS
  h1 = h1
  q1 = q1
  q2 = q2
  Host = {h1}
  Reader <- Readers
  MaxToken = 2
  MaxWriter = 2
  NoHost = NoHost
INVARIANTS CacheInv
PROPERTIES RevocationTakesHold
