SPECIFICATION FairSpec
CONSTANTS
  Networks = {n1, n2}
  Clients = {c}
  mute = mute
  other = other
  wrapped = wrapped
  Strangers = {mute, other, wrapped}
  ChainOf <- StrangerChains
  Silent = Silent
  Nobody = Nobody
  localHardhatChainID = 1
  Word = 8
CHECK_DEADLOCK FALSE

INVARIANTS NoProcessLeft KeyStaysLocal
PROPERTIES InterruptEnds
