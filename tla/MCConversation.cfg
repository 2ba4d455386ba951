\* Two symbiots, two items, two sweeps and a reply being composed.
CONSTANTS
  Symbiots = {1, 2}
  Sweeps = {w1, w2}
  Readers = {r1}
  Tokens <- MCTokensLive
  Budget = 1
  MaxItems = 2
  None = None
SPECIFICATION FairSpec
INVARIANTS
  TypeOK
  FoldedOnce
  NothingDropped
  NothingTwice
  NothingMissedButOpen
PROPERTY EndsUpFolded
