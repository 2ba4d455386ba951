\* One symbiot, two writers' items, one sweep and a reply being composed.
CONSTANTS
  Symbiots = {1}
  Sweeps = {w1}
  Readers = {r1}
  Tokens <- MCTokens
  Budget = 1
  MaxItems = 2
  None = None
SPECIFICATION Spec
INVARIANT NothingMissed
