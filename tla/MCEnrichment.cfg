\* Two sweeps, three messages of one symbiot over three ticks: bursts of one to
\* three, a late answer, a lock held by the other sweep, a stale burst.
CONSTANTS
  Symbiots = {ann}
  Sweeps = {w1, w2}
  MaxMessages = 3
  Horizon = 3
  Settle = 1
  MaxFailures = 1
  None = None
SPECIFICATION FairSpec
INVARIANTS
  TypeOK
  AnchoredOnce
  ComparedWithAll
PROPERTY AnswerIsConsidered
CHECK_DEADLOCK FALSE
