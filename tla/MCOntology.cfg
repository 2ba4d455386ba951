\* Two ingesters of two concepts each, so that two may coin one name and each wait
\* for a name of the other's, and three names, so that a cluster of three and a
\* chain of two merges both happen.
CONSTANTS
  Names = {boxing, training, workout}
  Messages = {1, 2}
  Ingesters = {i1, i2}
  MaxConcepts = 2
  None = None
SPECIFICATION Spec
SYMMETRY Alike
INVARIANTS
  TypeOK
  FiledAsRouted
  RedirectsEndLive
CHECK_DEADLOCK FALSE
