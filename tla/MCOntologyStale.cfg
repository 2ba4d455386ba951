\* One ingester, two names and three messages: the model names a type that
\* was folded into another.
CONSTANTS
  Names = {boxing, training}
  Messages = {1, 2, 3}
  Ingesters = {i1}
  MaxConcepts = 1
  None = None
SPECIFICATION Spec
INVARIANT MergedFactsMeet
CHECK_DEADLOCK FALSE
