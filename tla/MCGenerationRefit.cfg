\* A local-only box whose window was measured narrower than the flagship's: a prompt
\* condensed for the one is not condensed again for the other.
SPECIFICATION Spec
CONSTANTS
  Added = {}
  Requests = {}
  Calls = {c1}
  Modes = {TRUE}
  Prompts <- MCHeavy
  Wide = 3
  Windows = {1}
  MaxWrites = 0
  MaxBoots = 1
  None = None
INVARIANT PromptFits
CHECK_DEADLOCK FALSE
