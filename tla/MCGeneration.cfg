\* One operator model of either width, two requests, a unit of work, three writes, one start,
\* on a cloud box and on a local-only one.
SPECIFICATION FairSpec
CONSTANTS
  Added = {x}
  Requests = {r1, r2}
  Calls = {c1}
  Modes = {TRUE, FALSE}
  Prompts <- MCPrompts
  Wide = 2
  Windows = {1, 3}
  MaxWrites = 3
  MaxBoots = 1
  None = None
ACTION_CONSTRAINT Apart
INVARIANTS
  TypeOK
  ParentFollows
  FitsOneAsked
  LedgerTrue
PROPERTY WorkReturns
CHECK_DEADLOCK FALSE
