\* One device, two fan-outs, two symbiots, one missive, two endpoints: an endpoint
\* is lost, renewed and adopted while either thread holds what it read.
SPECIFICATION Spec
SYMMETRY Alike
CONSTANTS
  Symbiots = {ann, bob}
  Browsers = {b1}
  Threads = {w1, w2}
  None = None
  Switched = {"web_push"}
  MaxMissives = 1
  MaxChannels = 2
INVARIANTS
  TypeOK
  KnownWhileAlive
  ReachedAll
PROPERTY AckedByItsOwn
CHECK_DEADLOCK FALSE
